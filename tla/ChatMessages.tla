---------------------------- MODULE ChatMessages ----------------------------
(***************************************************************************)
(* One chat group: ChatMessageCommandService.sendTextMessage with its      *)
(* idempotency key, the read, delivered and cleared cursors of             *)
(* ChatMessageQueryService and ChatGroupsService, and the outbox rows      *)
(* their transactions write, composed with the dispatcher of ChatOutbox.   *)
(*                                                                         *)
(* A message's sequence is its position in msgs: the insert trigger counts *)
(* up a column of the group's row, whose lock serialises the inserts of    *)
(* the group until they commit, and a rollback takes the number back.      *)
(***************************************************************************)
EXTENDS ChatOutbox, Sequences, FiniteSetsExt

CONSTANTS
  Requests,     \* POST requests to send a message
  ClientIds,    \* clientMessageId values
  Contents,     \* message texts
  ClearCalls,   \* DELETE requests to clear the conversation
  MaxSeq,       \* bound: messages of the group
  PushIntents   \* isChatPushIntentEnabled

ASSUME ChatMessagesAssumption ==
  MaxSeq \in Nat /\ PushIntents \in BOOLEAN

VARIABLES
  msgs,    \* the committed messages, in sequence order
  cur,     \* cur[a]: the cursors of a's membership row
  req,     \* req[r]: what request r is doing and was answered
  clr,     \* clr[c]: the maximum sequence clear call c has read
  owed     \* owed[a]: messages whose delivered tick a's cursor has changed

dispatcherVars == <<ready, step, claimed, copy, istep, icopy, emitted, dropped,
                    made>>
chatVars == <<vars, msgs, cur, req, clr, owed>>

-----------------------------------------------------------------------------
(* read is -1 for NULL; wiped is history: the highest mark that was ever   *)
(* cleared, which two clearings at once leave above cleared.               *)
NoCursor == [read |-> -1, dlv |-> 0, cleared |-> 0, wiped |-> 0]
NoReq    == [st |-> "new", a |-> NoAccount, id |-> "", text |-> "", seq |-> 0]
ReqStates == {"new", "checked", "clash", "ok", "conflict", "failed"}
Message  == [a : Accounts, id : ClientIds, text : Contents]
Request  == [st : ReqStates, a : Accounts \cup {NoAccount},
             id : ClientIds \cup {""}, text : Contents \cup {""},
             seq : 0 .. MaxSeq]

(* A cursor never points past the last message of the group.               *)
ChatTypeOK ==
  /\ TypeOK
  /\ msgs \in Seq(Message) /\ Len(msgs) <= MaxSeq
  /\ cur \in [Accounts -> [read : -1 .. Len(msgs), dlv : 0 .. Len(msgs),
                           cleared : 0 .. Len(msgs), wiped : 0 .. Len(msgs)]]
  /\ req \in [Requests -> Request]
  /\ clr \in [ClearCalls -> [a : Accounts \cup {NoAccount}, max : -1 .. Len(msgs)]]
  /\ owed \in [Accounts -> SUBSET DOMAIN msgs]

ChatInit ==
  /\ Init
  /\ msgs = <<>>
  /\ cur = [a \in Accounts |-> NoCursor]
  /\ req = [r \in Requests |-> NoReq]
  /\ clr = [c \in ClearCalls |-> [a |-> NoAccount, max |-> -1]]
  /\ owed = [a \in Accounts |-> {}]

Largest(x, y) == IF x > y THEN x ELSE y

-----------------------------------------------------------------------------
(* sendTextMessage                                                         *)

(* findIdempotentMessage: the position of the message with that key, or 0. *)
Position(a, id) ==
  Max({0} \cup {n \in DOMAIN msgs : msgs[n].a = a /\ msgs[n].id = id})

(* resolveExisting: the stored message answers a retry, unless the retry   *)
(* says something else.                                                    *)
Resolved(q, n) ==
  IF msgs[n].text = q.text THEN [q EXCEPT !.st = "ok", !.seq = n]
                           ELSE [q EXCEPT !.st = "conflict"]

(* The transaction up to the lookup.                                       *)
SendStart(r, a, id, text) ==
  LET q == [NoReq EXCEPT !.a = a, !.id = id, !.text = text] IN
  /\ req[r].st = "new"
  /\ a \in member
  /\ req' = [req EXCEPT ![r] = IF Position(a, id) # 0
                               THEN Resolved(q, Position(a, id))
                               ELSE [q EXCEPT !.st = "checked"]]
  /\ UNCHANGED <<vars, msgs, cur, clr, owed>>

(* Its writes, which commit together: the message, the sender's cursors    *)
(* and the outbox row.                                                     *)
Stored(q, i) ==
  LET n == Len(msgs) + 1 IN
  /\ n <= MaxSeq
  /\ msgs' = Append(msgs, [a |-> q.a, id |-> q.id, text |-> q.text])
  /\ cur' = IF q.a \in member
            THEN [cur EXCEPT ![q.a].read = Largest(@, n),
                             ![q.a].dlv = Largest(@, n)]
            ELSE cur
  /\ Insert(i, "message", q.a, n, 0,
                   IF PushIntents THEN "pending" ELSE "none")
  /\ UNCHANGED <<member, dispatcherVars, clr, owed>>

SendCommit(r, i) ==
  /\ req[r].st = "checked" /\ Position(req[r].a, req[r].id) = 0
  /\ Stored(req[r], i)
  /\ req' = [req EXCEPT ![r].st = "ok", ![r].seq = Len(msgs) + 1]
  /\ UNCHANGED faults

(* The commit's answer is lost: the client sees an error and may retry.    *)
SendInDoubt(r, i) ==
  /\ req[r].st = "checked" /\ Position(req[r].a, req[r].id) = 0
  /\ Fault
  /\ Stored(req[r], i)
  /\ req' = [req EXCEPT ![r].st = "failed"]

(* The unique index refuses the insert (23505): the transaction is undone. *)
SendClash(r) ==
  /\ req[r].st = "checked" /\ Position(req[r].a, req[r].id) # 0
  /\ req' = [req EXCEPT ![r].st = "clash"]
  /\ UNCHANGED <<vars, msgs, cur, clr, owed>>

(* The catch clause looks the winner up, for a caller who still has access.*)
SendResolve(r) ==
  /\ req[r].st = "clash" /\ req[r].a \in member
  /\ req' = [req EXCEPT ![r] = Resolved(@, Position(@.a, @.id))]
  /\ UNCHANGED <<vars, msgs, cur, clr, owed>>

(* Refused (access, permission, schema), or the database failed.           *)
SendFails(r) ==
  /\ req[r].st \in {"checked", "clash"}
  /\ req' = [req EXCEPT ![r].st = "failed"]
  /\ UNCHANGED <<vars, msgs, cur, clr, owed>>
-----------------------------------------------------------------------------
(* The cursors.  Each is a transaction that locks the membership row.      *)

(* Live messages of others in (from, to]: the ticks that change.           *)
Ticks(a, from, to) ==
  {n \in DOMAIN msgs : from < n /\ n <= to /\ msgs[n].a # a}

DeliveredRow(i, a) ==
  ev[i].type = "delivered" /\ ev[i].actor = a /\ ev[i].st = "pending"

(* Mutant: a pending row is taken to cover the new range as it is.         *)
EnqueueDeliveredKept(a, from, to, rows, i) ==
  IF Ticks(a, from, to) = {} \/ \E j \in Ids : DeliveredRow(j, a)
  THEN ev' = rows
  ELSE /\ Fresh(i)
       /\ ev' = [rows EXCEPT ![i] =
                   Inserted("delivered", a, to, from, "none")]

(* enqueueDeliveredEvent: nothing to tell, or every pending row of the     *)
(* member is extended in place, or a new row is inserted.                  *)
EnqueueDelivered(a, from, to, rows, i) ==
  IF Ticks(a, from, to) = {} THEN ev' = rows
  ELSE IF \E j \in Ids : DeliveredRow(j, a)
  THEN ev' = [j \in Ids |->
                IF DeliveredRow(j, a) THEN Extended(rows[j], to, from)
                ELSE rows[j]]
  ELSE /\ Fresh(i)
       /\ ev' = [rows EXCEPT ![i] =
                   Inserted("delivered", a, to, from, "none")]

(* advanceDeliveredWithin, called for an explicit receipt and after every  *)
(* fetch of messages.                                                      *)
AdvanceDelivered(a, s, i) ==
  LET target == IF s > Len(msgs) THEN Len(msgs) ELSE s
      next   == Largest(target, Largest(cur[a].dlv, cur[a].read)) IN
  /\ a \in member
  /\ next > cur[a].dlv
  /\ cur' = [cur EXCEPT ![a].dlv = next]
  /\ EnqueueDelivered(a, cur[a].dlv, next, ev, i)
  /\ owed' = [owed EXCEPT ![a] = @ \cup Ticks(a, cur[a].dlv, next)]
  /\ UNCHANGED <<member, dispatcherVars, faults, msgs, req, clr>>

(* advanceReadCursor: a READ row, and a DELIVERED one when reading moves   *)
(* the delivered cursor too.  A NULL cursor is written even at 0.          *)
AdvanceRead(a, s, i, k) ==
  LET target == IF s > Len(msgs) THEN Len(msgs) ELSE s
      next   == Largest(target, Largest(cur[a].read, 0))
      rows   == [ev EXCEPT ![i] = Inserted("read", a, next, 0, "none")]
      moved  == next > cur[a].dlv IN
  /\ a \in member
  /\ next > cur[a].read
  /\ Fresh(i)
  /\ cur' = [cur EXCEPT ![a].read = next, ![a].dlv = Largest(@, next)]
  /\ IF moved /\ Ticks(a, cur[a].dlv, next) # {}
        /\ ~\E j \in Ids : DeliveredRow(j, a)
     THEN k = i + 1 /\ k \in Ids
          /\ ev' = [rows EXCEPT ![k] =
               Inserted("delivered", a, next, cur[a].dlv, "none")]
     ELSE k = i
          /\ IF moved THEN EnqueueDelivered(a, cur[a].dlv, next, rows, i)
                      ELSE ev' = rows
  /\ owed' = [owed EXCEPT ![a] = @ \cup Ticks(a, cur[a].dlv, next)]
  /\ UNCHANGED <<member, dispatcherVars, faults, msgs, req, clr>>

(* clearConversation reads the maximum ...                                 *)
ClearRead(c, a) ==
  /\ clr[c].a = NoAccount /\ a \in member
  /\ clr' = [clr EXCEPT ![c] = [a |-> a, max |-> Len(msgs)]]
  /\ UNCHANGED <<vars, msgs, cur, req, owed>>

(* ... and writes it in a statement of its own, without an outbox row and  *)
(* whatever is there: of two calls the later one's mark may be the smaller.*)
ClearWrite(c) ==
  LET a == clr[c].a  n == clr[c].max IN
  /\ a # NoAccount /\ n # -1
  /\ cur' = [cur EXCEPT ![a].cleared = n, ![a].wiped = Largest(@, n),
                         ![a].read = Largest(@, n)]
  /\ clr' = [clr EXCEPT ![c].max = -1]
  /\ UNCHANGED <<vars, msgs, req, owed>>

(* leaveGroup, removeMember.                                               *)
Leave(a) ==
  /\ a \in member
  /\ member' = member \ {a}
  /\ UNCHANGED <<ev, dispatcherVars, faults, msgs, cur, req, clr, owed>>

(* addMembers inserts a new membership row.                                *)
Rejoin(a) ==
  /\ a \notin member
  /\ member' = member \cup {a}
  /\ cur' = [cur EXCEPT ![a] = NoCursor]
  /\ UNCHANGED <<ev, dispatcherVars, faults, msgs, req, clr, owed>>
-----------------------------------------------------------------------------
Send ==
  \E r \in Requests :
    \/ \E a \in Accounts, id \in ClientIds, text \in Contents :
         SendStart(r, a, id, text)
    \/ \E i \in Ids :
         SendCommit(r, i) \/ SendInDoubt(r, i)
    \/ SendClash(r) \/ SendResolve(r) \/ SendFails(r)

Receive ==
  \E a \in Accounts, s \in 0 .. MaxSeq, i \in Ids : AdvanceDelivered(a, s, i)

Cursor ==
  \/ \E a \in Accounts :
       \/ \E s \in 0 .. MaxSeq, i, k \in Ids : AdvanceRead(a, s, i, k)
       \/ \E c \in ClearCalls : ClearRead(c, a)
       \/ Leave(a) \/ Rejoin(a)
  \/ \E c \in ClearCalls : ClearWrite(c)

Dispatch == DispatcherNext /\ UNCHANGED <<msgs, cur, req, clr, owed>>

MembersNext == Send \/ Receive \/ Cursor
TicksNext   == Send \/ Receive \/ Dispatch
ChatNext == MembersNext \/ Dispatch

ChatSpec == ChatInit /\ [][ChatNext]_chatVars
-----------------------------------------------------------------------------
(* A key stores one message, announced by one row, whatever retries race;  *)
(* every accepted answer for the key names that message and its text.      *)
SendIdempotent ==
  /\ \A m, n \in DOMAIN msgs :
       msgs[m].a = msgs[n].a /\ msgs[m].id = msgs[n].id => m = n
  /\ \A n \in DOMAIN msgs : \E i \in Ids :
       \A j \in Ids :
         ev[j].st # "absent" /\ ev[j].type = "message" /\ ev[j].seq = n <=> j = i
  /\ \A r \in Requests : req[r].st = "ok" =>
       /\ req[r].seq = Position(req[r].a, req[r].id)
       /\ msgs[req[r].seq].text = req[r].text

(* "Read implies delivered" for the stored cursors, in every interleaving: *)
(* delivered lags read only by what the member cleared at some time.       *)
ReadImpliesDelivered ==
  \A a \in Accounts : cur[a].read <= Largest(cur[a].dlv, cur[a].wiped)

(* A delivered tick that a cursor move changed is told or about to be: by  *)
(* a row still to be worked off, by a dispatcher that has loaded it, or by *)
(* an emission that covered it; unless the row was given up or let pass.   *)
Covers(from, to, n) == from < n /\ n <= to

TicksCovered ==
  \A a \in Accounts : \A n \in owed[a] : \E i \in Ids :
    /\ ev[i].type = "delivered" /\ ev[i].actor = a
    /\ Covers(ev[i].start, ev[i].seq, n)
    /\ \/ ev[i].st \in {"pending", "processing", "dead", "deleted"}
       \/ i \in dropped
       \/ \E e \in emitted : e.id = i /\ Covers(e.start, e.seq, n)
       \/ \E p \in Procs :
            /\ copy[p][i].att # 0
            /\ Covers(copy[p][i].start, copy[p][i].seq, n)

(* No cursor of a membership retreats, however late a report arrives.      *)
CursorsAdvance ==
  [][\A a \in member \cap member' :
       cur'[a].read >= cur[a].read /\ cur'[a].dlv >= cur[a].dlv]_chatVars

(* The inductive invariants behind these.  Rows are inserted in order, and *)
(* what is announced and was asked of the group is of its messages ...     *)
OfItsMessages ==
  /\ \A i, j \in Ids : i < j /\ ev[i].st = "absent" => ev[j].st = "absent"
  /\ \A i \in Ids : ev[i].st # "absent" /\ ev[i].type = "message"
                    => ev[i].seq \in DOMAIN msgs
  /\ \A r \in Requests :
       /\ req[r].st # "new" => /\ req[r].a \in Accounts /\ req[r].id \in ClientIds
                               /\ req[r].text \in Contents
       /\ req[r].st \in {"clash", "ok"} => Position(req[r].a, req[r].id) # 0

(* ... what the process has claimed or loaded stays as it is ...           *)
RowsInHand ==
  \A p \in Procs :
    /\ claimed[p] # {} => step[p] = "load"
    /\ \A i \in claimed[p] : ev[i].st = "processing"
    /\ \A i \in Batch(p) :
         /\ ev[i].st \notin {"absent", "pending"}
         /\ copy[p][i].seq = ev[i].seq /\ copy[p][i].start = ev[i].start

(* ... a published range was told, to its ends ...                         *)
RangeTold(i, row) ==
  i \in dropped \/ [id |-> i, seq |-> row.seq, start |-> row.start] \in emitted

RangesTold ==
  /\ \A i \in Ids : ev[i].st = "published" => RangeTold(i, ev[i])
  /\ \A p \in Procs : \A i \in Ids :
       step[p] = "mark" /\ Current(p, i) => RangeTold(i, copy[p][i])

(* ... and a changed tick has a row.                                       *)
OwedHaveRows ==
  \A a \in Accounts : \A n \in owed[a] : \E i \in Ids :
    /\ ev[i].st # "absent" /\ ev[i].type = "delivered" /\ ev[i].actor = a
    /\ Covers(ev[i].start, ev[i].seq, n)

ChatInd ==
  /\ OutboxInv /\ ChatTypeOK
  /\ SendIdempotent /\ OfItsMessages /\ ReadImpliesDelivered

TicksInd == RowsInHand /\ RangesTold /\ OwedHaveRows

(* What a chat promises: a retry of a send makes no second message, what   *)
(* is read was delivered, every changed tick is told, and no cursor goes   *)
(* back; with the invariants the proofs of this rest on.                   *)
ChatPromise == [](ChatInd /\ TicksInd /\ TicksCovered) /\ CursorsAdvance
=============================================================================
