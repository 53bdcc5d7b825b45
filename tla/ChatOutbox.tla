----------------------------- MODULE ChatOutbox -----------------------------
(***************************************************************************)
(* The transactional outbox chat_outbox_events: rows are written by the    *)
(* transactions of the message and cursor services, and worked off by      *)
(*                                                                         *)
(*   ChatOutboxDispatcherService      claims rows, emits each to the       *)
(*     sockets, marks it published, or failed (retry or dead), cleans up;  *)
(*   ChatPushIntentDispatcherService  turns the push intent a message row  *)
(*     carries into rows of the push ledger, in one transaction.           *)
(*                                                                         *)
(* A row has two claims that do not know of each other: the outbox one,    *)
(* fenced by status = 'processing' alone, and the intent one, fenced by a  *)
(* claim token (a fresh UUID; here the row's number of intent claims).     *)
(* One SQL statement or transaction is one step.  Several processes may    *)
(* be active at once, see ChatPush.                                        *)
(***************************************************************************)
EXTENDS Integers, FiniteSets

CONSTANTS
  Procs,        \* server processes
  Accounts,     \* accounts that post, read and receive
  NoAccount,    \* actor of a row not yet inserted
  MaxEvents,    \* bound: outbox rows
  MaxAttempts,  \* attempts after which a failure is final (20 in the code)
  MaxClaims,    \* bound: claims of one push intent
  MaxFaults     \* bound: crashes, deactivations and failed statements

ASSUME ChatOutboxAssumption ==
  /\ NoAccount \notin Accounts
  /\ MaxEvents \in Nat /\ MaxClaims \in Nat /\ MaxFaults \in Nat
  /\ MaxAttempts \in Nat \ {0}

VARIABLES
  ev,       \* ev[i]: the i-th row by created_at
  member,   \* accounts with access to the group
  ready,    \* processes whose dispatchers run and whose realtime is active
  step,     \* step[p]: where p's dispatchOnce() is
  claimed,  \* claimed[p]: ids claim() got back, not yet loaded
  copy,     \* copy[p][i]: the entity p has loaded and not finished with
  istep,    \* istep[p]: where p's intent dispatchOnce() is
  icopy,    \* icopy[p][i]: token of the intent p has yet to work on, or 0
  emitted,  \* what was emitted to the sockets
  dropped,  \* rows a dispatcher let pass because the actor has no access
  made,     \* made[i]: times the pushes of row i were put in the ledger
  faults    \* faults so far

vars == <<ev, member, ready, step, claimed, copy, istep, icopy, emitted,
          dropped, made, faults>>

-----------------------------------------------------------------------------
Ids      == 1 .. MaxEvents
Types    == {"message", "read", "delivered"}
Statuses == {"absent", "pending", "processing", "published", "dead", "deleted"}
Intents  == {"none", "pending", "processing", "completed", "dead"}

(* ripe: available_at is past (pending), the 30 second lease is over       *)
(* (processing); iripe is the same for the intent.  iclaim is 0 for NULL.  *)
Row  == [type : Types, actor : Accounts \cup {NoAccount}, seq : Nat,
         start : Nat, st : Statuses, att : Nat, ripe : BOOLEAN,
         intent : Intents, iclaim : Nat, iatt : Nat, iripe : BOOLEAN]

(* What dispatchEvent() uses of a loaded entity; att is 0 for none.        *)
Copy   == [att : Nat, seq : Nat, start : Nat]
NoCopy == [att |-> 0, seq |-> 0, start |-> 0]
Told   == [id : Ids, seq : Nat, start : Nat]

Blank == [type |-> "message", actor |-> NoAccount, seq |-> 0, start |-> 0,
          st |-> "absent", att |-> 0, ripe |-> FALSE,
          intent |-> "none", iclaim |-> 0, iatt |-> 0, iripe |-> FALSE]

TypeOK ==
  /\ ev \in [Ids -> Row]
  /\ member \subseteq Accounts /\ ready \subseteq Procs
  /\ step \in [Procs -> {"idle", "load", "emit", "mark", "fail"}]
  /\ claimed \in [Procs -> SUBSET Ids]
  /\ copy \in [Procs -> [Ids -> Copy]]
  /\ istep \in [Procs -> {"idle", "work", "fail"}]
  /\ icopy \in [Procs -> [Ids -> Nat]]
  /\ emitted \subseteq Told
  /\ dropped \subseteq Ids
  /\ made \in [Ids -> Nat]
  /\ faults \in Nat

Init ==
  /\ ev = [i \in Ids |-> Blank]
  /\ member = Accounts /\ ready = Procs
  /\ step = [p \in Procs |-> "idle"]
  /\ claimed = [p \in Procs |-> {}]
  /\ copy = [p \in Procs |-> [i \in Ids |-> NoCopy]]
  /\ istep = [p \in Procs |-> "idle"]
  /\ icopy = [p \in Procs |-> [i \in Ids |-> 0]]
  /\ emitted = {} /\ dropped = {}
  /\ made = [i \in Ids |-> 0]
  /\ faults = 0

Fault == faults < MaxFaults /\ faults' = faults + 1

-----------------------------------------------------------------------------
(* Inserting a row, for the transactions of the producers.                 *)

(* The row the next insert makes.                                          *)
Fresh(i) == ev[i].st = "absent" /\ \A j \in Ids : j < i => ev[j].st # "absent"

Inserted(type, a, s, from, intent) ==
  [Blank EXCEPT !.type = type, !.actor = a, !.seq = s, !.start = from,
                !.st = "pending", !.ripe = TRUE,
                !.intent = intent, !.iripe = (intent = "pending")]

(* A producer's transaction commits; isChatPushIntentEnabled decides       *)
(* whether a message row carries an intent.                                *)
Insert(i, type, a, s, from, intent) ==
  /\ Fresh(i)
  /\ (intent # "none") => type = "message"
  /\ ev' = [ev EXCEPT ![i] = Inserted(type, a, s, from, intent)]

(* enqueueDeliveredEvent extends a pending row in place.                   *)
Extended(row, s, from) ==
  [row EXCEPT !.seq = IF @ > s THEN @ ELSE s,
              !.start = IF @ < from THEN @ ELSE from]
-----------------------------------------------------------------------------
(* ChatOutboxDispatcherService.dispatchOnce                                *)

Claimable(i) == ev[i].st \in {"pending", "processing"} /\ ev[i].ripe

(* claim(), first statement.  CLAIM_LIMIT (100) is above MaxEvents.        *)
Claim(p) ==
  LET got == {i \in Ids : Claimable(i)} IN
  /\ p \in ready /\ step[p] = "idle" /\ got # {}
  /\ ev' = [i \in Ids |->
              IF i \in got
              THEN [ev[i] EXCEPT !.st = "processing", !.att = @ + 1,
                                 !.ripe = FALSE]
              ELSE ev[i]]
  /\ claimed' = [claimed EXCEPT ![p] = got]
  /\ step' = [step EXCEPT ![p] = "load"]
  /\ UNCHANGED <<member, ready, copy, istep, icopy, emitted, dropped, made,
                 faults>>

(* claim(), second statement: the entities are loaded by id.               *)
Load(p) ==
  LET found == {i \in claimed[p] : ev[i].st # "deleted"} IN
  /\ step[p] = "load"
  /\ copy' = [copy EXCEPT ![p] = [i \in Ids |->
       IF i \in found
       THEN [att |-> ev[i].att, seq |-> ev[i].seq, start |-> ev[i].start]
       ELSE NoCopy]]
  /\ claimed' = [claimed EXCEPT ![p] = {}]
  /\ step' = [step EXCEPT ![p] = IF found = {} THEN "idle" ELSE "emit"]
  /\ UNCHANGED <<ev, member, ready, istep, icopy, emitted, dropped, made,
                 faults>>

(* It fails (or the claim's answer is lost): dispatchOnce() catches and    *)
(* ends; the rows stay 'processing' until their lease is over.             *)
LoadFails(p) ==
  /\ step[p] = "load"
  /\ Fault
  /\ claimed' = [claimed EXCEPT ![p] = {}]
  /\ step' = [step EXCEPT ![p] = "idle"]
  /\ UNCHANGED <<ev, member, ready, copy, istep, icopy, emitted, dropped, made>>

Batch(p) == {i \in Ids : copy[p][i].att # 0}

(* for (const event of events): in created_at order.                       *)
Current(p, i) == i \in Batch(p) /\ \A j \in Batch(p) : i <= j

Advance(p, i) ==
  /\ copy' = [copy EXCEPT ![p][i] = NoCopy]
  /\ step' = [step EXCEPT ![p] = IF Batch(p) = {i} THEN "idle" ELSE "emit"]

(* dispatchEvent() up to the publisher's emit, which needs an active       *)
(* runtime.  A cursor event also needs its actor to have access still.     *)
Emit(p, i) ==
  /\ step[p] = "emit" /\ Current(p, i) /\ p \in ready
  /\ ev[i].type # "message" => ev[i].actor \in member
  /\ emitted' = emitted \cup
       {[id |-> i, seq |-> copy[p][i].seq, start |-> copy[p][i].start]}
  /\ step' = [step EXCEPT ![p] = "mark"]
  /\ UNCHANGED <<ev, member, ready, claimed, copy, istep, icopy, dropped,
                 made, faults>>

(* requireGroupAccess throws: the cursor event is let pass unsent.  The    *)
(* code does not tell a refusal from a failing query.                      *)
Drop(p, i) ==
  /\ step[p] = "emit" /\ Current(p, i)
  /\ ev[i].type # "message"
  /\ \/ ev[i].actor \notin member /\ UNCHANGED faults
     \/ Fault
  /\ dropped' = dropped \cup {i}
  /\ step' = [step EXCEPT ![p] = "mark"]
  /\ UNCHANGED <<ev, member, ready, claimed, copy, istep, icopy, emitted, made>>

(* Anything before the emit throws, the inactive runtime included.         *)
EmitFails(p) ==
  /\ step[p] = "emit"
  /\ step' = [step EXCEPT ![p] = "fail"]
  /\ UNCHANGED <<ev, member, ready, claimed, copy, istep, icopy, emitted,
                 dropped, made, faults>>

Published(i) ==
  ev' = [ev EXCEPT ![i].st = IF @ = "processing" THEN "published" ELSE @]

(* Mutant: markPublished without requireReady and before the emit.         *)
MarkPublishedEarly(p, i) ==
  /\ step[p] \in {"emit", "mark"} /\ Current(p, i) /\ p \in ready
  /\ Published(i) /\ Advance(p, i)
  /\ UNCHANGED <<member, ready, claimed, istep, icopy, emitted, dropped, made,
                 faults>>

(* requireReady() and markPublished().                                     *)
MarkPublished(p, i) ==
  /\ step[p] = "mark" /\ Current(p, i) /\ p \in ready
  /\ Published(i) /\ Advance(p, i)
  /\ UNCHANGED <<member, ready, claimed, istep, icopy, emitted, dropped, made,
                 faults>>

(* requireReady() throws.                                                  *)
NotReady(p) ==
  /\ step[p] = "mark" /\ p \notin ready
  /\ step' = [step EXCEPT ![p] = "fail"]
  /\ UNCHANGED <<ev, member, ready, claimed, copy, istep, icopy, emitted,
                 dropped, made, faults>>

(* markPublished() throws, with or without its update done.                *)
MarkPublishedThrows(p, i) ==
  /\ step[p] = "mark" /\ Current(p, i) /\ p \in ready
  /\ Fault
  /\ Published(i) \/ UNCHANGED ev
  /\ step' = [step EXCEPT ![p] = "fail"]
  /\ UNCHANGED <<member, ready, claimed, copy, istep, icopy, emitted, dropped,
                 made>>

(* The update of markFailed(): dead after MAX_ATTEMPTS, else pending again.*)
FailedRow(p, i) ==
  ev' = [ev EXCEPT ![i] =
    IF @.st # "processing" THEN @
    ELSE [@ EXCEPT !.st = IF copy[p][i].att >= MaxAttempts
                          THEN "dead" ELSE "pending",
                   !.ripe = FALSE]]

(* Mutant: markFailed never gives up.                                      *)
MarkFailedRetry(p, i) ==
  /\ step[p] = "fail" /\ Current(p, i)
  /\ ev' = [ev EXCEPT ![i] =
       IF @.st # "processing" THEN @
       ELSE [@ EXCEPT !.st = "pending", !.ripe = FALSE,
                      !.att = IF @ >= MaxAttempts THEN 0 ELSE @]]
  /\ Advance(p, i)
  /\ UNCHANGED <<member, ready, claimed, istep, icopy, emitted, dropped, made,
                 faults>>

MarkFailed(p, i) ==
  /\ step[p] = "fail" /\ Current(p, i)
  /\ FailedRow(p, i)
  /\ Advance(p, i)
  /\ UNCHANGED <<member, ready, claimed, istep, icopy, emitted, dropped, made,
                 faults>>

(* markFailed() throws out of the loop: the rest of the batch is dropped   *)
(* and waits for its leases.                                               *)
MarkFailedThrows(p, i) ==
  /\ step[p] = "fail" /\ Current(p, i)
  /\ Fault
  /\ FailedRow(p, i) \/ UNCHANGED ev
  /\ copy' = [copy EXCEPT ![p] = [j \in Ids |-> NoCopy]]
  /\ step' = [step EXCEPT ![p] = "idle"]
  /\ UNCHANGED <<member, ready, claimed, istep, icopy, emitted, dropped, made>>

(* Mutant: cleanup does not look at the push intent.                       *)
CleanupBlind(p, i) ==
  /\ p \in ready
  /\ ev[i].st \in {"published", "dead"}
  /\ ev' = [ev EXCEPT ![i].st = "deleted"]
  /\ UNCHANGED <<member, ready, step, claimed, copy, istep, icopy, emitted,
                 dropped, made, faults>>

(* cleanupOnce(), after 24 hours (published) or 7 days (dead).             *)
Cleanup(p, i) ==
  /\ p \in ready
  /\ ev[i].st \in {"published", "dead"}
  /\ ev[i].intent \in {"none", "completed", "dead"}
  /\ ev' = [ev EXCEPT ![i].st = "deleted"]
  /\ UNCHANGED <<member, ready, step, claimed, copy, istep, icopy, emitted,
                 dropped, made, faults>>
-----------------------------------------------------------------------------
(* ChatPushIntentDispatcherService.dispatchOnce                            *)

(* Two slow processes can take a lapsed intent from each other for ever,   *)
(* without a failure that counts: MaxClaims bounds it.                     *)
IntentClaimable(i) ==
  /\ ev[i].iatt < MaxClaims
  /\ ev[i].st \notin {"absent", "deleted"}
  /\ ev[i].intent \in {"pending", "processing"} /\ ev[i].iripe

IntentClaim(p) ==
  LET got == {i \in Ids : IntentClaimable(i)} IN
  /\ p \in ready /\ istep[p] = "idle" /\ got # {}
  /\ ev' = [i \in Ids |->
              IF i \in got
              THEN [ev[i] EXCEPT !.intent = "processing", !.iatt = @ + 1,
                                 !.iclaim = ev[i].iatt + 1, !.iripe = FALSE]
              ELSE ev[i]]
  /\ icopy' = [icopy EXCEPT ![p] = [i \in Ids |->
                 IF i \in got THEN ev[i].iatt + 1 ELSE 0]]
  /\ istep' = [istep EXCEPT ![p] = "work"]
  /\ UNCHANGED <<member, ready, step, claimed, copy, emitted, dropped, made,
                 faults>>

ICurrent(p, i) == icopy[p][i] # 0 /\ \A j \in Ids : icopy[p][j] # 0 => i <= j

IAdvance(p, i) ==
  /\ icopy' = [icopy EXCEPT ![p][i] = 0]
  /\ istep' = [istep EXCEPT ![p] =
       IF \A j \in Ids \ {i} : icopy[p][j] = 0 THEN "idle" ELSE "work"]

(* WHERE push_intent_status = 'processing' AND push_intent_claim_token.    *)
IntentHeld(p, i) ==
  /\ ev[i].st \notin {"absent", "deleted"}
  /\ ev[i].intent = "processing" /\ ev[i].iclaim = icopy[p][i]

(* The transaction of materialize(): nothing, or every eligible device's   *)
(* delivery row and the completed intent.                                  *)
Materialized(p, i) ==
  IF IntentHeld(p, i)
  THEN /\ made' = [made EXCEPT ![i] = @ + 1]
       /\ ev' = [ev EXCEPT ![i].intent = "completed", ![i].iclaim = 0]
  ELSE UNCHANGED <<made, ev>>

Materialize(p, i) ==
  /\ istep[p] = "work" /\ ICurrent(p, i)
  /\ Materialized(p, i)
  /\ IAdvance(p, i)
  /\ UNCHANGED <<member, ready, step, claimed, copy, emitted, dropped, faults>>

(* The transaction throws and is rolled back.                              *)
MaterializeFails(p) ==
  /\ istep[p] = "work"
  /\ istep' = [istep EXCEPT ![p] = "fail"]
  /\ UNCHANGED <<ev, member, ready, step, claimed, copy, icopy, emitted,
                 dropped, made, faults>>

(* It commits, but the answer to COMMIT is lost.                           *)
MaterializeInDoubt(p, i) ==
  /\ istep[p] = "work" /\ ICurrent(p, i)
  /\ Fault
  /\ Materialized(p, i)
  /\ istep' = [istep EXCEPT ![p] = "fail"]
  /\ UNCHANGED <<member, ready, step, claimed, copy, icopy, emitted, dropped>>

(* Mutant: markFailed of the intent finds its row by id alone.             *)
IntentFailedRowUnfenced(p, i) ==
  ev' = [ev EXCEPT ![i].intent = IF icopy[p][i] >= MaxAttempts
                                 THEN "dead" ELSE "pending",
                   ![i].iclaim = 0, ![i].iripe = FALSE]

(* The update of markFailed().                                             *)
IntentFailedRow(p, i) ==
  ev' = [ev EXCEPT ![i] =
    IF ~IntentHeld(p, i) THEN @
    ELSE [@ EXCEPT !.intent = IF icopy[p][i] >= MaxAttempts
                              THEN "dead" ELSE "pending",
                   !.iclaim = 0, !.iripe = FALSE]]

IntentMarkFailed(p, i) ==
  /\ istep[p] = "fail" /\ ICurrent(p, i)
  /\ IntentFailedRow(p, i)
  /\ IAdvance(p, i)
  /\ UNCHANGED <<member, ready, step, claimed, copy, emitted, dropped, made,
                 faults>>

IntentMarkFailedThrows(p, i) ==
  /\ istep[p] = "fail" /\ ICurrent(p, i)
  /\ Fault
  /\ IntentFailedRow(p, i) \/ UNCHANGED ev
  /\ icopy' = [icopy EXCEPT ![p] = [j \in Ids |-> 0]]
  /\ istep' = [istep EXCEPT ![p] = "idle"]
  /\ UNCHANGED <<member, ready, step, claimed, copy, emitted, dropped, made>>
-----------------------------------------------------------------------------
(* The environment.                                                        *)

(* available_at comes, or a lease of 30 seconds runs out.                  *)
Ripen(i) ==
  /\ \/ /\ ev[i].st \in {"pending", "processing"} /\ ~ev[i].ripe
        /\ ev' = [ev EXCEPT ![i].ripe = TRUE]
     \/ /\ ev[i].intent \in {"pending", "processing"} /\ ~ev[i].iripe
        /\ ev' = [ev EXCEPT ![i].iripe = TRUE]
  /\ UNCHANGED <<member, ready, step, claimed, copy, istep, icopy, emitted,
                 dropped, made, faults>>

(* The health check lost the singleton lock: coordinator.deactivate().     *)
Deactivate(p) ==
  /\ p \in ready
  /\ Fault
  /\ ready' = ready \ {p}
  /\ UNCHANGED <<ev, member, step, claimed, copy, istep, icopy, emitted,
                 dropped, made>>

(* The process ends; a deactivated one always does (CHAT_FATAL_SHUTDOWN_MS)*)
(* and the next one of its name starts with empty memory.                  *)
Restart(p) ==
  /\ IF p \in ready THEN Fault ELSE UNCHANGED faults
  /\ ready' = ready \cup {p}
  /\ step' = [step EXCEPT ![p] = "idle"]
  /\ claimed' = [claimed EXCEPT ![p] = {}]
  /\ copy' = [copy EXCEPT ![p] = [i \in Ids |-> NoCopy]]
  /\ istep' = [istep EXCEPT ![p] = "idle"]
  /\ icopy' = [icopy EXCEPT ![p] = [i \in Ids |-> 0]]
  /\ UNCHANGED <<ev, member, emitted, dropped, made>>

DispatchStep(p) ==
  \/ Claim(p) \/ Load(p) \/ LoadFails(p) \/ EmitFails(p) \/ NotReady(p)
  \/ \E i \in Ids :
       \/ Emit(p, i) \/ Drop(p, i) \/ MarkPublished(p, i)
       \/ MarkPublishedThrows(p, i) \/ MarkFailed(p, i)
       \/ MarkFailedThrows(p, i) \/ Cleanup(p, i)

IntentStep(p) ==
  \/ IntentClaim(p) \/ MaterializeFails(p)
  \/ \E i \in Ids :
       \/ Materialize(p, i) \/ MaterializeInDoubt(p, i)
       \/ IntentMarkFailed(p, i) \/ IntentMarkFailedThrows(p, i)

DispatcherNext ==
  \/ \E p \in Procs : DispatchStep(p) \/ IntentStep(p) \/ Deactivate(p) \/ Restart(p)
  \/ \E i \in Ids : Ripen(i)

(* Any producer: ChatMessages composes the outbox with the real ones.      *)
Produce(i) ==
  /\ \E a \in Accounts, intent \in {"none", "pending"}, type \in Types :
       /\ intent = "none" \/ type = "message"
       /\ Insert(i, type, a, i, 0, intent)
  /\ UNCHANGED <<member, ready, step, claimed, copy, istep, icopy, emitted,
                 dropped, made, faults>>

MemberChanges(a) ==
  /\ member' = IF a \in member THEN member \ {a} ELSE member \cup {a}
  /\ UNCHANGED <<ev, ready, step, claimed, copy, istep, icopy, emitted,
                 dropped, made, faults>>

Next ==
  \/ DispatcherNext
  \/ \E i \in Ids : Produce(i)
  \/ \E a \in Accounts : MemberChanges(a)

Spec == Init /\ [][Next]_vars

(* Both dispatchers run on an interval and go on while they have work; the *)
(* clock advances; a deactivated process is ended and started again.       *)
Progress(p) ==
  \/ Claim(p) \/ Load(p) \/ EmitFails(p) \/ NotReady(p)
  \/ \E i \in Ids : Emit(p, i) \/ Drop(p, i) \/ MarkPublished(p, i) \/ MarkFailed(p, i)

IntentProgress(p) ==
  \/ IntentClaim(p) \/ MaterializeFails(p)
  \/ \E i \in Ids : Materialize(p, i) \/ IntentMarkFailed(p, i)

Fairness ==
  /\ \A p \in Procs : WF_vars(Progress(p)) /\ WF_vars(IntentProgress(p))
  /\ \A p \in Procs : WF_vars(p \notin ready /\ Restart(p))
  /\ \A i \in Ids : WF_vars(Ripen(i))

FairSpec == Spec /\ Fairness

-----------------------------------------------------------------------------
(* What the outbox promises, see EventDelivery.  A row is told once it was *)
(* emitted, or let pass for an actor without access.                       *)
TellDone == dropped \cup {e.id : e \in emitted}

AbsStatus(i) ==
  IF ev[i].st = "absent" THEN "none"
  ELSE IF ev[i].st \in {"pending", "processing"} THEN "open"
  ELSE IF ev[i].st = "published" THEN "done"
  ELSE IF ev[i].st = "dead" THEN "lost" ELSE "forgotten"

AbsPush(i) ==
  IF ev[i].intent \in {"pending", "processing"} THEN "owed"
  ELSE IF ev[i].intent = "completed" THEN "made"
  ELSE IF ev[i].intent = "dead" THEN "lost" ELSE "none"

Abstract == INSTANCE EventDelivery WITH
  Events <- Ids, status <- [i \in Ids |-> AbsStatus(i)], told <- TellDone,
  push <- [i \in Ids |-> AbsPush(i)]

(* The outbox implements at-least-once telling and exactly-once pushing.   *)
AtLeastOnce == Abstract!Spec

(* The inductive invariant behind it.  What a process has claimed or       *)
(* loaded is a row of the table ...                                        *)
HandlesRows ==
  /\ \A i \in Ids : ev[i].st = "absent" => ev[i] = Blank
  /\ \A p \in Procs : \A i \in claimed[p] : ev[i].st # "absent"
  /\ \A p \in Procs : \A i \in Batch(p) : ev[i].st # "absent"

(* ... no row is published, or about to be, that was not told ...          *)
ToldFirst ==
  /\ \A i \in Ids : ev[i].st = "published" => i \in TellDone
  /\ \A p \in Procs : \A i \in Ids :
       step[p] = "mark" /\ Current(p, i) => i \in TellDone

(* ... and an intent's token is newer than every token given before.       *)
TokensFresh ==
  \A p \in Procs : \A i \in Ids :
    /\ icopy[p][i] <= ev[i].iatt /\ ev[i].iclaim <= ev[i].iatt
    /\ \A q \in Procs : icopy[p][i] # 0 /\ icopy[p][i] = icopy[q][i] => p = q

OutboxInv == TypeOK /\ HandlesRows /\ ToldFirst /\ TokensFresh

(* Rows of the push ledger are made for an intent once, however often it   *)
(* is claimed, by however many processes, with commits whose answer is     *)
(* lost; and never for an intent that is reported dead.                    *)
PushesMadeOnce ==
  \A i \in Ids : made[i] = IF ev[i].intent = "completed" THEN 1 ELSE 0

(* Attempts of an event are bounded, so a poisoned event cannot be retried *)
(* for ever: every row is published or given up in the end, and so is its  *)
(* push intent.                                                            *)
Unsettled(i) ==
  ev[i].st \in {"pending", "processing"} \/ ev[i].intent \in {"pending", "processing"}
EveryEventSettles == \A i \in Ids : <>[]~Unsettled(i)
=============================================================================
