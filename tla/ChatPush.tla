------------------------------ MODULE ChatPush ------------------------------
(***************************************************************************)
(* Delivery of chat push notifications: the chat_push_deliveries ledger,   *)
(* ChatPushDispatcherService (claim, fence, send, record), the receipt     *)
(* poller ChatPushReceiptDispatcherService, and DevicesService, which      *)
(* rebinds a push token to another account while pushes are in flight.     *)
(*                                                                         *)
(* Several processes may run the dispatchers at once: a process that has   *)
(* lost the chat singleton lock notices only at its next health check.     *)
(* One SQL statement or one transaction is one step; between two steps     *)
(* of a dispatch anything else may happen, a crash included.  A claim      *)
(* token (a fresh UUID in the code) is the row's number of claims so far,  *)
(* so <<delivery, claim>> names one run of dispatch() or of a poll.        *)
(***************************************************************************)
EXTENDS Integers, FiniteSets, TLC

CONSTANTS
  Procs,        \* server processes
  Deliveries,   \* ledger rows
  Users,        \* accounts that may receive a push
  Rows,         \* user_devices rows
  DeviceIds,    \* device ids the apps report
  Tokens,       \* Expo push tokens; a token's fingerprint stands for it
  NoUser,       \* user_id of a row not yet inserted
  MaxAttempts,  \* attempts after which a retry becomes dead (20 in the code)
  MaxClaims,    \* bound: claims of one ledger row
  MaxPolls,     \* bound: receipt polls of one ticket younger than 24 hours
  MaxVersion,   \* bound: registration_version of a device row
  MaxFaults,    \* bound: crashes, failed statements and lost responses
  Rejections    \* whether a dispatch may reject and end its cycle early

ASSUME ChatPushAssumption ==
  /\ NoUser \notin Users
  /\ MaxAttempts \in Nat \ {0}
  /\ MaxClaims \in Nat /\ MaxPolls \in Nat /\ MaxFaults \in Nat
  /\ MaxVersion \in Nat \ {0}
  /\ Rejections \in BOOLEAN
  /\ IsFiniteSet(Procs)

(* Users, rows, devices and tokens are interchangeable.                    *)
BindingSymmetry ==
  Permutations(Users) \cup Permutations(Rows) \cup Permutations(DeviceIds)
  \cup Permutations(Tokens)

VARIABLES
  led,       \* led[d]: the ledger row of a delivery
  exp,       \* exp[d]: the device binding the row was created for
  rows,      \* user_devices
  member,    \* accounts eligible for pushes of the group
  pc,        \* pc[p][d][c]: where p is in the dispatch or poll of claim c
  known,     \* known[p][d]: the ticket p was given and has not persisted
  conflict,  \* processes whose acknowledgementConflict flag is up
  cycle,     \* cycle[p]: the claims p's current dispatchOnce() waits for
  ready,     \* processes whose chat runtime is active
  accepted,  \* accepted[d]: pushes the provider took for d
  ambiguous, \* ambiguous[d]: those whose acknowledgement was lost
  invalid,   \* device bindings <<row, version>> the provider refused
  faults     \* faults so far

vars == <<led, exp, rows, member, pc, known, conflict, cycle, ready,
          accepted, ambiguous, invalid, faults>>

-----------------------------------------------------------------------------
Claims   == 1 .. MaxClaims
Statuses == {"absent", "pending", "processing", "ticket_accepted",
             "delivered", "suppressed", "dead", "deleted"}
Terminal == {"delivered", "suppressed", "dead"}

(* Places of dispatch(): in those of Holding its session holds the token   *)
(* advisory lock.  The last two are places of the receipt poller.          *)
Holding == {"check", "eligible", "suppress", "confirm", "send",
            "persist", "retry", "kill", "killInvalid", "fail"}
Pushing == Holding \cup {"lock", "busy", "disable"}
Polling == {"poll", "pollDisable"}
Places  == Pushing \cup Polling \cup {"none"}

(* A ledger row.  claim is 0 and ticket is 0 for NULL; ripe says that the  *)
(* time the row waits for is past: available_at of a pending row, locked_at*)
(* plus 30 seconds of a processing one, receipt_available_at of an accepted*)
(* one; aged says that ticket_accepted_at is 24 hours ago.                 *)
Ledger  == [st : Statuses, claim : Nat, ticket : Nat, att : Nat, ratt : Nat,
            ripe : BOOLEAN, aged : BOOLEAN]
Binding == [user : Users \cup {NoUser}, row : Rows, dev : DeviceIds,
            tok : Tokens, ver : Nat]
Device  == [user : Users \cup {NoUser}, dev : DeviceIds, tok : Tokens,
            bound : BOOLEAN, ver : Nat, active : BOOLEAN]
Nothing == [claim |-> 0, ticket |-> 0]

TypeOK ==
  /\ led \in [Deliveries -> Ledger]
  /\ exp \in [Deliveries -> Binding]
  /\ rows \in [Rows -> Device]
  /\ member \subseteq Users
  /\ pc \in [Procs -> [Deliveries -> [Claims -> Places]]]
  /\ known \in [Procs -> [Deliveries -> [claim : Nat, ticket : Nat]]]
  /\ cycle \in [Procs -> SUBSET (Deliveries \X Claims)]
  /\ conflict \subseteq Procs /\ ready \subseteq Procs
  /\ accepted \in [Deliveries -> Nat]
  /\ ambiguous \in [Deliveries -> Nat]
  /\ invalid \subseteq Rows \X Nat
  /\ faults \in Nat

(* The columns of rows not inserted yet have any value: nothing reads them.*)
Init ==
  /\ led = [d \in Deliveries |->
              [st |-> "absent", claim |-> 0, ticket |-> 0, att |-> 0,
               ratt |-> 0, ripe |-> FALSE, aged |-> FALSE]]
  /\ \E r0 \in Rows, v0 \in DeviceIds, t0 \in Tokens :
       /\ exp = [d \in Deliveries |->
                   [user |-> NoUser, row |-> r0, dev |-> v0, tok |-> t0, ver |-> 0]]
       /\ rows = [r \in Rows |->
                   [user |-> NoUser, dev |-> v0, tok |-> t0, bound |-> FALSE,
                    ver |-> 0, active |-> FALSE]]
  /\ member = Users
  /\ pc = [p \in Procs |-> [d \in Deliveries |-> [c \in Claims |-> "none"]]]
  /\ known = [p \in Procs |-> [d \in Deliveries |-> Nothing]]
  /\ cycle = [p \in Procs |-> {}]
  /\ conflict = {} /\ ready = Procs
  /\ accepted = [d \in Deliveries |-> 0]
  /\ ambiguous = [d \in Deliveries |-> 0]
  /\ invalid = {}
  /\ faults = 0
-----------------------------------------------------------------------------
(* Helpers: one SQL condition or one piece of process memory each.         *)

(* Mutant: the claim token is not compared.                                *)
FencedByStatusOnly(d, c) == led[d].st = "processing" /\ led[d].ticket = 0

(* WHERE id AND status = 'processing' AND claim_token AND no ticket: the   *)
(* fence of every statement of a dispatch.                                 *)
Fenced(d, c) ==
  led[d].st = "processing" /\ led[d].claim = c /\ led[d].ticket = 0

(* The same fence of the receipt poller, for a row that has its ticket.    *)
PollFenced(d, c) ==
  led[d].st = "processing" /\ led[d].claim = c /\ led[d].ticket # 0

(* push:<fingerprint> is held by the session of some dispatch.             *)
TokenHeld(t) ==
  \E p \in Procs, d \in Deliveries, c \in Claims :
    pc[p][d][c] \in Holding /\ exp[d].tok = t

Dispatching(p) == \E j \in cycle[p] : pc[p][j[1]][j[2]] # "none"
PollBusy(p)    == \E d \in Deliveries, c \in Claims : pc[p][d][c] \in Polling

Goto(p, d, c, place) == pc' = [pc EXCEPT ![p][d][c] = place]

Fault == faults < MaxFaults /\ faults' = faults + 1

(* A row leaves the claimed state for status s.                            *)
Released(row, s) == [row EXCEPT !.st = s, !.claim = 0, !.ripe = FALSE]

(* { isActive: false, pushTokenFingerprint: null }.                        *)
SwitchedOff(row) == [row EXCEPT !.active = FALSE, !.bound = FALSE]

(* UPDATE ... LIMIT n: every candidate is claimed, unless there are more.  *)
Batch(cand, n) ==
  {S \in SUBSET cand : S # {} /\ (S = cand \/ Cardinality(S) = n)}

(* SET status = 'processing', locked_at = NOW(), claim_token = a fresh one.*)
Claimed(row) == [row EXCEPT !.st = "processing", !.claim = row.att + row.ratt + 1,
                            !.ripe = FALSE]

-----------------------------------------------------------------------------
(* ChatPushDispatcherService                                               *)

(* Mutant: a row whose claimant died is never taken over.                  *)
ClaimablePendingOnly ==
  {d \in Deliveries : /\ led[d].ticket = 0
                      /\ led[d].st = "pending" /\ led[d].ripe
                      /\ led[d].att + led[d].ratt < MaxClaims}

(* The candidates of claim().                                              *)
ClaimableNow ==
  {d \in Deliveries : /\ led[d].ticket = 0
                      /\ led[d].st \in {"pending", "processing"}
                      /\ led[d].ripe
                      /\ led[d].att + led[d].ratt < MaxClaims}

(* claim(): at most five rows.  Mutant of Claim: without the flush.        *)
ClaimUnflushed(p) ==
  /\ p \in ready
  /\ ~Dispatching(p)
  /\ \E S \in Batch(ClaimableNow, 5) :
       /\ led' = [d \in Deliveries |->
                    IF d \in S THEN [Claimed(led[d]) EXCEPT !.att = @ + 1]
                    ELSE led[d]]
       /\ pc' = [pc EXCEPT ![p] =
                   [d \in Deliveries |-> [c \in Claims |->
                      IF d \in S /\ c = led[d].att + led[d].ratt + 1
                      THEN "lock" ELSE pc[p][d][c]]]]
       /\ cycle' = [cycle EXCEPT ![p] =
                      {<<d, led[d].att + led[d].ratt + 1>> : d \in S}]
  /\ UNCHANGED <<exp, rows, member, known, conflict, ready, accepted,
                 ambiguous, invalid, faults>>

(* dispatchOnce: not while a cycle runs, and not while an acknowledgement  *)
(* is unpersisted or in conflict.                                          *)
Claim(p) ==
  /\ p \notin conflict
  /\ \A d \in Deliveries : known[p][d] = Nothing
  /\ ClaimUnflushed(p)

(* persistKnownAccepted: the fenced update, then, if it matched no row, a  *)
(* look at what the row holds.                                             *)
PersistKnown(p, d) ==
  LET k == known[p][d] IN
  \/ /\ Fenced(d, k.claim)
     /\ led' = [led EXCEPT ![d] = [Released(@, "ticket_accepted") EXCEPT
                                     !.ticket = k.ticket]]
     /\ known' = [known EXCEPT ![p][d] = Nothing]
     /\ UNCHANGED conflict
  \/ /\ ~Fenced(d, k.claim)
     /\ led[d].st # "deleted" /\ led[d].ticket = k.ticket
     /\ known' = [known EXCEPT ![p][d] = Nothing]
     /\ UNCHANGED <<led, conflict>>
  \/ /\ ~Fenced(d, k.claim)
     /\ led[d].st = "deleted" \/ led[d].ticket # k.ticket
     /\ conflict' = conflict \cup {p}
     /\ UNCHANGED <<led, known>>

(* The update throws: either it did nothing or its answer was lost.        *)
PersistThrows(p, d) ==
  /\ Fault
  /\ \/ UNCHANGED led
     \/ /\ Fenced(d, known[p][d].claim)
        /\ led' = [led EXCEPT ![d] = [Released(@, "ticket_accepted") EXCEPT
                                        !.ticket = known[p][d].ticket]]

(* flushKnownAccepted, at the start of a cycle.                            *)
Flush(p, d) ==
  /\ p \in ready /\ ~Dispatching(p) /\ p \notin conflict
  /\ known[p][d] # Nothing
  /\ PersistKnown(p, d)
  /\ UNCHANGED <<exp, rows, member, pc, cycle, ready, accepted, ambiguous,
                 invalid, faults>>

FlushThrows(p, d) ==
  /\ p \in ready /\ ~Dispatching(p) /\ p \notin conflict
  /\ known[p][d] # Nothing
  /\ PersistThrows(p, d)
  /\ UNCHANGED <<exp, rows, member, pc, known, conflict, cycle, ready,
                 accepted, ambiguous, invalid>>

-----------------------------------------------------------------------------
(* dispatch(), statement by statement.                                     *)

(* pg_try_advisory_lock: refused while another dispatch holds the token or *)
(* (second disjunct) while a registration's transaction holds it.          *)
TryTokenLock(p, d, c) ==
  /\ pc[p][d][c] = "lock"
  /\ \/ ~TokenHeld(exp[d].tok) /\ Goto(p, d, c, "check")
     \/ Goto(p, d, c, "busy")
  /\ UNCHANGED <<led, exp, rows, member, known, conflict, cycle, ready,
                 accepted, ambiguous, invalid, faults>>

(* isReady() and renewClaim(), before the eligibility query and again as   *)
(* the last statement before the provider call.                            *)
Renew(p, d, c) ==
  /\ pc[p][d][c] \in {"check", "confirm"}
  /\ IF p \in ready /\ Fenced(d, c)
     THEN /\ led' = [led EXCEPT ![d].ripe = FALSE]
          /\ Goto(p, d, c, IF pc[p][d][c] = "check" THEN "eligible" ELSE "send")
     ELSE Goto(p, d, c, "none") /\ UNCHANGED led
  /\ UNCHANGED <<exp, rows, member, known, conflict, cycle, ready,
                 accepted, ambiguous, invalid, faults>>

(* The row's device still is the binding the delivery was created for.     *)
BindingStands(d) ==
  LET e == exp[d]  r == rows[e.row] IN
    /\ r.active /\ r.bound
    /\ r.user = e.user /\ r.dev = e.dev /\ r.tok = e.tok /\ r.ver = e.ver

Eligible(d) == exp[d].user \in member /\ BindingStands(d)

(* requirePushDeliveryEligibility.                                         *)
CheckEligibility(p, d, c) ==
  /\ pc[p][d][c] = "eligible"
  /\ Goto(p, d, c, IF Eligible(d) THEN "confirm" ELSE "suppress")
  /\ UNCHANGED <<led, exp, rows, member, known, conflict, cycle, ready,
                 accepted, ambiguous, invalid, faults>>

MarkSuppressed(p, d, c) ==
  /\ pc[p][d][c] = "suppress"
  /\ led' = IF Fenced(d, c)
            THEN [led EXCEPT ![d] = Released(@, "suppressed")] ELSE led
  /\ Goto(p, d, c, "none")
  /\ UNCHANGED <<exp, rows, member, known, conflict, cycle, ready,
                 accepted, ambiguous, invalid, faults>>

(* The provider takes the push; the ticket enters knownAccepted.           *)
SendAccepted(p, d, c) ==
  /\ pc[p][d][c] = "send"
  /\ accepted' = [accepted EXCEPT ![d] = @ + 1]
  /\ known' = [known EXCEPT ![p][d] = [claim |-> c, ticket |-> accepted[d] + 1]]
  /\ Goto(p, d, c, "persist")
  /\ UNCHANGED <<led, exp, rows, member, conflict, cycle, ready, ambiguous,
                 invalid, faults>>

(* The provider takes the push and its response is lost (timeout, abort):  *)
(* EXPO_REQUEST_FAILED, which is retryable.                                *)
SendUnanswered(p, d, c) ==
  /\ pc[p][d][c] = "send"
  /\ Fault
  /\ accepted' = [accepted EXCEPT ![d] = @ + 1]
  /\ ambiguous' = [ambiguous EXCEPT ![d] = @ + 1]
  /\ Goto(p, d, c, "retry")
  /\ UNCHANGED <<led, exp, rows, member, known, conflict, cycle, ready, invalid>>

(* A retryable or a permanent refusal, the latter of the device or not.    *)
SendRefused(p, d, c) ==
  /\ pc[p][d][c] = "send"
  /\ \/ Goto(p, d, c, "retry") /\ UNCHANGED invalid
     \/ Goto(p, d, c, "kill") /\ UNCHANGED invalid
     \/ /\ Goto(p, d, c, "killInvalid")
        /\ invalid' = invalid \cup {<<exp[d].row, exp[d].ver>>}
  /\ UNCHANGED <<led, exp, rows, member, known, conflict, cycle, ready,
                 accepted, ambiguous, faults>>

Persist(p, d, c) ==
  /\ pc[p][d][c] = "persist"
  /\ IF p \in conflict \/ known[p][d] = Nothing
     THEN UNCHANGED <<led, known, conflict>>
     ELSE PersistKnown(p, d)
  /\ Goto(p, d, c, "none")
  /\ UNCHANGED <<exp, rows, member, cycle, ready, accepted, ambiguous,
                 invalid, faults>>

PersistFails(p, d, c) ==
  /\ pc[p][d][c] = "persist"
  /\ p \notin conflict /\ known[p][d] # Nothing
  /\ PersistThrows(p, d)
  /\ Goto(p, d, c, "none")
  /\ UNCHANGED <<exp, rows, member, known, conflict, cycle, ready,
                 accepted, ambiguous, invalid>>

(* markRetry; in the catch block (place "fail") it is skipped when the     *)
(* process holds an unpersisted acknowledgement of the row.                *)
MarkRetry(p, d, c) ==
  /\ pc[p][d][c] \in {"retry", "busy", "fail"}
  /\ led' = IF Fenced(d, c) /\ (pc[p][d][c] = "fail" => known[p][d] = Nothing)
            THEN [led EXCEPT ![d] =
                    Released(@, IF c >= MaxAttempts THEN "dead" ELSE "pending")]
            ELSE led
  /\ Goto(p, d, c, "none")
  /\ UNCHANGED <<exp, rows, member, known, conflict, cycle, ready,
                 accepted, ambiguous, invalid, faults>>

(* markDead after a permanent refusal; only the winner of the fence goes   *)
(* on to disable the device, after the token lock is given back.           *)
MarkDead(p, d, c) ==
  /\ pc[p][d][c] \in {"kill", "killInvalid"}
  /\ led' = IF Fenced(d, c) THEN [led EXCEPT ![d] = Released(@, "dead")] ELSE led
  /\ Goto(p, d, c, IF pc[p][d][c] = "killInvalid" /\ Fenced(d, c)
                   THEN "disable" ELSE "none")
  /\ UNCHANGED <<exp, rows, member, known, conflict, cycle, ready,
                 accepted, ambiguous, invalid, faults>>

(* Mutant: the row is switched off by its id alone.                        *)
DisabledByRow(d) == [rows EXCEPT ![exp[d].row] = SwitchedOff(@)]

(* disableInvalidDevice: compare-and-set on the whole binding.             *)
Disabled(d) ==
  IF BindingStands(d) THEN [rows EXCEPT ![exp[d].row] = SwitchedOff(@)] ELSE rows

DisableInvalidDevice(p, d, c) ==
  /\ pc[p][d][c] \in {"disable", "pollDisable"}
  /\ rows' = Disabled(d)
  /\ Goto(p, d, c, "none")
  /\ UNCHANGED <<led, exp, member, known, conflict, cycle, ready,
                 accepted, ambiguous, invalid, faults>>

(* A statement of dispatch() throws: with the lock held the catch block is *)
(* entered; before it is, as much; in the catch block the error is dropped.*)
StatementFails(p, d, c) ==
  /\ Fault
  /\ \/ /\ pc[p][d][c] \in {"check", "eligible", "suppress", "confirm",
                            "retry", "kill", "killInvalid"}
        /\ Goto(p, d, c, "fail")
     \/ pc[p][d][c] = "lock" /\ Goto(p, d, c, "busy")
     \/ pc[p][d][c] \in {"busy", "fail"} /\ Goto(p, d, c, "none")
  /\ UNCHANGED <<led, exp, rows, member, known, conflict, cycle, ready,
                 accepted, ambiguous, invalid>>

(* dispatch() rejects: no connection for it, or disableInvalidDevice fails.*)
(* Promise.all rejects with it and dispatchOnce drops its dispatching flag *)
(* while the batch's other dispatches still run.                           *)
Reject(p, d, c) ==
  /\ Rejections
  /\ Fault
  /\ pc[p][d][c] \in {"lock", "disable"}
  /\ Goto(p, d, c, "none")
  /\ cycle' = [cycle EXCEPT ![p] = IF <<d, c>> \in @ THEN {} ELSE @]
  /\ UNCHANGED <<led, exp, rows, member, known, conflict, ready,
                 accepted, ambiguous, invalid>>

DispatchStep(p, d, c) ==
  \/ TryTokenLock(p, d, c) \/ Renew(p, d, c) \/ CheckEligibility(p, d, c)
  \/ MarkSuppressed(p, d, c) \/ SendAccepted(p, d, c) \/ SendRefused(p, d, c)
  \/ Persist(p, d, c) \/ MarkRetry(p, d, c) \/ MarkDead(p, d, c)
  \/ DisableInvalidDevice(p, d, c)

DispatchFault(p, d, c) ==
  \/ SendUnanswered(p, d, c) \/ PersistFails(p, d, c)
  \/ StatementFails(p, d, c) \/ Reject(p, d, c)
-----------------------------------------------------------------------------
(* ChatPushReceiptDispatcherService                                        *)

(* The candidates of the receipt poller's claim().                         *)
Pollable ==
  {d \in Deliveries : /\ led[d].ticket # 0
                      /\ led[d].st \in {"ticket_accepted", "processing"}
                      /\ led[d].ripe
                      /\ led[d].ratt < MaxPolls \/ led[d].aged
                      /\ led[d].att + led[d].ratt < MaxClaims}

ClaimReceipts(p) ==
  /\ p \in ready
  /\ ~PollBusy(p)
  /\ \E S \in Batch(Pollable, 100) :
       /\ led' = [d \in Deliveries |->
                    IF d \in S THEN [Claimed(led[d]) EXCEPT !.ratt = @ + 1]
                    ELSE led[d]]
       /\ pc' = [pc EXCEPT ![p] =
                   [d \in Deliveries |-> [c \in Claims |->
                      IF d \in S /\ c = led[d].att + led[d].ratt + 1
                      THEN "poll" ELSE pc[p][d][c]]]]
  /\ UNCHANGED <<exp, rows, member, known, conflict, cycle, ready, accepted,
                 ambiguous, invalid, faults>>

ReceiptDelivered(p, d, c) ==
  /\ pc[p][d][c] = "poll"
  /\ led' = IF PollFenced(d, c)
            THEN [led EXCEPT ![d] = Released(@, "delivered")] ELSE led
  /\ Goto(p, d, c, "none")
  /\ UNCHANGED <<exp, rows, member, known, conflict, cycle, ready, accepted,
                 ambiguous, invalid, faults>>

(* A permanent error, DeviceNotRegistered (second case) among them.        *)
ReceiptRefused(p, d, c) ==
  /\ pc[p][d][c] = "poll"
  /\ led' = IF PollFenced(d, c)
            THEN [led EXCEPT ![d] = Released(@, "dead")] ELSE led
  /\ \/ Goto(p, d, c, "none") /\ UNCHANGED invalid
     \/ /\ Goto(p, d, c, IF PollFenced(d, c) THEN "pollDisable" ELSE "none")
        /\ invalid' = invalid \cup {<<exp[d].row, exp[d].ver>>}
  /\ UNCHANGED <<exp, rows, member, known, conflict, cycle, ready, accepted,
                 ambiguous, faults>>

(* reschedule: no receipt yet, or none to be had; a ticket of 24 hours is  *)
(* given up.                                                               *)
ReceiptPending(p, d, c) ==
  /\ pc[p][d][c] = "poll"
  /\ led' = IF PollFenced(d, c)
            THEN [led EXCEPT ![d] =
                    Released(@, IF led[d].aged THEN "dead" ELSE "ticket_accepted")]
            ELSE led
  /\ Goto(p, d, c, "none")
  /\ UNCHANGED <<exp, rows, member, known, conflict, cycle, ready, accepted,
                 ambiguous, invalid, faults>>

(* A statement throws: the rest of the poll is dropped.                    *)
PollFails(p) ==
  /\ PollBusy(p)
  /\ Fault
  /\ pc' = [pc EXCEPT ![p] =
              [d \in Deliveries |-> [c \in Claims |->
                 IF pc[p][d][c] \in Polling THEN "none" ELSE pc[p][d][c]]]]
  /\ UNCHANGED <<led, exp, rows, member, known, conflict, cycle, ready,
                 accepted, ambiguous, invalid>>

PollStep(p, d, c) ==
  ReceiptDelivered(p, d, c) \/ ReceiptRefused(p, d, c) \/ ReceiptPending(p, d, c)

(* cleanupOnce deletes rows settled 14 days ago.  An unpersisted ticket    *)
(* is retried every half second, so none is that old.                      *)
Cleanup(d) ==
  /\ ready # {}
  /\ led[d].st \in Terminal
  /\ \A p \in Procs : known[p][d] = Nothing
  /\ led' = [led EXCEPT ![d].st = "deleted"]
  /\ UNCHANGED <<exp, rows, member, pc, known, conflict, cycle, ready,
                 accepted, ambiguous, invalid, faults>>

-----------------------------------------------------------------------------
(* The intent dispatcher materialises a delivery for a device of an        *)
(* eligible member.                                                        *)
Materialize(d) ==
  /\ led[d].st = "absent"
  /\ \E r \in Rows :
       /\ rows[r].active /\ rows[r].bound /\ rows[r].user \in member
       /\ exp' = [exp EXCEPT ![d] = [user |-> rows[r].user, row |-> r,
                                     dev |-> rows[r].dev, tok |-> rows[r].tok,
                                     ver |-> rows[r].ver]]
  /\ led' = [led EXCEPT ![d].st = "pending", ![d].ripe = TRUE]
  /\ UNCHANGED <<rows, member, pc, known, conflict, cycle, ready, accepted,
                 ambiguous, invalid, faults>>

(* An account leaves the group, mutes it, or comes back.                   *)
MembershipChanges(u) ==
  /\ member' = IF u \in member THEN member \ {u} ELSE member \cup {u}
  /\ UNCHANGED <<led, exp, rows, pc, known, conflict, cycle, ready, accepted,
                 ambiguous, invalid, faults>>

-----------------------------------------------------------------------------
(* DevicesService.  A transaction commits as one step; the advisory locks  *)
(* it needs must be free of dispatchers.                                   *)

Exists(r) == rows[r].user # NoUser

(* Rows of that device id or with that token.                              *)
Candidates(dv, t) ==
  {r \in Rows : Exists(r) /\ (rows[r].dev = dv \/ rows[r].tok = t)}

(* The row of that device id, else any candidate (the last seen), else a   *)
(* new row.                                                                *)
Winners(dv, t) ==
  LET cand == Candidates(dv, t)
      same == {r \in cand : rows[r].dev = dv} IN
  IF same # {} THEN same
  ELSE IF cand # {} THEN cand
  ELSE {r \in Rows : ~Exists(r)}

TokensToLock(dv, t) ==
  {t} \cup {rows[r].tok : r \in {x \in Candidates(dv, t) : rows[x].bound}}

BindingChanged(w, u, dv, t) ==
  LET r == rows[w] IN
  r.user # u \/ r.dev # dv \/ r.tok # t \/ ~r.bound \/ ~r.active

(* The transaction's effect.  Mutant of Register: without the locks.       *)
RegisterUnlocked(u, dv, t) ==
  /\ \E w \in Winners(dv, t) :
       /\ rows[w].ver < MaxVersion
       /\ rows' = [r \in Rows |->
            IF r = w
            THEN [user |-> u, dev |-> dv, tok |-> t, bound |-> TRUE,
                  ver |-> IF BindingChanged(w, u, dv, t)
                          THEN rows[w].ver + 1 ELSE rows[w].ver,
                  active |-> TRUE]
            ELSE IF r \in Candidates(dv, t)
                 THEN SwitchedOff(rows[r])
                 ELSE rows[r]]
  /\ UNCHANGED <<led, exp, member, pc, known, conflict, cycle, ready,
                 accepted, ambiguous, invalid, faults>>

(* registerInTransaction: the advisory locks of the new token and of the   *)
(* tokens its candidates are bound to, then the rows.                      *)
Register(u, dv, t) ==
  /\ \A x \in TokensToLock(dv, t) : ~TokenHeld(x)
  /\ RegisterUnlocked(u, dv, t)

(* disableOwnedDevice, at logout.                                          *)
Unregister(u, dv) ==
  /\ \E r \in Rows :
       /\ rows[r].user = u /\ rows[r].dev = dv /\ rows[r].active
       /\ rows[r].bound => ~TokenHeld(rows[r].tok)
       /\ rows' = [rows EXCEPT ![r] = SwitchedOff(@)]
  /\ UNCHANGED <<led, exp, member, pc, known, conflict, cycle, ready,
                 accepted, ambiguous, invalid, faults>>

-----------------------------------------------------------------------------
(* Time and processes.                                                     *)

TimePasses(d) ==
  /\ led[d].st \in {"pending", "processing", "ticket_accepted"}
  /\ ~led[d].ripe
  /\ led' = [led EXCEPT ![d].ripe = TRUE]
  /\ UNCHANGED <<exp, rows, member, pc, known, conflict, cycle, ready,
                 accepted, ambiguous, invalid, faults>>

TicketAges(d) ==
  /\ led[d].ticket # 0 /\ ~led[d].aged
  /\ led[d].st \in {"ticket_accepted", "processing"}
  /\ led' = [led EXCEPT ![d].aged = TRUE]
  /\ UNCHANGED <<exp, rows, member, pc, known, conflict, cycle, ready,
                 accepted, ambiguous, invalid, faults>>

(* The chat runtime of p is deactivated; the process exits soon after.     *)
Deactivate(p) ==
  /\ p \in ready
  /\ Fault
  /\ ready' = ready \ {p}
  /\ UNCHANGED <<led, exp, rows, member, pc, known, conflict, cycle,
                 accepted, ambiguous, invalid>>

Unpersisted(p, d) ==
  known[p][d] # Nothing /\ known[p][d].ticket # led[d].ticket

(* p ends: its sessions and its memory go; a ticket only it knew of is     *)
(* lost.                                                                   *)
MemoryLost(p) ==
  /\ pc' = [pc EXCEPT ![p] = [d \in Deliveries |-> [c \in Claims |-> "none"]]]
  /\ known' = [known EXCEPT ![p] = [d \in Deliveries |-> Nothing]]
  /\ ambiguous' = [d \in Deliveries |->
                     IF Unpersisted(p, d) THEN ambiguous[d] + 1
                     ELSE ambiguous[d]]
  /\ conflict' = conflict \ {p}
  /\ cycle' = [cycle EXCEPT ![p] = {}]
  /\ UNCHANGED <<led, exp, rows, member, accepted, invalid>>

Crash(p) ==
  p \in ready /\ Fault /\ ready' = ready \ {p} /\ MemoryLost(p)

HasMemory(p) ==
  \/ p \in conflict \/ cycle[p] # {} \/ PollBusy(p)
  \/ \E d \in Deliveries : \/ known[p][d] # Nothing
                           \/ \E c \in Claims : pc[p][d][c] # "none"

Exit(p) ==
  p \notin ready /\ HasMemory(p) /\ MemoryLost(p) /\ UNCHANGED <<ready, faults>>

Restart(p) ==
  /\ p \notin ready /\ ~HasMemory(p)
  /\ ready' = ready \cup {p}
  /\ UNCHANGED <<led, exp, rows, member, pc, known, conflict, cycle,
                 accepted, ambiguous, invalid, faults>>

-----------------------------------------------------------------------------
ProcStep(p) ==
  \/ Claim(p) \/ ClaimReceipts(p) \/ PollFails(p)
  \/ Deactivate(p) \/ Crash(p) \/ Exit(p) \/ Restart(p)
  \/ \E d \in Deliveries : Flush(p, d) \/ FlushThrows(p, d)
  \/ \E d \in Deliveries, c \in Claims :
       DispatchStep(p, d, c) \/ DispatchFault(p, d, c) \/ PollStep(p, d, c)

RowStep(d) == Materialize(d) \/ TimePasses(d) \/ TicketAges(d) \/ Cleanup(d)

DeviceStep ==
  \/ \E u \in Users, dv \in DeviceIds, t \in Tokens : Register(u, dv, t)
  \/ \E u \in Users, dv \in DeviceIds : Unregister(u, dv)

Next ==
  \/ \E p \in Procs : ProcStep(p)
  \/ \E d \in Deliveries : RowStep(d)
  \/ DeviceStep
  \/ \E u \in Users : MembershipChanges(u)

Spec == Init /\ [][Next]_vars

(* The timers keep firing, statements and provider calls return, time      *)
(* passes, and the supervisor restarts a process that ended.               *)
Fairness ==
  /\ \A p \in Procs :
       /\ WF_vars(Claim(p)) /\ WF_vars(ClaimReceipts(p))
       /\ WF_vars(Exit(p)) /\ WF_vars(Restart(p))
       /\ \A d \in Deliveries :
            /\ WF_vars(Flush(p, d))
            /\ \A c \in Claims :
                 WF_vars(DispatchStep(p, d, c)) /\ WF_vars(PollStep(p, d, c))
  /\ \A d \in Deliveries : WF_vars(TimePasses(d)) /\ WF_vars(TicketAges(d))

FairSpec == Spec /\ Fairness

-----------------------------------------------------------------------------
(* Properties                                                              *)

(* A push goes to a token only while that token is not bound to somebody   *)
(* else's account: the token lock spans the binding check and the send.    *)
NoCrossAccountPush ==
  \A p \in Procs, d \in Deliveries, c \in Claims, r \in Rows :
    /\ pc[p][d][c] = "send"
    /\ rows[r].active /\ rows[r].bound /\ rows[r].tok = exp[d].tok
    => rows[r].user = exp[d].user

(* The parts of the inductive invariant behind NoCrossAccountPush: a token *)
(* has one live row, work exists only for rows of the ledger, and between  *)
(* the binding check and the end of the send the token stays with its      *)
(* account, because every rebinding takes the token lock.                  *)
Live(r) == rows[r].active /\ rows[r].bound

LiveRowsExist == \A r \in Rows : Live(r) => rows[r].user \in Users

OneOwner ==
  \A r1, r2 \in Rows : Live(r1) /\ Live(r2) /\ rows[r1].tok = rows[r2].tok
                       => r1 = r2

NoWorkBeforeRow ==
  \A p \in Procs, d \in Deliveries, c \in Claims :
    led[d].st = "absent" => pc[p][d][c] = "none"

CheckedBindingStays ==
  \A p \in Procs, d \in Deliveries, c \in Claims, r \in Rows :
    /\ pc[p][d][c] \in {"confirm", "send"}
    /\ Live(r) /\ rows[r].tok = exp[d].tok
    => rows[r].user = exp[d].user

BindInv ==
  LiveRowsExist /\ OneOwner /\ NoWorkBeforeRow /\ CheckedBindingStays

(* The parts of the inductive invariant behind the promises about sends.   *)
(* A row's claim is its last one or none; a claim has one dispatch and a   *)
(* token lock one holder; what a process knows was answered to a dispatch  *)
(* that is past its send, under a ticket no other process has; a dispatch  *)
(* at its send is younger than all that is known of the row.               *)
LastClaims ==
  \A d \in Deliveries :
    /\ led[d].claim \in {0, led[d].att + led[d].ratt}
    /\ \A p \in Procs :
         /\ known[p][d].claim <= led[d].att + led[d].ratt
         /\ \A c \in Claims :
              pc[p][d][c] # "none" => c <= led[d].att + led[d].ratt

OneClaimant ==
  \A p, q \in Procs, d \in Deliveries, c \in Claims :
    pc[p][d][c] # "none" /\ pc[q][d][c] # "none" => p = q

OneHolder ==
  \A p, q \in Procs, d, e \in Deliveries, c, k \in Claims :
    /\ pc[p][d][c] \in Holding /\ pc[q][e][k] \in Holding
    /\ exp[d].tok = exp[e].tok
    => p = q /\ d = e /\ c = k

KnownWasSent ==
  \A p \in Procs, d \in Deliveries :
    known[p][d] # Nothing =>
      /\ known[p][d].claim \in Claims
      /\ known[p][d].ticket \in 1 .. accepted[d]
      /\ \A q \in Procs : pc[q][d][known[p][d].claim] \in {"none", "persist"}

OwnTickets ==
  \A p, q \in Procs, d \in Deliveries :
    /\ known[p][d] # Nothing /\ known[q][d] # Nothing
    /\ known[p][d].ticket = known[q][d].ticket
    => p = q

SendIsYoungest ==
  \A p \in Procs, d \in Deliveries, c \in Claims :
    pc[p][d][c] = "send" => /\ led[d].ticket = 0
                            /\ \A q \in Procs : known[q][d].claim < c

SendInv ==
  /\ LastClaims /\ OneClaimant /\ OneHolder
  /\ KnownWasSent /\ OwnTickets /\ SendIsYoungest

(* And those behind the account of the pushes, where no cycle ends before  *)
(* its dispatches: a dispatch belongs to its process's cycle, a cycle has  *)
(* one claim of a row, and a process that is yet to send a row knows       *)
(* nothing of it.                                                          *)
WholeCycles == ~Rejections \/ \E d \in Deliveries : Deliveries = {d}

Unsent == {"lock", "check", "eligible", "confirm", "send"}

WorkInCycle ==
  \A p \in Procs, d \in Deliveries, c \in Claims :
    pc[p][d][c] \in Pushing => <<d, c>> \in cycle[p]

OneClaimInCycle ==
  \A p \in Procs, d \in Deliveries, c, k \in Claims :
    <<d, c>> \in cycle[p] /\ <<d, k>> \in cycle[p] => c = k

UnsentUnknown ==
  \A p \in Procs, d \in Deliveries, c \in Claims :
    pc[p][d][c] \in Unsent => known[p][d] = Nothing

CycleInv == WorkInCycle /\ OneClaimInCycle /\ UnsentUnknown

(* Once a ticket is recorded no dispatch of the row is at the provider     *)
(* call, whatever processes, leases and locks did: the second renewClaim   *)
(* and the token lock fence out a slow claimant.                           *)
NoSendAfterTicket ==
  \A p \in Procs, d \in Deliveries, c \in Claims :
    pc[p][d][c] = "send" => led[d].ticket = 0

(* Every push the provider took is recorded in the ledger, still known to  *)
(* the process that was told, or counted as lost: no acknowledgement is    *)
(* dropped silently ("Never evict a known provider acknowledgement").      *)
EveryPushAccountedFor ==
  \A d \in Deliveries :
    accepted[d] = Cardinality({p \in Procs : Unpersisted(p, d)})
                  + ambiguous[d] + (IF led[d].ticket = 0 THEN 0 ELSE 1)

(* With one process a push is repeated only after an answer was lost.      *)
AtMostOnce ==
  \A d \in Deliveries : accepted[d] <= 1 + ambiguous[d]

(* A recorded ticket is never replaced and never erased.                   *)
TicketStable ==
  [][\A d \in Deliveries : led[d].ticket # 0 => led'[d].ticket = led[d].ticket]_vars

(* No message is sent once its ticket is stored, every push the provider   *)
(* took is in the ledger, with the process that was told or known to be in *)
(* doubt, and a stored ticket is never lost or replaced (the fenced        *)
(* updates of chat-push-dispatcher.service.ts); with the invariants the    *)
(* proofs of this rest on.                                                 *)
PushesHold ==
  /\ [](TypeOK /\ NoSendAfterTicket /\ EveryPushAccountedFor /\ SendInv /\ CycleInv)
  /\ TicketStable

(* The dispatchers switch a device off only for a refusal of the very      *)
(* registration it has at that moment: a newer binding survives a late     *)
(* DeviceNotRegistered.                                                    *)
NewerBindingSurvives ==
  [][pc' # pc =>
       \A r \in Rows : rows[r].active /\ ~rows'[r].active
                       => <<r, rows[r].ver>> \in invalid]_vars

(* Every delivery is settled in the end: a pending one is handed to the    *)
(* provider or given up, an accepted one gets its receipt or is given up,  *)
(* and what is settled stays so.                                           *)
Unsettled(d) == led[d].st \notin Terminal \cup {"absent", "deleted"}
EveryDeliverySettles == \A d \in Deliveries : <>[]~Unsettled(d)
=============================================================================
