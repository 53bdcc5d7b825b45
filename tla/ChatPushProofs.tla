--------------------------- MODULE ChatPushProofs ---------------------------
(***************************************************************************)
(* Theorems about ChatPush, for every number of processes, deliveries,     *)
(* devices, claims and faults.                                             *)
(***************************************************************************)
EXTENDS ChatPush, FiniteSetTheorems, TLAPS

-----------------------------------------------------------------------------
(* A row that leaves the claimed state, and a row that enters it, are      *)
(* ledger rows.                                                            *)
LEMMA ReleasedType ==
  ASSUME NEW row \in Ledger, NEW s \in Statuses
  PROVE  Released(row, s) \in Ledger
BY DEF Released, Ledger

LEMMA ClaimedType ==
  ASSUME NEW row \in Ledger
  PROVE  /\ [Claimed(row) EXCEPT !.att = @ + 1] \in Ledger
         /\ [Claimed(row) EXCEPT !.ratt = @ + 1] \in Ledger
<1>1. row.att + row.ratt + 1 \in Nat
  BY DEF Ledger
<1>2. Claimed(row) \in Ledger
  BY <1>1 DEF Claimed, Ledger, Statuses
<1>3. Claimed(row).att + 1 \in Nat /\ Claimed(row).ratt + 1 \in Nat
  BY <1>2 DEF Ledger
<1> QED BY <1>2, <1>3 DEF Ledger

LEMMA SwitchedOffType ==
  ASSUME NEW row \in Device
  PROVE  SwitchedOff(row) \in Device
BY DEF SwitchedOff, Device

(* Moving one dispatch keeps pc well typed.                                *)
LEMMA GotoType ==
  ASSUME TypeOK, NEW p \in Procs, NEW d \in Deliveries, NEW c \in Claims,
         NEW place \in Places, Goto(p, d, c, place)
  PROVE  pc' \in [Procs -> [Deliveries -> [Claims -> Places]]]
BY DEF TypeOK, Goto

LEMMA PlacesHave ==
  /\ Holding \subseteq Places
  /\ {"none", "lock", "busy", "disable", "poll", "pollDisable"} \subseteq Places
BY DEF Places, Pushing, Polling, Holding

LEMMA PersistType ==
  ASSUME TypeOK, NEW p \in Procs, NEW d \in Deliveries, PersistKnown(p, d)
  PROVE  /\ led' \in [Deliveries -> Ledger]
         /\ known' \in [Procs -> [Deliveries -> [claim : Nat, ticket : Nat]]]
         /\ conflict' \subseteq Procs
<1>1. Nothing \in [claim : Nat, ticket : Nat]
  BY DEF Nothing
<1>2. led[d] \in Ledger /\ known[p][d] \in [claim : Nat, ticket : Nat]
  BY DEF TypeOK
<1>3. Released(led[d], "ticket_accepted") \in Ledger
  BY <1>2, ReleasedType DEF Statuses
<1>4. [Released(led[d], "ticket_accepted") EXCEPT !.ticket = known[p][d].ticket]
        \in Ledger
  BY <1>2, <1>3 DEF Ledger
<1>5. known \in [Procs -> [Deliveries -> [claim : Nat, ticket : Nat]]]
      /\ led \in [Deliveries -> Ledger] /\ conflict \subseteq Procs
  BY DEF TypeOK
<1>6. CASE /\ led' = [led EXCEPT ![d] = [Released(@, "ticket_accepted") EXCEPT
                                     !.ticket = known[p][d].ticket]]
           /\ known' = [known EXCEPT ![p][d] = Nothing]
           /\ UNCHANGED conflict
  BY <1>1, <1>4, <1>5, <1>6
<1>7. CASE known' = [known EXCEPT ![p][d] = Nothing] /\ UNCHANGED <<led, conflict>>
  BY <1>1, <1>5, <1>7
<1>8. CASE conflict' = conflict \cup {p} /\ UNCHANGED <<led, known>>
  BY <1>5, <1>8
<1> QED BY <1>6, <1>7, <1>8 DEF PersistKnown

LEMMA PersistThrowsType ==
  ASSUME TypeOK, NEW p \in Procs, NEW d \in Deliveries, PersistThrows(p, d)
  PROVE  led' \in [Deliveries -> Ledger] /\ faults' \in Nat
<1>2. led[d] \in Ledger /\ known[p][d] \in [claim : Nat, ticket : Nat]
  BY DEF TypeOK
<1>3. Released(led[d], "ticket_accepted") \in Ledger
  BY <1>2, ReleasedType DEF Statuses
<1>4. [Released(led[d], "ticket_accepted") EXCEPT !.ticket = known[p][d].ticket]
        \in Ledger
  BY <1>2, <1>3 DEF Ledger
<1>5. faults' \in Nat
  BY DEF PersistThrows, Fault, TypeOK
<1>6. CASE UNCHANGED led
  BY <1>5, <1>6 DEF TypeOK
<1>7. CASE led' = [led EXCEPT ![d] = [Released(@, "ticket_accepted") EXCEPT
                                        !.ticket = known[p][d].ticket]]
  BY <1>4, <1>5, <1>7 DEF TypeOK
<1> QED BY <1>6, <1>7 DEF PersistThrows

(* One dispatch step keeps the types: the record and function updates of   *)
(* each statement.                                                         *)
LEMMA DispatchType ==
  ASSUME TypeOK, NEW p \in Procs, NEW d \in Deliveries, NEW c \in Claims,
         DispatchStep(p, d, c)
  PROVE  TypeOK'
<1> USE PlacesHave
<1>0. led[d] \in Ledger /\ exp[d] \in Binding /\ exp[d].row \in Rows
  BY DEF TypeOK, Binding
<1>1. CASE TryTokenLock(p, d, c)
  <2>1. \E place \in Places : Goto(p, d, c, place)
    BY <1>1 DEF TryTokenLock, Holding
  <2> QED BY <1>1, <2>1, GotoType DEF TryTokenLock, TypeOK
<1>2. CASE Renew(p, d, c)
  <2>1. \E place \in Places : Goto(p, d, c, place)
    BY <1>2 DEF Renew, Holding
  <2>2. [led[d] EXCEPT !.ripe = FALSE] \in Ledger
    BY <1>0 DEF Ledger
  <2>3. led' \in [Deliveries -> Ledger]
    BY <1>2, <2>2 DEF Renew, TypeOK
  <2> QED BY <1>2, <2>1, <2>3, GotoType DEF Renew, TypeOK
<1>3. CASE CheckEligibility(p, d, c)
  <2>1. \E place \in Places : Goto(p, d, c, place)
    BY <1>3 DEF CheckEligibility, Holding
  <2> QED BY <1>3, <2>1, GotoType DEF CheckEligibility, TypeOK
<1>4. CASE MarkSuppressed(p, d, c)
  <2>1. Released(led[d], "suppressed") \in Ledger
    BY <1>0, ReleasedType DEF Statuses
  <2>2. led' \in [Deliveries -> Ledger]
    BY <1>4, <2>1 DEF MarkSuppressed, TypeOK
  <2> QED BY <1>4, <2>2, GotoType DEF MarkSuppressed, TypeOK
<1>5. CASE SendAccepted(p, d, c)
  <2>1. accepted[d] + 1 \in Nat /\ c \in Nat
    BY DEF TypeOK, Claims
  <2>2. /\ accepted' \in [Deliveries -> Nat]
        /\ known' \in [Procs -> [Deliveries -> [claim : Nat, ticket : Nat]]]
    BY <1>5, <2>1 DEF SendAccepted, TypeOK
  <2> QED BY <1>5, <2>2, GotoType DEF SendAccepted, TypeOK, Holding
<1>6. CASE SendRefused(p, d, c)
  <2>1. \E place \in Places : Goto(p, d, c, place)
    BY <1>6 DEF SendRefused, Holding
  <2>2. <<exp[d].row, exp[d].ver>> \in Rows \X Nat
    BY <1>0 DEF Binding
  <2>3. invalid' \subseteq Rows \X Nat
    BY <1>6, <2>2 DEF SendRefused, TypeOK
  <2> QED BY <1>6, <2>1, <2>3, GotoType DEF SendRefused, TypeOK
<1>7. CASE Persist(p, d, c)
  <2>1. /\ led' \in [Deliveries -> Ledger]
        /\ known' \in [Procs -> [Deliveries -> [claim : Nat, ticket : Nat]]]
        /\ conflict' \subseteq Procs
    <3>1. CASE p \in conflict \/ known[p][d] = Nothing
      BY <1>7, <3>1 DEF Persist, TypeOK
    <3>2. CASE ~(p \in conflict \/ known[p][d] = Nothing)
      BY <1>7, <3>2, PersistType DEF Persist
    <3> QED BY <3>1, <3>2
  <2> QED BY <1>7, <2>1, GotoType DEF Persist, TypeOK
<1>8. CASE MarkRetry(p, d, c)
  <2>1. Released(led[d], IF c >= MaxAttempts THEN "dead" ELSE "pending") \in Ledger
    BY <1>0, ReleasedType DEF Statuses
  <2>2. led' \in [Deliveries -> Ledger]
    BY <1>8, <2>1 DEF MarkRetry, TypeOK
  <2> QED BY <1>8, <2>2, GotoType DEF MarkRetry, TypeOK
<1>9. CASE MarkDead(p, d, c)
  <2>1. Released(led[d], "dead") \in Ledger
    BY <1>0, ReleasedType DEF Statuses
  <2>2. led' \in [Deliveries -> Ledger]
    BY <1>9, <2>1 DEF MarkDead, TypeOK
  <2>3. \E place \in Places : Goto(p, d, c, place)
    BY <1>9 DEF MarkDead
  <2> QED BY <1>9, <2>2, <2>3, GotoType DEF MarkDead, TypeOK
<1>10. CASE DisableInvalidDevice(p, d, c)
  <2>1. SwitchedOff(rows[exp[d].row]) \in Device
    BY <1>0, SwitchedOffType DEF TypeOK
  <2>2. rows' \in [Rows -> Device]
    BY <1>10, <1>0, <2>1 DEF DisableInvalidDevice, Disabled, TypeOK
  <2> QED BY <1>10, <2>2, GotoType DEF DisableInvalidDevice, TypeOK
<1> QED BY <1>1, <1>2, <1>3, <1>4, <1>5, <1>6, <1>7, <1>8, <1>9, <1>10
        DEF DispatchStep

LEMMA DispatchFaultType ==
  ASSUME TypeOK, NEW p \in Procs, NEW d \in Deliveries, NEW c \in Claims,
         DispatchFault(p, d, c)
  PROVE  TypeOK'
<1> USE PlacesHave
<1>1. CASE SendUnanswered(p, d, c)
  <2>1. /\ accepted' \in [Deliveries -> Nat] /\ ambiguous' \in [Deliveries -> Nat]
        /\ faults' \in Nat
    BY <1>1 DEF SendUnanswered, TypeOK, Fault
  <2> QED BY <1>1, <2>1, GotoType DEF SendUnanswered, TypeOK, Holding
<1>2. CASE PersistFails(p, d, c)
  BY <1>2, PersistThrowsType, GotoType DEF PersistFails, TypeOK
<1>3. CASE StatementFails(p, d, c)
  <2>1. \E place \in Places : Goto(p, d, c, place)
    BY <1>3 DEF StatementFails, Holding
  <2>2. faults' \in Nat
    BY <1>3 DEF StatementFails, Fault, TypeOK
  <2> QED BY <1>3, <2>1, <2>2, GotoType DEF StatementFails, TypeOK
<1>4. CASE Reject(p, d, c)
  <2>1. faults' \in Nat /\ cycle' \in [Procs -> SUBSET (Deliveries \X Claims)]
    BY <1>4 DEF Reject, Fault, TypeOK
  <2> QED BY <1>4, <2>1, GotoType DEF Reject, TypeOK
<1> QED BY <1>1, <1>2, <1>3, <1>4 DEF DispatchFault


(* The receipt poller.                                                     *)
LEMMA PollType ==
  ASSUME TypeOK, NEW p \in Procs, NEW d \in Deliveries, NEW c \in Claims,
         PollStep(p, d, c)
  PROVE  TypeOK'
<1> USE PlacesHave
<1>0. led[d] \in Ledger /\ exp[d] \in Binding
  BY DEF TypeOK
<1>1. /\ Released(led[d], "delivered") \in Ledger
      /\ Released(led[d], "dead") \in Ledger
      /\ Released(led[d], IF led[d].aged THEN "dead" ELSE "ticket_accepted") \in Ledger
  BY <1>0, ReleasedType DEF Statuses
<1>2. CASE ReceiptDelivered(p, d, c)
  <2>1. led' \in [Deliveries -> Ledger]
    BY <1>1, <1>2 DEF ReceiptDelivered, TypeOK
  <2> QED BY <1>2, <2>1, GotoType DEF ReceiptDelivered, TypeOK
<1>3. CASE ReceiptRefused(p, d, c)
  <2>1. led' \in [Deliveries -> Ledger]
    BY <1>1, <1>3 DEF ReceiptRefused, TypeOK
  <2>2. \E place \in Places : Goto(p, d, c, place)
    BY <1>3 DEF ReceiptRefused
  <2>3. <<exp[d].row, exp[d].ver>> \in Rows \X Nat
    BY <1>0 DEF Binding
  <2>4. invalid' \subseteq Rows \X Nat
    BY <1>3, <2>3 DEF ReceiptRefused, TypeOK
  <2> QED BY <1>3, <2>1, <2>2, <2>4, GotoType DEF ReceiptRefused, TypeOK
<1>4. CASE ReceiptPending(p, d, c)
  <2>1. led' \in [Deliveries -> Ledger]
    BY <1>1, <1>4 DEF ReceiptPending, TypeOK
  <2> QED BY <1>4, <2>1, GotoType DEF ReceiptPending, TypeOK
<1> QED BY <1>2, <1>3, <1>4 DEF PollStep

(* The two claims, and what ends, fails or restarts a process.             *)
LEMMA ProcType ==
  ASSUME TypeOK, NEW p \in Procs, ProcStep(p)
  PROVE  TypeOK'
<1> USE PlacesHave
<1>0. /\ \A d \in Deliveries : led[d] \in Ledger
      /\ pc \in [Procs -> [Deliveries -> [Claims -> Places]]]
  BY DEF TypeOK
<1>1. CASE Claim(p)
  <2>1. PICK S \in Batch(ClaimableNow, 5) :
          /\ led' = [d \in Deliveries |->
                       IF d \in S THEN [Claimed(led[d]) EXCEPT !.att = @ + 1]
                       ELSE led[d]]
          /\ pc' = [pc EXCEPT ![p] =
                      [d \in Deliveries |-> [c \in Claims |->
                         IF d \in S /\ c = led[d].att + led[d].ratt + 1
                         THEN "lock" ELSE pc[p][d][c]]]]
          /\ cycle' = [cycle EXCEPT ![p] =
                         {<<d, led[d].att + led[d].ratt + 1>> : d \in S}]
    BY <1>1 DEF Claim, ClaimUnflushed
  <2>2. S \subseteq ClaimableNow
    BY DEF Batch
  <2>3. led' \in [Deliveries -> Ledger]
    BY <1>0, <2>1, ClaimedType
  <2>4. pc' \in [Procs -> [Deliveries -> [Claims -> Places]]]
    BY <1>0, <2>1
  <2>5. \A d \in S : <<d, led[d].att + led[d].ratt + 1>> \in Deliveries \X Claims
    <3> TAKE d \in S
    <3>1. /\ d \in Deliveries /\ led[d].att \in Nat /\ led[d].ratt \in Nat
          /\ led[d].att + led[d].ratt < MaxClaims
      BY <1>0, <2>2 DEF ClaimableNow, Ledger
    <3> QED BY <3>1, ChatPushAssumption DEF Claims
  <2>6. cycle' \in [Procs -> SUBSET (Deliveries \X Claims)]
    BY <2>1, <2>5 DEF TypeOK
  <2> QED BY <1>1, <2>3, <2>4, <2>6 DEF Claim, ClaimUnflushed, TypeOK
<1>2. CASE ClaimReceipts(p)
  <2>1. led' \in [Deliveries -> Ledger]
    BY <1>0, <1>2, ClaimedType DEF ClaimReceipts
  <2>2. pc' \in [Procs -> [Deliveries -> [Claims -> Places]]]
    BY <1>0, <1>2 DEF ClaimReceipts
  <2> QED BY <1>2, <2>1, <2>2 DEF ClaimReceipts, TypeOK
<1>3. CASE PollFails(p)
  <2>1. pc' \in [Procs -> [Deliveries -> [Claims -> Places]]] /\ faults' \in Nat
    BY <1>0, <1>3 DEF PollFails, Fault, TypeOK
  <2> QED BY <1>3, <2>1 DEF PollFails, TypeOK
<1>4. CASE Deactivate(p)
  BY <1>4 DEF Deactivate, Fault, TypeOK
<1>5. ASSUME MemoryLost(p)
      PROVE  /\ pc' \in [Procs -> [Deliveries -> [Claims -> Places]]]
             /\ known' \in [Procs -> [Deliveries -> [claim : Nat, ticket : Nat]]]
             /\ ambiguous' \in [Deliveries -> Nat]
             /\ cycle' \in [Procs -> SUBSET (Deliveries \X Claims)]
  <2>1. Nothing \in [claim : Nat, ticket : Nat]
    BY DEF Nothing
  <2> QED BY <1>5, <2>1 DEF MemoryLost, TypeOK
<1>6. CASE Crash(p)
  BY <1>5, <1>6 DEF Crash, MemoryLost, Fault, TypeOK
<1>7. CASE Exit(p)
  BY <1>5, <1>7 DEF Exit, MemoryLost, TypeOK
<1>8. CASE Restart(p)
  BY <1>8 DEF Restart, TypeOK
<1>9. CASE \E d \in Deliveries : Flush(p, d)
  BY <1>9, PersistType DEF Flush, TypeOK
<1>10. CASE \E d \in Deliveries : FlushThrows(p, d)
  BY <1>10, PersistThrowsType DEF FlushThrows, TypeOK
<1>11. CASE \E d \in Deliveries, c \in Claims :
              DispatchStep(p, d, c) \/ DispatchFault(p, d, c) \/ PollStep(p, d, c)
  BY <1>11, DispatchType, DispatchFaultType, PollType
<1> QED BY <1>1, <1>2, <1>3, <1>4, <1>6, <1>7, <1>8, <1>9, <1>10, <1>11 DEF ProcStep


LEMMA RowType ==
  ASSUME TypeOK, NEW d \in Deliveries, RowStep(d)
  PROVE  TypeOK'
<1>0. led[d] \in Ledger
  BY DEF TypeOK
<1>1. CASE Materialize(d)
  <2>1. PICK r \in Rows :
          exp' = [exp EXCEPT ![d] = [user |-> rows[r].user, row |-> r,
                                     dev |-> rows[r].dev, tok |-> rows[r].tok,
                                     ver |-> rows[r].ver]]
    BY <1>1 DEF Materialize
  <2>2. [user |-> rows[r].user, row |-> r, dev |-> rows[r].dev,
         tok |-> rows[r].tok, ver |-> rows[r].ver] \in Binding
    BY DEF TypeOK, Device, Binding
  <2>3. exp' \in [Deliveries -> Binding]
    BY <2>1, <2>2 DEF TypeOK
  <2>4. [led[d] EXCEPT !.st = "pending", !.ripe = TRUE] \in Ledger
    BY <1>0 DEF Ledger, Statuses
  <2>5. led' \in [Deliveries -> Ledger]
    BY <1>1, <2>4 DEF Materialize, TypeOK
  <2> QED BY <1>1, <2>3, <2>5 DEF Materialize, TypeOK
<1>2. CASE TimePasses(d)
  <2>1. [led[d] EXCEPT !.ripe = TRUE] \in Ledger
    BY <1>0 DEF Ledger
  <2>2. led' \in [Deliveries -> Ledger]
    BY <1>2, <2>1 DEF TimePasses, TypeOK
  <2> QED BY <1>2, <2>2 DEF TimePasses, TypeOK
<1>3. CASE TicketAges(d)
  <2>1. [led[d] EXCEPT !.aged = TRUE] \in Ledger
    BY <1>0 DEF Ledger
  <2>2. led' \in [Deliveries -> Ledger]
    BY <1>3, <2>1 DEF TicketAges, TypeOK
  <2> QED BY <1>3, <2>2 DEF TicketAges, TypeOK
<1>4. CASE Cleanup(d)
  <2>1. [led[d] EXCEPT !.st = "deleted"] \in Ledger
    BY <1>0 DEF Ledger, Statuses
  <2>2. led' \in [Deliveries -> Ledger]
    BY <1>4, <2>1 DEF Cleanup, TypeOK
  <2> QED BY <1>4, <2>2 DEF Cleanup, TypeOK
<1> QED BY <1>1, <1>2, <1>3, <1>4 DEF RowStep

LEMMA DeviceType ==
  ASSUME TypeOK, DeviceStep
  PROVE  TypeOK'
<1>1. ASSUME NEW u \in Users, NEW dv \in DeviceIds, NEW t \in Tokens,
             Register(u, dv, t)
      PROVE  TypeOK'
  <2>1. PICK w \in Winners(dv, t) :
          rows' = [r \in Rows |->
            IF r = w
            THEN [user |-> u, dev |-> dv, tok |-> t, bound |-> TRUE,
                  ver |-> IF BindingChanged(w, u, dv, t)
                          THEN rows[w].ver + 1 ELSE rows[w].ver,
                  active |-> TRUE]
            ELSE IF r \in Candidates(dv, t)
                 THEN SwitchedOff(rows[r])
                 ELSE rows[r]]
    BY <1>1 DEF Register, RegisterUnlocked
  <2>2. w \in Rows
    BY DEF Winners, Candidates
  <2>3. \A r \in Rows : rows[r] \in Device /\ SwitchedOff(rows[r]) \in Device
    BY SwitchedOffType DEF TypeOK
  <2>4. (IF BindingChanged(w, u, dv, t) THEN rows[w].ver + 1 ELSE rows[w].ver) \in Nat
    BY <2>2, <2>3 DEF Device
  <2>5. [user |-> u, dev |-> dv, tok |-> t, bound |-> TRUE,
         ver |-> IF BindingChanged(w, u, dv, t)
                 THEN rows[w].ver + 1 ELSE rows[w].ver,
         active |-> TRUE] \in Device
    BY <1>1, <2>4 DEF Device
  <2>6. rows' \in [Rows -> Device]
    BY <2>1, <2>3, <2>5
  <2> QED BY <1>1, <2>6 DEF Register, RegisterUnlocked, TypeOK
<1>2. ASSUME NEW u \in Users, NEW dv \in DeviceIds, Unregister(u, dv)
      PROVE  TypeOK'
  <2>1. \A r \in Rows : SwitchedOff(rows[r]) \in Device
    BY SwitchedOffType DEF TypeOK
  <2>2. rows' \in [Rows -> Device]
    BY <1>2, <2>1 DEF Unregister, TypeOK
  <2> QED BY <1>2, <2>2 DEF Unregister, TypeOK
<1> QED BY <1>1, <1>2 DEF DeviceStep

LEMMA TypeStep ==
  ASSUME TypeOK, [Next]_vars
  PROVE  TypeOK'
<1>1. CASE \E p \in Procs : ProcStep(p)
  BY <1>1, ProcType
<1>2. CASE \E d \in Deliveries : RowStep(d)
  BY <1>2, RowType
<1>3. CASE DeviceStep
  BY <1>3, DeviceType
<1>4. CASE \E u \in Users : MembershipChanges(u)
  BY <1>4 DEF MembershipChanges, TypeOK
<1>5. CASE UNCHANGED vars
  BY <1>5 DEF vars, TypeOK
<1> QED BY <1>1, <1>2, <1>3, <1>4, <1>5 DEF Next

LEMMA TypeInit == Init => TypeOK
<1> SUFFICES ASSUME Init PROVE TypeOK
  OBVIOUS
<1>2. led \in [Deliveries -> Ledger]
  BY DEF Init, Ledger, Statuses
<1>3. exp \in [Deliveries -> Binding]
  BY DEF Init, Binding
<1>4. rows \in [Rows -> Device]
  BY DEF Init, Device
<1> QED BY <1>2, <1>3, <1>4 DEF Init, TypeOK, Nothing, Places

(* Type correctness of the ledger, the devices and the processes' memory.  *)
THEOREM TypeCorrect == Spec => []TypeOK
BY TypeInit, TypeStep, PTL DEF Spec


-----------------------------------------------------------------------------
(* NoCrossAccountPush.  First the steps that move one dispatch and leave   *)
(* the bindings alone.                                                     *)
LEMMA MoveBind ==
  ASSUME TypeOK, BindInv, NEW p \in Procs, NEW d \in Deliveries, NEW c \in Claims,
         NEW place \in Places, Goto(p, d, c, place), UNCHANGED <<rows, exp>>,
         pc[p][d][c] # "none",
         place \in {"confirm", "send"} => pc[p][d][c] = "confirm" \/ BindingStands(d),
         \A e \in Deliveries : led'[e].st = "absent" => led[e].st = "absent"
  PROVE  BindInv'
<1>1. \A q \in Procs, e \in Deliveries, k \in Claims :
        pc'[q][e][k] = IF q = p /\ e = d /\ k = c THEN place ELSE pc[q][e][k]
  BY DEF Goto, TypeOK
<1>2. OneOwner' /\ LiveRowsExist'
  BY DEF BindInv, OneOwner, LiveRowsExist, Live
<1>3. NoWorkBeforeRow'
  BY <1>1 DEF BindInv, NoWorkBeforeRow
<1>4. ASSUME BindingStands(d), NEW r \in Rows, Live(r), rows[r].tok = exp[d].tok
      PROVE  rows[r].user = exp[d].user
  <2>1. exp[d].row \in Rows
    BY DEF TypeOK, Binding
  <2>2. Live(exp[d].row) /\ rows[exp[d].row].tok = exp[d].tok
    BY <1>4 DEF BindingStands, Live
  <2>3. r = exp[d].row
    BY <1>4, <2>1, <2>2 DEF BindInv, OneOwner
  <2> QED BY <1>4, <2>3 DEF BindingStands
<1>5. CheckedBindingStays'
  BY <1>1, <1>4 DEF BindInv, CheckedBindingStays, Live
<1> QED BY <1>2, <1>3, <1>5 DEF BindInv

(* No row leaves the ledger's history: a written row never turns absent.   *)
LEMMA NotAbsentAgain ==
  ASSUME TypeOK, NEW d \in Deliveries, NEW s \in Statuses \ {"absent"},
         led' = [led EXCEPT ![d] = Released(@, s)] \/ led' = led
  PROVE  \A e \in Deliveries : led'[e].st = "absent" => led[e].st = "absent"
<1>1. led[d] \in Ledger
  BY DEF TypeOK
<1>2. Released(led[d], s).st = s
  BY <1>1 DEF Released, Ledger
<1> QED BY <1>2 DEF TypeOK

LEMMA PersistNotAbsent ==
  ASSUME TypeOK, NEW p \in Procs, NEW d \in Deliveries,
         PersistKnown(p, d) \/ PersistThrows(p, d)
  PROVE  \A e \in Deliveries : led'[e].st = "absent" => led[e].st = "absent"
<1>1. led[d] \in Ledger
  BY DEF TypeOK
<1>2. [Released(led[d], "ticket_accepted") EXCEPT !.ticket = known[p][d].ticket].st
        = "ticket_accepted"
  BY <1>1 DEF Released, Ledger
<1>3. CASE led' = led
  BY <1>3
<1>4. CASE led' = [led EXCEPT ![d] = [Released(@, "ticket_accepted") EXCEPT
                                        !.ticket = known[p][d].ticket]]
  BY <1>2, <1>4 DEF TypeOK
<1> QED BY <1>3, <1>4 DEF PersistKnown, PersistThrows

LEMMA DispatchBind ==
  ASSUME TypeOK, BindInv, NEW p \in Procs, NEW d \in Deliveries, NEW c \in Claims,
         DispatchStep(p, d, c) \/ DispatchFault(p, d, c) \/ PollStep(p, d, c)
  PROVE  BindInv'
<1> USE PlacesHave
<1>1. CASE TryTokenLock(p, d, c)
  <2>1. PICK place \in {"check", "busy"} : Goto(p, d, c, place)
    BY <1>1 DEF TryTokenLock
  <2> QED BY <1>1, <2>1, MoveBind DEF TryTokenLock, Holding
<1>2. CASE Renew(p, d, c)
  <2>1. \A e \in Deliveries : led'[e].st = "absent" => led[e].st = "absent"
    <3>1. [led[d] EXCEPT !.ripe = FALSE].st = led[d].st
      BY DEF TypeOK, Ledger
    <3> QED BY <1>2, <3>1 DEF Renew, TypeOK
  <2>2. PICK place \in {"eligible", "send", "none"} :
          Goto(p, d, c, place) /\ (place = "send" => pc[p][d][c] = "confirm")
    BY <1>2 DEF Renew
  <2> QED BY <1>2, <2>1, <2>2, MoveBind DEF Renew, Holding
<1>3. CASE CheckEligibility(p, d, c)
  <2>1. PICK place \in {"confirm", "suppress"} :
          Goto(p, d, c, place) /\ (place = "confirm" => BindingStands(d))
    BY <1>3 DEF CheckEligibility, Eligible
  <2> QED BY <1>3, <2>1, MoveBind DEF CheckEligibility, Holding
<1>4. CASE MarkSuppressed(p, d, c)
  <2>1. \A e \in Deliveries : led'[e].st = "absent" => led[e].st = "absent"
    BY <1>4, NotAbsentAgain DEF MarkSuppressed, Statuses
  <2> QED BY <1>4, <2>1, MoveBind DEF MarkSuppressed
<1>5. CASE SendAccepted(p, d, c)
  BY <1>5, MoveBind DEF SendAccepted, Holding
<1>6. CASE SendRefused(p, d, c)
  <2>1. PICK place \in {"retry", "kill", "killInvalid"} : Goto(p, d, c, place)
    BY <1>6 DEF SendRefused
  <2> QED BY <1>6, <2>1, MoveBind DEF SendRefused, Holding
<1>7. CASE Persist(p, d, c) \/ PersistFails(p, d, c)
  <2>1. \A e \in Deliveries : led'[e].st = "absent" => led[e].st = "absent"
    <3>1. CASE led' = led
      BY <3>1
    <3>2. CASE PersistKnown(p, d) \/ PersistThrows(p, d)
      BY <3>2, PersistNotAbsent
    <3> QED BY <1>7, <3>1, <3>2 DEF Persist, PersistFails
  <2> QED BY <1>7, <2>1, MoveBind DEF Persist, PersistFails
<1>8. CASE MarkRetry(p, d, c)
  <2>1. PICK s \in {"dead", "pending"} :
          led' = [led EXCEPT ![d] = Released(@, s)] \/ led' = led
    BY <1>8 DEF MarkRetry
  <2>2. \A e \in Deliveries : led'[e].st = "absent" => led[e].st = "absent"
    BY <2>1, NotAbsentAgain DEF Statuses
  <2> QED BY <1>8, <2>2, MoveBind DEF MarkRetry
<1>9. CASE MarkDead(p, d, c)
  <2>1. \A e \in Deliveries : led'[e].st = "absent" => led[e].st = "absent"
    BY <1>9, NotAbsentAgain DEF MarkDead, Statuses
  <2>2. PICK place \in {"disable", "none"} : Goto(p, d, c, place)
    BY <1>9 DEF MarkDead
  <2> QED BY <1>9, <2>1, <2>2, MoveBind DEF MarkDead
<1>10. CASE DisableInvalidDevice(p, d, c)
  <2>1. \A r \in Rows : /\ Live(r)' => Live(r)
                        /\ rows'[r].tok = rows[r].tok /\ rows'[r].user = rows[r].user
    BY <1>10 DEF DisableInvalidDevice, Disabled, SwitchedOff, Live, TypeOK, Device
  <2>2. \A q \in Procs, e \in Deliveries, k \in Claims :
          pc'[q][e][k] # "none" => pc'[q][e][k] = pc[q][e][k]
    BY <1>10 DEF DisableInvalidDevice, Goto, TypeOK
  <2>3. UNCHANGED <<led, exp>>
    BY <1>10 DEF DisableInvalidDevice
  <2>4. OneOwner' /\ LiveRowsExist'
    BY <2>1 DEF BindInv, OneOwner, LiveRowsExist
  <2>5. NoWorkBeforeRow'
    BY <2>2, <2>3 DEF BindInv, NoWorkBeforeRow
  <2>6. CheckedBindingStays'
    BY <2>1, <2>2, <2>3 DEF BindInv, CheckedBindingStays
  <2> QED BY <2>4, <2>5, <2>6 DEF BindInv
<1>11. CASE SendUnanswered(p, d, c)
  BY <1>11, MoveBind DEF SendUnanswered, Holding
<1>12. CASE StatementFails(p, d, c)
  <2>1. PICK place \in {"fail", "busy", "none"} :
          Goto(p, d, c, place) /\ pc[p][d][c] # "none"
    BY <1>12 DEF StatementFails
  <2> QED BY <1>12, <2>1, MoveBind DEF StatementFails, Holding
<1>13. CASE Reject(p, d, c)
  BY <1>13, MoveBind DEF Reject
<1>14. CASE PollStep(p, d, c)
  <2>1. PICK s \in {"delivered", "dead", "ticket_accepted"} :
          led' = [led EXCEPT ![d] = Released(@, s)] \/ led' = led
    BY <1>14 DEF PollStep, ReceiptDelivered, ReceiptRefused, ReceiptPending
  <2>2. \A e \in Deliveries : led'[e].st = "absent" => led[e].st = "absent"
    BY <2>1, NotAbsentAgain DEF Statuses
  <2>3. PICK place \in {"pollDisable", "none"} :
          Goto(p, d, c, place) /\ pc[p][d][c] # "none"
    BY <1>14 DEF PollStep, ReceiptDelivered, ReceiptRefused, ReceiptPending
  <2> QED BY <1>14, <2>2, <2>3, MoveBind
          DEF PollStep, ReceiptDelivered, ReceiptRefused, ReceiptPending
<1> QED BY <1>1, <1>2, <1>3, <1>4, <1>5, <1>6, <1>7, <1>8, <1>9, <1>10, <1>11,
           <1>12, <1>13, <1>14 DEF DispatchStep, DispatchFault


(* Steps of a process that touch no binding: only claims start work, and   *)
(* only on rows that exist.                                                *)
LEMMA ProcBind ==
  ASSUME TypeOK, BindInv, NEW p \in Procs, ProcStep(p)
  PROVE  BindInv'
<1>0. ASSUME UNCHANGED <<rows, exp>>,
             \A q \in Procs, e \in Deliveries, k \in Claims :
               /\ pc'[q][e][k] \in {"confirm", "send"} => pc[q][e][k] = pc'[q][e][k]
               /\ pc'[q][e][k] # "none" /\ pc[q][e][k] = "none"
                    => led'[e].st = "processing",
             \A e \in Deliveries : led'[e].st = "absent" => led[e].st = "absent"
      PROVE  BindInv'
  <2>1. LiveRowsExist' /\ OneOwner' /\ CheckedBindingStays'
    BY <1>0 DEF BindInv, LiveRowsExist, OneOwner, CheckedBindingStays, Live
  <2>2. NoWorkBeforeRow'
    BY <1>0 DEF BindInv, NoWorkBeforeRow
  <2> QED BY <2>1, <2>2 DEF BindInv
<1>1. ASSUME NEW S \in SUBSET Deliveries, NEW place \in {"lock", "poll"},
             led' = [d \in Deliveries |->
                       IF d \in S THEN [Claimed(led[d]) EXCEPT !.att = @ + 1]
                       ELSE led[d]]
             \/ led' = [d \in Deliveries |->
                       IF d \in S THEN [Claimed(led[d]) EXCEPT !.ratt = @ + 1]
                       ELSE led[d]],
             pc' = [pc EXCEPT ![p] =
                      [d \in Deliveries |-> [c \in Claims |->
                         IF d \in S /\ c = led[d].att + led[d].ratt + 1
                         THEN place ELSE pc[p][d][c]]]],
             UNCHANGED <<rows, exp>>
      PROVE  BindInv'
  <2>1. \A d \in Deliveries : led[d] \in Ledger
    BY DEF TypeOK
  <2>2. \A d \in Deliveries :
          /\ [Claimed(led[d]) EXCEPT !.att = @ + 1].st = "processing"
          /\ [Claimed(led[d]) EXCEPT !.ratt = @ + 1].st = "processing"
    BY <2>1 DEF Claimed, Ledger
  <2>3. \A d \in Deliveries : led'[d].st = IF d \in S THEN "processing" ELSE led[d].st
    BY <1>1, <2>2
  <2>4. \A q \in Procs, e \in Deliveries, k \in Claims :
          pc'[q][e][k] = IF q = p /\ e \in S /\ k = led[e].att + led[e].ratt + 1
                         THEN place ELSE pc[q][e][k]
    BY <1>1 DEF TypeOK
  <2> QED BY <1>0, <1>1, <2>3, <2>4
<1>2. CASE Claim(p)
  <2>1. PICK S \in Batch(ClaimableNow, 5) :
          /\ led' = [d \in Deliveries |->
                       IF d \in S THEN [Claimed(led[d]) EXCEPT !.att = @ + 1]
                       ELSE led[d]]
          /\ pc' = [pc EXCEPT ![p] =
                      [d \in Deliveries |-> [c \in Claims |->
                         IF d \in S /\ c = led[d].att + led[d].ratt + 1
                         THEN "lock" ELSE pc[p][d][c]]]]
    BY <1>2 DEF Claim, ClaimUnflushed
  <2>2. S \in SUBSET Deliveries
    BY DEF Batch, ClaimableNow
  <2>3. UNCHANGED <<rows, exp>>
    BY <1>2 DEF Claim, ClaimUnflushed
  <2> QED BY <1>1, <2>1, <2>2, <2>3
<1>3. CASE ClaimReceipts(p)
  <2>1. PICK S \in Batch(Pollable, 100) :
          /\ led' = [d \in Deliveries |->
                       IF d \in S THEN [Claimed(led[d]) EXCEPT !.ratt = @ + 1]
                       ELSE led[d]]
          /\ pc' = [pc EXCEPT ![p] =
                      [d \in Deliveries |-> [c \in Claims |->
                         IF d \in S /\ c = led[d].att + led[d].ratt + 1
                         THEN "poll" ELSE pc[p][d][c]]]]
    BY <1>3 DEF ClaimReceipts
  <2>2. S \in SUBSET Deliveries
    BY DEF Batch, Pollable
  <2>3. UNCHANGED <<rows, exp>>
    BY <1>3 DEF ClaimReceipts
  <2> QED BY <1>1, <2>1, <2>2, <2>3
<1>4. CASE PollFails(p)
  <2>1. \A q \in Procs, e \in Deliveries, k \in Claims :
          pc'[q][e][k] = "none" \/ pc'[q][e][k] = pc[q][e][k]
    BY <1>4 DEF PollFails, TypeOK
  <2> QED BY <1>0, <1>4, <2>1 DEF PollFails
<1>5. CASE Deactivate(p) \/ Restart(p)
  BY <1>0, <1>5 DEF Deactivate, Restart
<1>6. CASE Crash(p) \/ Exit(p)
  <2>1. \A q \in Procs, e \in Deliveries, k \in Claims :
          pc'[q][e][k] = "none" \/ pc'[q][e][k] = pc[q][e][k]
    <3>1. pc' = [pc EXCEPT ![p] =
                   [d \in Deliveries |-> [c \in Claims |-> "none"]]]
      BY <1>6 DEF Crash, Exit, MemoryLost
    <3> QED BY <3>1 DEF TypeOK
  <2> QED BY <1>0, <1>6, <2>1 DEF Crash, Exit, MemoryLost
<1>7. CASE \E d \in Deliveries : Flush(p, d) \/ FlushThrows(p, d)
  <2>1. PICK d \in Deliveries : Flush(p, d) \/ FlushThrows(p, d)
    BY <1>7
  <2>2. \A e \in Deliveries : led'[e].st = "absent" => led[e].st = "absent"
    BY <2>1, PersistNotAbsent DEF Flush, FlushThrows
  <2> QED BY <1>0, <2>1, <2>2 DEF Flush, FlushThrows
<1>8. CASE \E d \in Deliveries, c \in Claims :
              DispatchStep(p, d, c) \/ DispatchFault(p, d, c) \/ PollStep(p, d, c)
  BY <1>8, DispatchBind
<1> QED BY <1>2, <1>3, <1>4, <1>5, <1>6, <1>7, <1>8 DEF ProcStep

(* Registration and logout: whatever token they rebind is locked, so no    *)
(* dispatch between its check and its send has that token.                 *)
LEMMA DeviceBind ==
  ASSUME TypeOK, BindInv, DeviceStep
  PROVE  BindInv'
<1>1. ASSUME NEW u \in Users, NEW dv \in DeviceIds, NEW t \in Tokens,
             Register(u, dv, t)
      PROVE  BindInv'
  <2>1. PICK w \in Winners(dv, t) :
          rows' = [r \in Rows |->
            IF r = w
            THEN [user |-> u, dev |-> dv, tok |-> t, bound |-> TRUE,
                  ver |-> IF BindingChanged(w, u, dv, t)
                          THEN rows[w].ver + 1 ELSE rows[w].ver,
                  active |-> TRUE]
            ELSE IF r \in Candidates(dv, t)
                 THEN SwitchedOff(rows[r])
                 ELSE rows[r]]
    BY <1>1 DEF Register, RegisterUnlocked
  <2>2. w \in Rows
    BY DEF Winners, Candidates
  <2>3. UNCHANGED <<led, exp, pc>>
    BY <1>1 DEF Register, RegisterUnlocked
  <2>4. \A r \in Rows : r \in Candidates(dv, t) => ~SwitchedOff(rows[r]).active
    BY DEF SwitchedOff, TypeOK, Device
  <2>5. \A r \in Rows \ {w} :
          Live(r)' => /\ r \notin Candidates(dv, t)
                      /\ rows'[r] = rows[r] /\ Live(r)
    BY <2>1, <2>4 DEF Live
  <2>6. \A r \in Rows \ {w} : Live(r)' => rows'[r].tok # t
    BY <2>5, ChatPushAssumption DEF Candidates, Exists, BindInv, LiveRowsExist
  <2>7. rows'[w].tok = t /\ rows'[w].user = u
    BY <2>1, <2>2
  <2>8. LiveRowsExist'
    BY <2>5, <2>7 DEF BindInv, LiveRowsExist
  <2>9. OneOwner'
    BY <2>2, <2>5, <2>6, <2>7 DEF BindInv, OneOwner
  <2>10. NoWorkBeforeRow'
    BY <2>3 DEF BindInv, NoWorkBeforeRow
  <2>11. ASSUME NEW p \in Procs, NEW d \in Deliveries, NEW c \in Claims,
                pc[p][d][c] \in {"confirm", "send"}
         PROVE  exp[d].tok # t
    BY <1>1, <2>11 DEF Register, TokensToLock, TokenHeld, Holding
  <2>12. CheckedBindingStays'
    BY <2>3, <2>5, <2>7, <2>11 DEF BindInv, CheckedBindingStays
  <2> QED BY <2>8, <2>9, <2>10, <2>12 DEF BindInv
<1>2. ASSUME NEW u \in Users, NEW dv \in DeviceIds, Unregister(u, dv)
      PROVE  BindInv'
  <2>1. \A r \in Rows : /\ Live(r)' => Live(r)
                        /\ rows'[r].tok = rows[r].tok /\ rows'[r].user = rows[r].user
    BY <1>2 DEF Unregister, SwitchedOff, Live, TypeOK, Device
  <2>2. UNCHANGED <<led, exp, pc>>
    BY <1>2 DEF Unregister
  <2>3. LiveRowsExist' /\ OneOwner'
    BY <2>1 DEF BindInv, LiveRowsExist, OneOwner
  <2>4. NoWorkBeforeRow' /\ CheckedBindingStays'
    BY <2>1, <2>2 DEF BindInv, NoWorkBeforeRow, CheckedBindingStays
  <2> QED BY <2>3, <2>4 DEF BindInv
<1> QED BY <1>1, <1>2 DEF DeviceStep

LEMMA RowBind ==
  ASSUME TypeOK, BindInv, NEW d \in Deliveries, RowStep(d)
  PROVE  BindInv'
<1>1. UNCHANGED <<rows, pc>>
  BY DEF RowStep, Materialize, TimePasses, TicketAges, Cleanup
<1>2. LiveRowsExist' /\ OneOwner'
  BY <1>1 DEF BindInv, LiveRowsExist, OneOwner, Live
<1>3. led[d] \in Ledger
  BY DEF TypeOK
<1>4. \A e \in Deliveries : led'[e].st = "absent" => led[e].st = "absent"
  <2>1. /\ [led[d] EXCEPT !.st = "pending", !.ripe = TRUE].st = "pending"
        /\ [led[d] EXCEPT !.ripe = TRUE].st = led[d].st
        /\ [led[d] EXCEPT !.aged = TRUE].st = led[d].st
        /\ [led[d] EXCEPT !.st = "deleted"].st = "deleted"
    BY <1>3 DEF Ledger
  <2> QED BY <2>1 DEF RowStep, Materialize, TimePasses, TicketAges, Cleanup, TypeOK
<1>5. NoWorkBeforeRow'
  BY <1>1, <1>4 DEF BindInv, NoWorkBeforeRow
<1>6. \A p \in Procs, e \in Deliveries, c \in Claims :
        pc[p][e][c] # "none" => exp'[e] = exp[e]
  BY DEF RowStep, Materialize, TimePasses, TicketAges, Cleanup, BindInv,
         NoWorkBeforeRow, TypeOK
<1>7. CheckedBindingStays'
  BY <1>1, <1>6 DEF BindInv, CheckedBindingStays, Live
<1> QED BY <1>2, <1>5, <1>7 DEF BindInv

LEMMA BindStep ==
  ASSUME TypeOK, BindInv, [Next]_vars
  PROVE  BindInv'
<1>1. CASE \E p \in Procs : ProcStep(p)
  BY <1>1, ProcBind
<1>2. CASE \E d \in Deliveries : RowStep(d)
  BY <1>2, RowBind
<1>3. CASE DeviceStep
  BY <1>3, DeviceBind
<1>4. CASE (\E u \in Users : MembershipChanges(u)) \/ UNCHANGED vars
  BY <1>4 DEF MembershipChanges, vars, BindInv, LiveRowsExist, OneOwner,
              NoWorkBeforeRow, CheckedBindingStays, Live
<1> QED BY <1>1, <1>2, <1>3, <1>4 DEF Next

(* The binding invariant holds in every reachable state.                   *)
THEOREM BindingInvariant == Spec => []BindInv
<1>1. Init => BindInv
  BY DEF Init, BindInv, LiveRowsExist, OneOwner, NoWorkBeforeRow,
         CheckedBindingStays, Live
<1> QED BY <1>1, TypeCorrect, BindStep, PTL DEF Spec

(* While a push is at the provider its token is not bound to another       *)
(* account, for any number of processes, devices and registrations.        *)
THEOREM NoCrossAccount == Spec => []NoCrossAccountPush
<1>1. BindInv => NoCrossAccountPush
  BY DEF BindInv, CheckedBindingStays, NoCrossAccountPush, Live
<1> QED BY <1>1, BindingInvariant, PTL


-----------------------------------------------------------------------------
(* Sends and tickets.                                                      *)

(* A row update that gives away a claim at most, and leaves attempts and   *)
(* ticket.                                                                 *)
Keeps(row, new) ==
  /\ new.att = row.att /\ new.ratt = row.ratt /\ new.ticket = row.ticket
  /\ new.claim \in {row.claim, 0}

LEMMA ReleasedKeeps ==
  ASSUME NEW row \in Ledger, NEW s
  PROVE  Keeps(row, Released(row, s))
BY DEF Keeps, Released, Ledger

(* Steps that start no dispatch, let none reach its send and tell no       *)
(* process anything keep SendInv, whatever ticket they record: no dispatch *)
(* of the row may be left at its send then.                                *)
LEMMA QuietSend ==
  ASSUME TypeOK, TypeOK', SendInv,
         \A e \in Deliveries :
           /\ led'[e].att = led[e].att /\ led'[e].ratt = led[e].ratt
           /\ led'[e].claim \in {led[e].claim, 0}
           /\ accepted[e] <= accepted'[e],
         \A q \in Procs, e \in Deliveries :
           known'[q][e] \in {known[q][e], Nothing},
         \A q \in Procs, e \in Deliveries, k \in Claims :
           /\ pc'[q][e][k] \in {pc[q][e][k], "none"}
           /\ pc'[q][e][k] # "none" => exp'[e] = exp[e]
           /\ pc'[q][e][k] = "send" => led'[e].ticket = led[e].ticket
  PROVE  SendInv'
<1>0. Nothing.claim = 0 /\ Nothing.ticket = 0
  BY DEF Nothing
<1>1. LastClaims'
  <2>1. \A e \in Deliveries : led'[e].claim \in {0, led'[e].att + led'[e].ratt}
    BY DEF SendInv, LastClaims
  <2>2. \A q \in Procs, e \in Deliveries :
          known'[q][e].claim <= led'[e].att + led'[e].ratt
    <3> SUFFICES ASSUME NEW q \in Procs, NEW e \in Deliveries
                 PROVE  known'[q][e].claim <= led'[e].att + led'[e].ratt
      OBVIOUS
    <3>1. led[e].att \in Nat /\ led[e].ratt \in Nat
      BY DEF TypeOK, Ledger
    <3> QED BY <3>1, <1>0 DEF SendInv, LastClaims
  <2>3. \A q \in Procs, e \in Deliveries, c \in Claims :
          pc'[q][e][c] # "none" => c <= led'[e].att + led'[e].ratt
    BY DEF SendInv, LastClaims
  <2> QED BY <2>1, <2>2, <2>3 DEF LastClaims
<1>2. OneClaimant'
  BY DEF SendInv, OneClaimant
<1>3. OneHolder'
  <2>1. \A q \in Procs, e \in Deliveries, k \in Claims :
          pc'[q][e][k] \in Holding => /\ pc[q][e][k] \in Holding
                                      /\ exp'[e] = exp[e]
    BY DEF Holding
  <2> QED BY <2>1 DEF SendInv, OneHolder
<1>4. KnownWasSent'
  <2> SUFFICES ASSUME NEW q \in Procs, NEW e \in Deliveries,
                      known'[q][e] # Nothing
               PROVE  /\ known'[q][e].claim \in Claims
                      /\ known'[q][e].ticket \in 1 .. accepted'[e]
                      /\ \A x \in Procs :
                           pc'[x][e][known'[q][e].claim] \in {"none", "persist"}
    BY DEF KnownWasSent
  <2>1. known'[q][e] = known[q][e] /\ known[q][e] # Nothing
    OBVIOUS
  <2>2. accepted[e] \in Nat /\ accepted'[e] \in Nat
    BY DEF TypeOK
  <2> QED BY <2>1, <2>2 DEF SendInv, KnownWasSent
<1>5. OwnTickets'
  BY DEF SendInv, OwnTickets
<1>6. SendIsYoungest'
  <2> SUFFICES ASSUME NEW p \in Procs, NEW e \in Deliveries, NEW c \in Claims,
                      pc'[p][e][c] = "send"
               PROVE  led'[e].ticket = 0 /\ \A q \in Procs : known'[q][e].claim < c
    BY DEF SendIsYoungest
  <2>1. pc[p][e][c] = "send"
    OBVIOUS
  <2>2. c \in Nat /\ 0 < c
    BY DEF Claims
  <2> QED BY <1>0, <2>1, <2>2 DEF SendInv, SendIsYoungest
<1> QED BY <1>1, <1>2, <1>3, <1>4, <1>5, <1>6 DEF SendInv

(* What a step of one dispatch may do: a lock is taken only when free, the *)
(* send follows a renewal that found the claim standing.                   *)
Sound(p, d, c, place) ==
  /\ pc[p][d][c] # "none"
  /\ place \in Holding => pc[p][d][c] \in Holding \/ ~TokenHeld(exp[d].tok)
  /\ place = "send" => Fenced(d, c)
  /\ place \in Unsent => pc[p][d][c] \in Unsent
  /\ place \in Pushing => pc[p][d][c] \in Pushing
  /\ pc[p][d][c] = "persist" => place = "none"

(* The steps of one dispatch or poll that record no ticket and tell nobody *)
(* of one.                                                                 *)
PlainStep(p, d, c) ==
  \/ TryTokenLock(p, d, c) \/ Renew(p, d, c) \/ CheckEligibility(p, d, c)
  \/ MarkSuppressed(p, d, c) \/ SendRefused(p, d, c) \/ MarkRetry(p, d, c)
  \/ MarkDead(p, d, c) \/ DisableInvalidDevice(p, d, c)
  \/ SendUnanswered(p, d, c) \/ StatementFails(p, d, c) \/ Reject(p, d, c)
  \/ PollStep(p, d, c)

LEMMA PlainEffect ==
  ASSUME TypeOK, NEW p \in Procs, NEW d \in Deliveries, NEW c \in Claims,
         PlainStep(p, d, c)
  PROVE  /\ \E place \in Places : Goto(p, d, c, place) /\ Sound(p, d, c, place)
         /\ \A e \in Deliveries : Keeps(led[e], led'[e])
         /\ \A e \in Deliveries : accepted[e] <= accepted'[e]
         /\ UNCHANGED <<exp, known>>
<1> USE PlacesHave
<1>0. /\ led \in [Deliveries -> Ledger] /\ accepted \in [Deliveries -> Nat]
      /\ \A e \in Deliveries : Keeps(led[e], led[e]) /\ accepted[e] <= accepted[e]
  <2>1. \A e \in Deliveries : led[e] \in Ledger /\ accepted[e] \in Nat
    BY DEF TypeOK
  <2>2. \A e \in Deliveries : Keeps(led[e], led[e])
    BY DEF Keeps
  <2> QED BY <2>1, <2>2 DEF TypeOK
<1>1. \A s : \A e \in Deliveries :
        Keeps(led[e], [led EXCEPT ![d] = Released(@, s)][e])
  BY <1>0, ReleasedKeeps
<1>2. CASE TryTokenLock(p, d, c)
  <2>1. PICK place \in {"check", "busy"} :
          /\ Goto(p, d, c, place)
          /\ place = "check" => ~TokenHeld(exp[d].tok)
    BY <1>2 DEF TryTokenLock
  <2>2. place \in Places /\ Sound(p, d, c, place)
    BY <1>2, <2>1 DEF TryTokenLock, Sound, Holding, Pushing, Unsent
  <2> QED BY <1>0, <1>2, <2>1, <2>2 DEF TryTokenLock
<1>3. CASE Renew(p, d, c)
  <2>1. PICK place \in {"eligible", "send", "none"} :
          /\ Goto(p, d, c, place)
          /\ place = "send" => Fenced(d, c)
    BY <1>3 DEF Renew
  <2>2. place \in Places /\ Sound(p, d, c, place)
    BY <1>3, <2>1 DEF Renew, Sound, Holding, Pushing, Unsent
  <2>3. \A e \in Deliveries : Keeps(led[e], led'[e])
    <3>1. Keeps(led[d], [led[d] EXCEPT !.ripe = FALSE])
      BY <1>0 DEF Keeps, Ledger
    <3>2. led' = [led EXCEPT ![d] = [led[d] EXCEPT !.ripe = FALSE]] \/ led' = led
      BY <1>3 DEF Renew
    <3> QED BY <1>0, <3>1, <3>2
  <2> QED BY <1>0, <1>3, <2>1, <2>2, <2>3 DEF Renew
<1>4. CASE CheckEligibility(p, d, c)
  <2>1. PICK place \in {"confirm", "suppress"} : Goto(p, d, c, place)
    BY <1>4 DEF CheckEligibility
  <2>2. place \in Places /\ Sound(p, d, c, place)
    BY <1>4, <2>1 DEF CheckEligibility, Sound, Holding, Pushing, Unsent
  <2> QED BY <1>0, <1>4, <2>1, <2>2 DEF CheckEligibility
<1>5. CASE MarkSuppressed(p, d, c)
  <2>1. Sound(p, d, c, "none")
    BY <1>5 DEF MarkSuppressed, Sound, Holding, Pushing, Unsent
  <2> QED BY <1>0, <1>1, <1>5, <2>1 DEF MarkSuppressed
<1>6. CASE SendRefused(p, d, c)
  <2>1. PICK place \in {"retry", "kill", "killInvalid"} : Goto(p, d, c, place)
    BY <1>6 DEF SendRefused
  <2>2. place \in Places /\ Sound(p, d, c, place)
    BY <1>6, <2>1 DEF SendRefused, Sound, Holding, Pushing, Unsent
  <2> QED BY <1>0, <1>6, <2>1, <2>2 DEF SendRefused
<1>7. CASE MarkRetry(p, d, c)
  <2>1. Sound(p, d, c, "none")
    BY <1>7 DEF MarkRetry, Sound, Holding, Pushing, Unsent
  <2>2. PICK s : led' = [led EXCEPT ![d] = Released(@, s)] \/ led' = led
    BY <1>7 DEF MarkRetry
  <2> QED BY <1>0, <1>1, <1>7, <2>1, <2>2 DEF MarkRetry
<1>8. CASE MarkDead(p, d, c)
  <2>1. PICK place \in {"disable", "none"} : Goto(p, d, c, place)
    BY <1>8 DEF MarkDead
  <2>2. place \in Places /\ Sound(p, d, c, place)
    BY <1>8, <2>1 DEF MarkDead, Sound, Holding, Pushing, Unsent
  <2> QED BY <1>0, <1>1, <1>8, <2>1, <2>2 DEF MarkDead
<1>9. CASE DisableInvalidDevice(p, d, c)
  <2>1. Sound(p, d, c, "none")
    BY <1>9 DEF DisableInvalidDevice, Sound, Holding, Pushing, Unsent
  <2> QED BY <1>0, <1>9, <2>1 DEF DisableInvalidDevice
<1>10. CASE SendUnanswered(p, d, c)
  <2>1. Sound(p, d, c, "retry")
    BY <1>10 DEF SendUnanswered, Sound, Holding, Pushing, Unsent
  <2>2. \A e \in Deliveries : accepted[e] <= accepted'[e]
    BY <1>0, <1>10 DEF SendUnanswered
  <2> QED BY <1>0, <1>10, <2>1, <2>2 DEF SendUnanswered, Holding
<1>11. CASE StatementFails(p, d, c)
  <2>1. PICK place \in {"fail", "busy", "none"} :
          /\ Goto(p, d, c, place)
          /\ pc[p][d][c] # "none" /\ pc[p][d][c] # "persist"
          /\ place # "none" => pc[p][d][c] \in Pushing
          /\ place = "fail" => pc[p][d][c] \in Holding
    BY <1>11 DEF StatementFails, Holding, Pushing
  <2>2. place \in Places /\ Sound(p, d, c, place)
    BY <2>1 DEF Sound, Holding, Pushing, Unsent
  <2> QED BY <1>0, <1>11, <2>1, <2>2 DEF StatementFails
<1>12. CASE Reject(p, d, c)
  <2>1. Sound(p, d, c, "none")
    BY <1>12 DEF Reject, Sound, Holding, Pushing, Unsent
  <2> QED BY <1>0, <1>12, <2>1 DEF Reject
<1>13. CASE PollStep(p, d, c)
  <2>1. PICK place \in {"pollDisable", "none"} : Goto(p, d, c, place)
    BY <1>13 DEF PollStep, ReceiptDelivered, ReceiptRefused, ReceiptPending
  <2>2. place \in Places /\ Sound(p, d, c, place)
    BY <1>13, <2>1 DEF PollStep, ReceiptDelivered, ReceiptRefused,
                       ReceiptPending, Sound, Holding, Pushing, Unsent
  <2>3. PICK s : led' = [led EXCEPT ![d] = Released(@, s)] \/ led' = led
    BY <1>13 DEF PollStep, ReceiptDelivered, ReceiptRefused, ReceiptPending
  <2>4. UNCHANGED <<exp, known, accepted>>
    BY <1>13 DEF PollStep, ReceiptDelivered, ReceiptRefused, ReceiptPending
  <2> QED BY <1>0, <1>1, <2>1, <2>2, <2>3, <2>4
<1> QED BY <1>2, <1>3, <1>4, <1>5, <1>6, <1>7, <1>8, <1>9, <1>10, <1>11, <1>12,
           <1>13 DEF PlainStep

LEMMA PlainSend ==
  ASSUME TypeOK, TypeOK', SendInv,
         NEW p \in Procs, NEW d \in Deliveries, NEW c \in Claims,
         PlainStep(p, d, c)
  PROVE  SendInv'
<1>1. /\ \A e \in Deliveries : Keeps(led[e], led'[e])
      /\ \A e \in Deliveries : accepted[e] <= accepted'[e]
      /\ UNCHANGED <<exp, known>>
  BY PlainEffect
<1>2. PICK place \in Places : Goto(p, d, c, place) /\ Sound(p, d, c, place)
  BY PlainEffect
<1>3. \A q \in Procs, e \in Deliveries, k \in Claims :
        pc'[q][e][k] = IF q = p /\ e = d /\ k = c THEN place ELSE pc[q][e][k]
  BY <1>2 DEF Goto, TypeOK
<1>4. LastClaims'
  <2>1. \A e \in Deliveries :
          /\ led'[e].att = led[e].att /\ led'[e].ratt = led[e].ratt
          /\ led'[e].claim \in {led[e].claim, 0}
    BY <1>1 DEF Keeps
  <2>2. pc[p][d][c] # "none"
    BY <1>2 DEF Sound
  <2> QED BY <1>1, <1>3, <2>1, <2>2 DEF SendInv, LastClaims
<1>5. OneClaimant'
  BY <1>2, <1>3 DEF SendInv, OneClaimant, Sound
<1>6. OneHolder'
  <2>1. CASE place \in Holding /\ pc[p][d][c] \notin Holding
    BY <1>1, <1>2, <1>3, <2>1 DEF SendInv, OneHolder, Sound, TokenHeld
  <2>2. CASE place \in Holding => pc[p][d][c] \in Holding
    BY <1>1, <1>3, <2>2 DEF SendInv, OneHolder
  <2> QED BY <2>1, <2>2
<1>7. KnownWasSent'
  <2> SUFFICES ASSUME NEW q \in Procs, NEW e \in Deliveries, known[q][e] # Nothing
               PROVE  /\ known[q][e].claim \in Claims
                      /\ known[q][e].ticket \in 1 .. accepted'[e]
                      /\ \A x \in Procs :
                           pc'[x][e][known[q][e].claim] \in {"none", "persist"}
    BY <1>1 DEF KnownWasSent
  <2>1. accepted[e] \in Nat /\ accepted'[e] \in Nat
    BY DEF TypeOK
  <2>2. /\ known[q][e].claim \in Claims
        /\ known[q][e].ticket \in 1 .. accepted[e]
        /\ \A x \in Procs : pc[x][e][known[q][e].claim] \in {"none", "persist"}
    BY DEF SendInv, KnownWasSent
  <2>3. \A x \in Procs : pc'[x][e][known[q][e].claim] \in {"none", "persist"}
    BY <1>2, <1>3, <2>2 DEF Sound
  <2> QED BY <1>1, <2>1, <2>2, <2>3
<1>8. OwnTickets'
  BY <1>1 DEF SendInv, OwnTickets
<1>9. SendIsYoungest'
  <2> SUFFICES ASSUME NEW q \in Procs, NEW e \in Deliveries, NEW k \in Claims,
                      pc'[q][e][k] = "send"
               PROVE  led'[e].ticket = 0 /\ \A x \in Procs : known[x][e].claim < k
    BY <1>1 DEF SendIsYoungest
  <2>1. led'[e].ticket = led[e].ticket
    BY <1>1 DEF Keeps
  <2>2. CASE q = p /\ e = d /\ k = c
    <3>1. Fenced(d, c) /\ pc[p][d][c] # "none" /\ pc[p][d][c] # "persist"
      BY <1>2, <1>3, <2>2 DEF Sound
    <3>2. led[d].ticket = 0 /\ led[d].claim = c
      BY <3>1 DEF Fenced
    <3>3. c \in Nat /\ 0 < c
      BY DEF Claims
    <3>4. c = led[d].att + led[d].ratt
      BY <3>2, <3>3 DEF SendInv, LastClaims
    <3>5. ASSUME NEW x \in Procs
          PROVE  known[x][d].claim < c
      <4>1. known[x][d].claim \in Nat /\ known[x][d].claim <= c
        BY <3>4 DEF SendInv, LastClaims, TypeOK
      <4>2. CASE known[x][d] = Nothing
        BY <3>3, <4>2 DEF Nothing
      <4>3. CASE known[x][d] # Nothing
        <5>1. known[x][d].claim # c
          BY <3>1, <4>3 DEF SendInv, KnownWasSent
        <5> QED BY <3>3, <4>1, <5>1
      <4> QED BY <4>2, <4>3
    <3> QED BY <2>1, <2>2, <3>2, <3>5
  <2>3. CASE ~(q = p /\ e = d /\ k = c)
    BY <1>3, <2>1, <2>3 DEF SendInv, SendIsYoungest
  <2> QED BY <2>2, <2>3
<1> QED BY <1>4, <1>5, <1>6, <1>7, <1>8, <1>9 DEF SendInv

(* The provider's answer: its dispatch alone is at the send of this row,   *)
(* for the token lock spans the send.                                      *)
LEMMA AcceptedSend ==
  ASSUME TypeOK, TypeOK', SendInv,
         NEW p \in Procs, NEW d \in Deliveries, NEW c \in Claims,
         SendAccepted(p, d, c)
  PROVE  SendInv'
<1>1. \A q \in Procs, e \in Deliveries, k \in Claims :
        pc'[q][e][k] = IF q = p /\ e = d /\ k = c THEN "persist" ELSE pc[q][e][k]
  BY DEF SendAccepted, Goto, TypeOK
<1>2. \A q \in Procs, e \in Deliveries :
        known'[q][e] = IF q = p /\ e = d
                       THEN [claim |-> c, ticket |-> accepted[d] + 1]
                       ELSE known[q][e]
  BY DEF SendAccepted, TypeOK
<1>3. \A e \in Deliveries :
        accepted'[e] = IF e = d THEN accepted[d] + 1 ELSE accepted[e]
  BY DEF SendAccepted, TypeOK
<1>4. UNCHANGED <<led, exp>> /\ pc[p][d][c] = "send"
  BY DEF SendAccepted
<1>5. c \in Nat /\ 0 < c /\ accepted[d] \in Nat
  BY DEF Claims, TypeOK
<1>6. LastClaims'
  BY <1>1, <1>2, <1>4 DEF SendInv, LastClaims
<1>7. OneClaimant'
  BY <1>1, <1>4 DEF SendInv, OneClaimant
<1>8. OneHolder'
  BY <1>1, <1>4 DEF SendInv, OneHolder, Holding
<1>9. KnownWasSent'
  <2> SUFFICES ASSUME NEW q \in Procs, NEW e \in Deliveries, known'[q][e] # Nothing
               PROVE  /\ known'[q][e].claim \in Claims
                      /\ known'[q][e].ticket \in 1 .. accepted'[e]
                      /\ \A x \in Procs :
                           pc'[x][e][known'[q][e].claim] \in {"none", "persist"}
    BY DEF KnownWasSent
  <2>1. CASE q = p /\ e = d
    <3>1. known'[q][e].claim = c /\ known'[q][e].ticket = accepted[d] + 1
      BY <1>2, <2>1
    <3>2. \A x \in Procs : x # p => pc[x][d][c] = "none"
      BY <1>4 DEF SendInv, OneClaimant
    <3> QED BY <1>1, <1>3, <1>5, <2>1, <3>1, <3>2
  <2>2. CASE ~(q = p /\ e = d)
    <3>1. known'[q][e] = known[q][e]
      BY <1>2, <2>2
    <3>2. accepted[e] \in Nat
      BY DEF TypeOK
    <3> QED BY <1>1, <1>3, <3>1, <3>2 DEF SendInv, KnownWasSent
  <2> QED BY <2>1, <2>2
<1>10. OwnTickets'
  <2>1. \A q \in Procs : known[q][d] # Nothing => known[q][d].ticket # accepted[d] + 1
    BY <1>5 DEF SendInv, KnownWasSent
  <2> QED BY <1>2, <2>1 DEF SendInv, OwnTickets
<1>11. SendIsYoungest'
  <2> SUFFICES ASSUME NEW q \in Procs, NEW e \in Deliveries, NEW k \in Claims,
                      pc'[q][e][k] = "send"
               PROVE  led'[e].ticket = 0 /\ \A x \in Procs : known'[x][e].claim < k
    BY DEF SendIsYoungest
  <2>1. pc[q][e][k] = "send" /\ ~(q = p /\ e = d /\ k = c)
    BY <1>1
  <2>2. e # d
    BY <1>4, <2>1 DEF SendInv, OneHolder, Holding
  <2> QED BY <1>2, <1>4, <2>1, <2>2 DEF SendInv, SendIsYoungest
<1> QED BY <1>6, <1>7, <1>8, <1>9, <1>10, <1>11 DEF SendInv

(* A ticket is written only under the fence of the claim that earned it:   *)
(* an older claim, or the last one, is at no send any more.                *)
LEMMA PersistEffect ==
  ASSUME TypeOK, SendInv, NEW p \in Procs, NEW d \in Deliveries,
         known[p][d] # Nothing,
         PersistKnown(p, d) \/ (PersistThrows(p, d) /\ UNCHANGED <<known, conflict>>)
  PROVE  /\ \A e \in Deliveries :
              /\ led'[e].att = led[e].att /\ led'[e].ratt = led[e].ratt
              /\ led'[e].claim \in {led[e].claim, 0}
              /\ led'[e].ticket # led[e].ticket =>
                   /\ e = d /\ led[e].ticket = 0
                   /\ led'[e].ticket = known[p][d].ticket
                   /\ \A q \in Procs, k \in Claims : pc[q][e][k] # "send"
         /\ \A q \in Procs, e \in Deliveries :
              known'[q][e] \in {known[q][e], Nothing}
<1>0. led \in [Deliveries -> Ledger] /\ led[d] \in Ledger
      /\ known[p][d] \in [claim : Nat, ticket : Nat]
  BY DEF TypeOK
<1>1. ASSUME Fenced(d, known[p][d].claim), NEW q \in Procs, NEW k \in Claims,
             pc[q][d][k] = "send"
      PROVE  FALSE
  <2>1. known[p][d].claim < k /\ k <= led[d].att + led[d].ratt
    BY <1>1 DEF SendInv, SendIsYoungest, LastClaims
  <2>2. known[p][d].claim \in Claims /\ led[d].claim = known[p][d].claim
    BY <1>1 DEF SendInv, KnownWasSent, Fenced
  <2>3. led[d].claim = led[d].att + led[d].ratt
    BY <2>2 DEF SendInv, LastClaims, Claims
  <2> QED BY <1>0, <2>1, <2>2, <2>3 DEF Claims, Ledger
<1>4. \A q \in Procs, e \in Deliveries : known'[q][e] \in {known[q][e], Nothing}
  <2>1. known' = known \/ known' = [known EXCEPT ![p][d] = Nothing]
    BY DEF PersistKnown
  <2>2. known \in [Procs -> [Deliveries -> [claim : Nat, ticket : Nat]]]
    BY DEF TypeOK
  <2>3. CASE known' = known
    BY <2>3
  <2>4. CASE known' = [known EXCEPT ![p][d] = Nothing]
    <3>1. ASSUME NEW q \in Procs, NEW e \in Deliveries
          PROVE  known'[q][e] = IF q = p /\ e = d THEN Nothing ELSE known[q][e]
      BY <2>2, <2>4
    <3> QED BY <3>1
  <2> QED BY <2>1, <2>3, <2>4
<1>2. CASE led' = led
  BY <1>2, <1>4
<1>3. CASE led' # led
  <2>1. /\ Fenced(d, known[p][d].claim)
        /\ led' = [led EXCEPT ![d] = [Released(@, "ticket_accepted") EXCEPT
                                        !.ticket = known[p][d].ticket]]
    BY <1>3 DEF PersistKnown, PersistThrows
  <2>3. /\ led'[d].att = led[d].att /\ led'[d].ratt = led[d].ratt
        /\ led'[d].claim = 0 /\ led'[d].ticket = known[p][d].ticket
    BY <1>0, <2>1 DEF Released, Ledger
  <2>4. \A e \in Deliveries : e # d => led'[e] = led[e]
    BY <1>0, <2>1
  <2>5. led[d].ticket = 0
    BY <2>1 DEF Fenced
  <2> QED BY <1>1, <1>4, <2>1, <2>3, <2>4, <2>5
<1> QED BY <1>2, <1>3

LEMMA PersistSend ==
  ASSUME TypeOK, TypeOK', SendInv, NEW p \in Procs, NEW d \in Deliveries,
         known[p][d] # Nothing,
         PersistKnown(p, d) \/ (PersistThrows(p, d) /\ UNCHANGED <<known, conflict>>),
         UNCHANGED <<exp, accepted>>,
         \A q \in Procs, e \in Deliveries, k \in Claims :
           pc'[q][e][k] \in {pc[q][e][k], "none"}
  PROVE  SendInv'
<1>1. \A e \in Deliveries :
        /\ led'[e].att = led[e].att /\ led'[e].ratt = led[e].ratt
        /\ led'[e].claim \in {led[e].claim, 0}
        /\ led'[e].ticket # led[e].ticket =>
             \A q \in Procs, k \in Claims : pc[q][e][k] # "send"
  BY PersistEffect
<1>2. \A q \in Procs, e \in Deliveries : known'[q][e] \in {known[q][e], Nothing}
  BY PersistEffect
<1>3. \A e \in Deliveries : accepted[e] <= accepted'[e]
  BY DEF TypeOK
<1>4. \A q \in Procs, e \in Deliveries, k \in Claims :
        /\ pc'[q][e][k] # "none" => exp'[e] = exp[e]
        /\ pc'[q][e][k] = "send" => led'[e].ticket = led[e].ticket
  BY <1>1
<1> QED BY <1>1, <1>2, <1>3, <1>4, QuietSend

LEMMA DispatchSend ==
  ASSUME TypeOK, TypeOK', SendInv,
         NEW p \in Procs, NEW d \in Deliveries, NEW c \in Claims,
         DispatchStep(p, d, c) \/ DispatchFault(p, d, c) \/ PollStep(p, d, c)
  PROVE  SendInv'
<1>1. CASE PlainStep(p, d, c)
  BY <1>1, PlainSend
<1>2. CASE SendAccepted(p, d, c)
  BY <1>2, AcceptedSend
<1>3. CASE Persist(p, d, c) \/ PersistFails(p, d, c)
  <2>1. \A q \in Procs, e \in Deliveries, k \in Claims :
          pc'[q][e][k] \in {pc[q][e][k], "none"}
    <3>1. pc' = [pc EXCEPT ![p][d][c] = "none"]
      BY <1>3 DEF Persist, PersistFails, Goto
    <3>2. pc \in [Procs -> [Deliveries -> [Claims -> Places]]]
      BY DEF TypeOK
    <3> QED BY <3>1, <3>2
  <2>2. UNCHANGED <<exp, accepted>>
    BY <1>3 DEF Persist, PersistFails
  <2>3. CASE UNCHANGED <<led, known>>
    BY <2>1, <2>2, <2>3, QuietSend DEF TypeOK
  <2>4. CASE ~UNCHANGED <<led, known>>
    <3>1. /\ known[p][d] # Nothing
          /\ \/ PersistKnown(p, d)
             \/ PersistThrows(p, d) /\ UNCHANGED <<known, conflict>>
      BY <1>3, <2>4 DEF Persist, PersistFails
    <3> QED BY <2>1, <2>2, <3>1, PersistSend
  <2> QED BY <2>3, <2>4
<1> QED BY <1>1, <1>2, <1>3 DEF DispatchStep, DispatchFault, PlainStep

LEMMA ClaimedEffect ==
  ASSUME NEW row \in Ledger
  PROVE  /\ Claimed(row) \in Ledger
         /\ Claimed(row).claim = row.att + row.ratt + 1
         /\ Claimed(row).att = row.att /\ Claimed(row).ratt = row.ratt
         /\ Claimed(row).ticket = row.ticket
<1>1. row.att + row.ratt + 1 \in Nat
  BY DEF Ledger
<1>2. Claimed(row) \in Ledger
  BY <1>1 DEF Claimed, Ledger, Statuses
<1> QED BY <1>2 DEF Claimed, Ledger

LEMMA ClaimedRows ==
  ASSUME TypeOK, NEW S \in SUBSET Deliveries,
         \/ led' = [d \in Deliveries |->
                      IF d \in S THEN [Claimed(led[d]) EXCEPT !.att = @ + 1]
                      ELSE led[d]]
         \/ led' = [d \in Deliveries |->
                      IF d \in S THEN [Claimed(led[d]) EXCEPT !.ratt = @ + 1]
                      ELSE led[d]]
  PROVE  \A d \in Deliveries :
           /\ led'[d].ticket = led[d].ticket
           /\ d \in S => /\ led'[d].claim = led[d].att + led[d].ratt + 1
                         /\ led'[d].att + led'[d].ratt = led[d].att + led[d].ratt + 1
           /\ d \notin S => led'[d] = led[d]
<1>0. \A d \in Deliveries : led[d] \in Ledger
  BY DEF TypeOK
<1> SUFFICES ASSUME NEW d \in Deliveries
             PROVE  /\ led'[d].ticket = led[d].ticket
                    /\ d \in S =>
                         /\ led'[d].claim = led[d].att + led[d].ratt + 1
                         /\ led'[d].att + led'[d].ratt = led[d].att + led[d].ratt + 1
                    /\ d \notin S => led'[d] = led[d]
  OBVIOUS
<1>1. led[d].att \in Nat /\ led[d].ratt \in Nat
  BY <1>0 DEF Ledger
<1>2. d \in S => \/ led'[d] = [Claimed(led[d]) EXCEPT !.att = @ + 1]
                 \/ led'[d] = [Claimed(led[d]) EXCEPT !.ratt = @ + 1]
  OBVIOUS
<1>3. d \notin S => led'[d] = led[d]
  OBVIOUS
<1>4. /\ Claimed(led[d]) \in Ledger
      /\ Claimed(led[d]).claim = led[d].att + led[d].ratt + 1
      /\ Claimed(led[d]).att = led[d].att /\ Claimed(led[d]).ratt = led[d].ratt
      /\ Claimed(led[d]).ticket = led[d].ticket
  BY <1>0, ClaimedEffect
<1>5. ASSUME d \in S
      PROVE  /\ led'[d].ticket = led[d].ticket
             /\ led'[d].claim = led[d].att + led[d].ratt + 1
             /\ led'[d].att + led'[d].ratt = led[d].att + led[d].ratt + 1
  <2>1. CASE led'[d] = [Claimed(led[d]) EXCEPT !.att = @ + 1]
    BY <1>1, <1>4, <2>1 DEF Ledger
  <2>2. CASE led'[d] = [Claimed(led[d]) EXCEPT !.ratt = @ + 1]
    BY <1>1, <1>4, <2>2 DEF Ledger
  <2> QED BY <1>2, <1>5, <2>1, <2>2
<1> QED BY <1>3, <1>5

(* A claim is newer than all that anybody does or knows of the row.        *)
LEMMA ClaimSend ==
  ASSUME TypeOK, TypeOK', SendInv, NEW p \in Procs,
         NEW S \in SUBSET Deliveries, NEW place \in {"lock", "poll"},
         \/ led' = [d \in Deliveries |->
                      IF d \in S THEN [Claimed(led[d]) EXCEPT !.att = @ + 1]
                      ELSE led[d]]
         \/ led' = [d \in Deliveries |->
                      IF d \in S THEN [Claimed(led[d]) EXCEPT !.ratt = @ + 1]
                      ELSE led[d]],
         pc' = [pc EXCEPT ![p] =
                  [d \in Deliveries |-> [c \in Claims |->
                     IF d \in S /\ c = led[d].att + led[d].ratt + 1
                     THEN place ELSE pc[p][d][c]]]],
         UNCHANGED <<exp, known, accepted>>
  PROVE  SendInv'
<1>0. \A d \in Deliveries : led[d] \in Ledger
  BY DEF TypeOK
<1>2. \A d \in Deliveries :
        /\ led'[d].ticket = led[d].ticket
        /\ d \in S => /\ led'[d].claim = led[d].att + led[d].ratt + 1
                      /\ led'[d].att + led'[d].ratt = led[d].att + led[d].ratt + 1
        /\ d \notin S => led'[d] = led[d]
  BY ClaimedRows
<1>3. \A q \in Procs, e \in Deliveries, k \in Claims :
        pc'[q][e][k] = IF q = p /\ e \in S /\ k = led[e].att + led[e].ratt + 1
                       THEN place ELSE pc[q][e][k]
  BY DEF TypeOK
<1>4. \A d \in Deliveries : led[d].att + led[d].ratt \in Nat
  BY <1>0 DEF Ledger
<1>5. \A q \in Procs, d \in Deliveries, k \in Claims :
        k = led[d].att + led[d].ratt + 1 => pc[q][d][k] = "none"
  BY <1>4 DEF SendInv, LastClaims, Claims
<1>6. LastClaims'
  <2>1. \A d \in Deliveries : led'[d].claim \in {0, led'[d].att + led'[d].ratt}
    BY <1>2 DEF SendInv, LastClaims
  <2>2. \A d \in Deliveries :
          led[d].att + led[d].ratt <= led'[d].att + led'[d].ratt
          /\ led'[d].att + led'[d].ratt \in Nat
    BY <1>2, <1>4
  <2>3. \A q \in Procs, d \in Deliveries :
          known'[q][d].claim <= led'[d].att + led'[d].ratt
    BY <1>4, <2>2 DEF SendInv, LastClaims, TypeOK
  <2>4. \A q \in Procs, d \in Deliveries, c \in Claims :
          pc'[q][d][c] # "none" => c <= led'[d].att + led'[d].ratt
    <3> SUFFICES ASSUME NEW q \in Procs, NEW d \in Deliveries, NEW c \in Claims,
                        pc'[q][d][c] # "none"
                 PROVE  c <= led'[d].att + led'[d].ratt
      OBVIOUS
    <3>1. c \in Nat
      BY DEF Claims
    <3>2. CASE d \in S /\ c = led[d].att + led[d].ratt + 1
      BY <1>2, <3>1, <3>2
    <3>3. CASE ~(d \in S /\ c = led[d].att + led[d].ratt + 1)
      <4>1. c <= led[d].att + led[d].ratt
        BY <1>3, <3>3 DEF SendInv, LastClaims
      <4> QED BY <1>4, <2>2, <3>1, <4>1
    <3> QED BY <3>2, <3>3
  <2> QED BY <2>1, <2>3, <2>4 DEF LastClaims
<1>7. OneClaimant'
  BY <1>3, <1>5 DEF SendInv, OneClaimant
<1>8. OneHolder'
  BY <1>3 DEF SendInv, OneHolder, Holding
<1>9. KnownWasSent'
  <2>1. \A q \in Procs, e \in Deliveries :
          known[q][e].claim # led[e].att + led[e].ratt + 1
    BY <1>4 DEF SendInv, LastClaims, TypeOK
  <2> QED BY <1>3, <2>1 DEF SendInv, KnownWasSent
<1>10. OwnTickets'
  BY DEF SendInv, OwnTickets
<1>11. SendIsYoungest'
  BY <1>2, <1>3 DEF SendInv, SendIsYoungest
<1> QED BY <1>6, <1>7, <1>8, <1>9, <1>10, <1>11 DEF SendInv

LEMMA ProcSend ==
  ASSUME TypeOK, TypeOK', SendInv, NEW p \in Procs, ProcStep(p)
  PROVE  SendInv'
<1>0. ASSUME UNCHANGED <<led, exp, accepted>>,
             \A q \in Procs, e \in Deliveries :
               known'[q][e] \in {known[q][e], Nothing},
             \A q \in Procs, e \in Deliveries, k \in Claims :
               pc'[q][e][k] \in {pc[q][e][k], "none"}
      PROVE  SendInv'
  BY <1>0, QuietSend DEF TypeOK
<1>1. CASE Claim(p)
  <2>1. PICK S \in Batch(ClaimableNow, 5) :
          /\ led' = [d \in Deliveries |->
                       IF d \in S THEN [Claimed(led[d]) EXCEPT !.att = @ + 1]
                       ELSE led[d]]
          /\ pc' = [pc EXCEPT ![p] =
                      [d \in Deliveries |-> [c \in Claims |->
                         IF d \in S /\ c = led[d].att + led[d].ratt + 1
                         THEN "lock" ELSE pc[p][d][c]]]]
    BY <1>1 DEF Claim, ClaimUnflushed
  <2>2. S \in SUBSET Deliveries
    BY DEF Batch, ClaimableNow
  <2>3. UNCHANGED <<exp, known, accepted>>
    BY <1>1 DEF Claim, ClaimUnflushed
  <2> QED BY <2>1, <2>2, <2>3, ClaimSend
<1>2. CASE ClaimReceipts(p)
  <2>1. PICK S \in Batch(Pollable, 100) :
          /\ led' = [d \in Deliveries |->
                       IF d \in S THEN [Claimed(led[d]) EXCEPT !.ratt = @ + 1]
                       ELSE led[d]]
          /\ pc' = [pc EXCEPT ![p] =
                      [d \in Deliveries |-> [c \in Claims |->
                         IF d \in S /\ c = led[d].att + led[d].ratt + 1
                         THEN "poll" ELSE pc[p][d][c]]]]
    BY <1>2 DEF ClaimReceipts
  <2>2. S \in SUBSET Deliveries
    BY DEF Batch, Pollable
  <2>3. UNCHANGED <<exp, known, accepted>>
    BY <1>2 DEF ClaimReceipts
  <2> QED BY <2>1, <2>2, <2>3, ClaimSend
<1>3. CASE PollFails(p)
  BY <1>0, <1>3 DEF PollFails, TypeOK
<1>4. CASE Deactivate(p) \/ Restart(p)
  BY <1>0, <1>4 DEF Deactivate, Restart
<1>5. CASE Crash(p) \/ Exit(p)
  <2>1. /\ pc' = [pc EXCEPT ![p] = [d \in Deliveries |-> [c \in Claims |-> "none"]]]
        /\ known' = [known EXCEPT ![p] = [d \in Deliveries |-> Nothing]]
        /\ UNCHANGED <<led, exp, accepted>>
    BY <1>5 DEF Crash, Exit, MemoryLost
  <2>2. \A q \in Procs, e \in Deliveries : known'[q][e] \in {known[q][e], Nothing}
    BY <2>1 DEF TypeOK
  <2>3. \A q \in Procs, e \in Deliveries, k \in Claims :
          pc'[q][e][k] \in {pc[q][e][k], "none"}
    BY <2>1 DEF TypeOK
  <2> QED BY <1>0, <2>1, <2>2, <2>3
<1>6. CASE \E d \in Deliveries : Flush(p, d) \/ FlushThrows(p, d)
  BY <1>6, PersistSend DEF Flush, FlushThrows
<1>7. CASE \E d \in Deliveries, c \in Claims :
              DispatchStep(p, d, c) \/ DispatchFault(p, d, c) \/ PollStep(p, d, c)
  BY <1>7, DispatchSend
<1> QED BY <1>1, <1>2, <1>3, <1>4, <1>5, <1>6, <1>7 DEF ProcStep

(* What happens to rows and devices meanwhile: a row is made before it has *)
(* work.                                                                   *)
LEMMA OutsideSteps ==
  ASSUME TypeOK, BindInv,
         \/ \E d \in Deliveries : RowStep(d)
         \/ DeviceStep
         \/ \E u \in Users : MembershipChanges(u)
         \/ UNCHANGED vars
  PROVE  /\ UNCHANGED <<pc, known, cycle, accepted, ambiguous>>
         /\ \A e \in Deliveries : Keeps(led[e], led'[e])
         /\ \A q \in Procs, e \in Deliveries, k \in Claims :
              pc[q][e][k] # "none" => exp'[e] = exp[e]
<1>0. led \in [Deliveries -> Ledger] /\ exp \in [Deliveries -> Binding]
  BY DEF TypeOK
<1>1. ASSUME NEW d \in Deliveries, RowStep(d)
      PROVE  /\ UNCHANGED <<pc, known, cycle, accepted, ambiguous>>
             /\ \A e \in Deliveries : Keeps(led[e], led'[e])
             /\ \A q \in Procs, e \in Deliveries, k \in Claims :
                  pc[q][e][k] # "none" => exp'[e] = exp[e]
  <2>1. UNCHANGED <<pc, known, cycle, accepted, ambiguous>>
    BY <1>1 DEF RowStep, Materialize, TimePasses, TicketAges, Cleanup
  <2>2. /\ Keeps(led[d], [led[d] EXCEPT !.st = "pending", !.ripe = TRUE])
        /\ Keeps(led[d], [led[d] EXCEPT !.ripe = TRUE])
        /\ Keeps(led[d], [led[d] EXCEPT !.aged = TRUE])
        /\ Keeps(led[d], [led[d] EXCEPT !.st = "deleted"])
    BY <1>0 DEF Keeps, Ledger
  <2>3. /\ \A e \in Deliveries : e # d => led'[e] = led[e]
        /\ led'[d] \in {[led[d] EXCEPT !.st = "pending", !.ripe = TRUE],
                        [led[d] EXCEPT !.ripe = TRUE],
                        [led[d] EXCEPT !.aged = TRUE],
                        [led[d] EXCEPT !.st = "deleted"]}
    BY <1>0, <1>1 DEF RowStep, Materialize, TimePasses, TicketAges, Cleanup
  <2>4. \A e \in Deliveries : Keeps(led[e], led'[e])
    BY <2>2, <2>3 DEF Keeps
  <2>5. \A q \in Procs, e \in Deliveries, k \in Claims :
          pc[q][e][k] # "none" => exp'[e] = exp[e]
    BY <1>0, <1>1 DEF RowStep, Materialize, TimePasses, TicketAges, Cleanup,
                      BindInv, NoWorkBeforeRow
  <2> QED BY <2>1, <2>4, <2>5
<1>2. CASE DeviceStep \/ (\E u \in Users : MembershipChanges(u)) \/ UNCHANGED vars
  <2>1. UNCHANGED <<led, exp, pc, known, cycle, accepted, ambiguous>>
    BY <1>2 DEF DeviceStep, Register, RegisterUnlocked, Unregister,
                MembershipChanges, vars
  <2> QED BY <2>1 DEF Keeps
<1> QED BY <1>1, <1>2

LEMMA SendStep ==
  ASSUME TypeOK, TypeOK', BindInv, SendInv, [Next]_vars
  PROVE  SendInv'
<1>1. CASE \E p \in Procs : ProcStep(p)
  BY <1>1, ProcSend
<1>2. CASE ~(\E p \in Procs : ProcStep(p))
  <2>1. /\ UNCHANGED <<pc, known, accepted>>
        /\ \A e \in Deliveries : Keeps(led[e], led'[e])
        /\ \A q \in Procs, e \in Deliveries, k \in Claims :
             pc[q][e][k] # "none" => exp'[e] = exp[e]
    BY <1>2, OutsideSteps DEF Next
  <2>2. \A e \in Deliveries : accepted[e] <= accepted'[e]
    BY <2>1 DEF TypeOK
  <2> QED BY <2>1, <2>2, QuietSend DEF Keeps
<1> QED BY <1>1, <1>2

LEMMA SendInvariant == Spec => []SendInv
<1>1. Init => SendInv
  <2> SUFFICES ASSUME Init PROVE SendInv
    OBVIOUS
  <2>1. /\ \A p \in Procs, d \in Deliveries : known[p][d] = Nothing
        /\ \A p \in Procs, d \in Deliveries, c \in Claims : pc[p][d][c] = "none"
        /\ \A d \in Deliveries :
             led[d].claim = 0 /\ led[d].att = 0 /\ led[d].ratt = 0
    BY DEF Init
  <2>2. LastClaims
    BY <2>1 DEF LastClaims, Nothing
  <2>3. OneClaimant /\ OneHolder /\ KnownWasSent /\ OwnTickets /\ SendIsYoungest
    BY <2>1 DEF OneClaimant, OneHolder, KnownWasSent, OwnTickets, SendIsYoungest,
                Holding
  <2> QED BY <2>2, <2>3 DEF SendInv
<1> QED BY <1>1, SendStep, TypeCorrect, BindingInvariant, PTL DEF Spec

(* Once a ticket is recorded no dispatch of the row is at the provider     *)
(* call, for any number of processes, claims, crashes and lost answers:    *)
(* the second renewal of the claim and the token lock fence out a slow     *)
(* claimant.                                                               *)
THEOREM NoSendOnceTicketed == Spec => []NoSendAfterTicket
<1>1. SendInv => NoSendAfterTicket
  BY DEF SendInv, SendIsYoungest, NoSendAfterTicket
<1> QED BY <1>1, SendInvariant, PTL

-----------------------------------------------------------------------------
(* A ticket enters a row that has none, and some process knows it.         *)
Recorded(e) ==
  led'[e].ticket # led[e].ticket =>
    /\ led[e].ticket = 0
    /\ \E p \in Procs : /\ known[p][e] # Nothing
                        /\ led'[e].ticket = known[p][e].ticket

LEMMA ProcTicket ==
  ASSUME TypeOK, SendInv, NEW p \in Procs, ProcStep(p), NEW e \in Deliveries
  PROVE  Recorded(e)
<1> USE DEF Recorded
<1>1. CASE Claim(p)
  <2>1. PICK S \in Batch(ClaimableNow, 5) :
          led' = [d \in Deliveries |->
                    IF d \in S THEN [Claimed(led[d]) EXCEPT !.att = @ + 1]
                    ELSE led[d]]
    BY <1>1 DEF Claim, ClaimUnflushed
  <2>2. S \in SUBSET Deliveries
    BY DEF Batch, ClaimableNow
  <2> QED BY <2>1, <2>2, ClaimedRows
<1>2. CASE ClaimReceipts(p)
  <2>1. PICK S \in Batch(Pollable, 100) :
          led' = [d \in Deliveries |->
                    IF d \in S THEN [Claimed(led[d]) EXCEPT !.ratt = @ + 1]
                    ELSE led[d]]
    BY <1>2 DEF ClaimReceipts
  <2>2. S \in SUBSET Deliveries
    BY DEF Batch, Pollable
  <2> QED BY <2>1, <2>2, ClaimedRows
<1>3. CASE PollFails(p) \/ Deactivate(p) \/ Restart(p) \/ Crash(p) \/ Exit(p)
  BY <1>3 DEF PollFails, Deactivate, Restart, Crash, Exit, MemoryLost
<1>4. CASE \E d \in Deliveries : Flush(p, d) \/ FlushThrows(p, d)
  BY <1>4, PersistEffect DEF Flush, FlushThrows
<1>5. ASSUME NEW d \in Deliveries, NEW c \in Claims,
             DispatchStep(p, d, c) \/ DispatchFault(p, d, c) \/ PollStep(p, d, c)
      PROVE  Recorded(e)
  <2>1. CASE PlainStep(p, d, c)
    BY <2>1, PlainEffect DEF Keeps
  <2>2. CASE SendAccepted(p, d, c)
    BY <2>2 DEF SendAccepted
  <2>3. CASE Persist(p, d, c) \/ PersistFails(p, d, c)
    <3>1. CASE led' = led
      BY <3>1
    <3>2. CASE led' # led
      <4>1. /\ known[p][d] # Nothing
            /\ \/ PersistKnown(p, d)
               \/ PersistThrows(p, d) /\ UNCHANGED <<known, conflict>>
        BY <2>3, <3>2 DEF Persist, PersistFails
      <4> QED BY <4>1, PersistEffect
    <3> QED BY <3>1, <3>2
  <2> QED BY <1>5, <2>1, <2>2, <2>3 DEF DispatchStep, DispatchFault, PlainStep
<1> QED BY <1>1, <1>2, <1>3, <1>4, <1>5 DEF ProcStep

LEMMA TicketStep ==
  ASSUME TypeOK, BindInv, SendInv, [Next]_vars, NEW e \in Deliveries
  PROVE  Recorded(e)
<1>1. CASE \E p \in Procs : ProcStep(p)
  BY <1>1, ProcTicket
<1>2. CASE ~(\E p \in Procs : ProcStep(p))
  BY <1>2, OutsideSteps DEF Next, Keeps, Recorded
<1> QED BY <1>1, <1>2

(* A recorded ticket is never replaced and never erased, in any            *)
(* interleaving of dispatchers, pollers, crashes and cleanups.             *)
THEOREM TicketsStand == Spec => TicketStable
<1>1. ASSUME TypeOK, BindInv, SendInv, [Next]_vars,
             NEW d \in Deliveries, led[d].ticket # 0
      PROVE  led'[d].ticket = led[d].ticket
  BY <1>1, TicketStep DEF Recorded
<1>2. TypeOK /\ BindInv /\ SendInv /\ [Next]_vars
        => [\A d \in Deliveries : led[d].ticket # 0 => led'[d].ticket = led[d].ticket]_vars
  BY <1>1
<1> QED BY <1>2, TypeCorrect, BindingInvariant, SendInvariant, PTL
        DEF Spec, TicketStable

-----------------------------------------------------------------------------
(* What the dispatchers switch off.                                        *)

(* A process about to switch a device off was told so by the provider.     *)
RefusedInv ==
  \A p \in Procs, d \in Deliveries, c \in Claims :
    pc[p][d][c] \in {"killInvalid", "disable", "pollDisable"}
      => <<exp[d].row, exp[d].ver>> \in invalid

LEMMA RefusedStep ==
  ASSUME TypeOK, BindInv, RefusedInv, [Next]_vars
  PROVE  RefusedInv'
<1> DEFINE Off == {"killInvalid", "disable", "pollDisable"}
<1>0. ASSUME invalid \subseteq invalid',
             \A q \in Procs, e \in Deliveries, k \in Claims :
               pc'[q][e][k] \in Off =>
                 /\ exp'[e] = exp[e]
                 /\ pc[q][e][k] \in Off \/ <<exp[e].row, exp[e].ver>> \in invalid'
      PROVE  RefusedInv'
  BY <1>0 DEF RefusedInv
<1>1. ASSUME NEW p \in Procs, NEW d \in Deliveries, NEW c \in Claims,
             DispatchStep(p, d, c) \/ DispatchFault(p, d, c) \/ PollStep(p, d, c)
      PROVE  RefusedInv'
  <2>1. UNCHANGED exp /\ invalid \subseteq invalid'
    BY <1>1 DEF DispatchStep, DispatchFault, PollStep, TryTokenLock, Renew,
       CheckEligibility, MarkSuppressed, SendAccepted, SendRefused, Persist,
       MarkRetry, MarkDead, DisableInvalidDevice, SendUnanswered, PersistFails,
       StatementFails, Reject, ReceiptDelivered, ReceiptRefused, ReceiptPending
  <2>2. PICK place : /\ Goto(p, d, c, place)
                     /\ place \in Off => \/ pc[p][d][c] \in Off
                                         \/ <<exp[d].row, exp[d].ver>> \in invalid'
    BY <1>1 DEF DispatchStep, DispatchFault, PollStep, TryTokenLock, Renew,
       CheckEligibility, MarkSuppressed, SendAccepted, SendRefused, Persist,
       MarkRetry, MarkDead, DisableInvalidDevice, SendUnanswered, PersistFails,
       StatementFails, Reject, ReceiptDelivered, ReceiptRefused, ReceiptPending
  <2>3. \A q \in Procs, e \in Deliveries, k \in Claims :
          pc'[q][e][k] = IF q = p /\ e = d /\ k = c THEN place ELSE pc[q][e][k]
    BY <2>2 DEF Goto, TypeOK
  <2> QED BY <1>0, <2>1, <2>2, <2>3
<1>2. ASSUME NEW p \in Procs,
             \/ Claim(p) \/ ClaimReceipts(p) \/ PollFails(p) \/ Deactivate(p)
             \/ Crash(p) \/ Exit(p) \/ Restart(p)
             \/ \E d \in Deliveries : Flush(p, d) \/ FlushThrows(p, d)
      PROVE  RefusedInv'
  <2>1. UNCHANGED <<exp, invalid>>
    BY <1>2 DEF Claim, ClaimUnflushed, ClaimReceipts, PollFails, Deactivate,
       Crash, Exit, Restart, MemoryLost, Flush, FlushThrows
  <2>2. \A q \in Procs, e \in Deliveries, k \in Claims :
          pc'[q][e][k] \in {pc[q][e][k], "none", "lock", "poll"}
    <3>0. pc \in [Procs -> [Deliveries -> [Claims -> Places]]]
      BY DEF TypeOK
    <3>1. CASE Claim(p)
      <4>1. PICK S \in Batch(ClaimableNow, 5) :
              pc' = [pc EXCEPT ![p] =
                       [d \in Deliveries |-> [c \in Claims |->
                          IF d \in S /\ c = led[d].att + led[d].ratt + 1
                          THEN "lock" ELSE pc[p][d][c]]]]
        BY <3>1 DEF Claim, ClaimUnflushed
      <4> QED BY <3>0, <4>1
    <3>5. CASE ClaimReceipts(p)
      <4>1. PICK S \in Batch(Pollable, 100) :
              pc' = [pc EXCEPT ![p] =
                       [d \in Deliveries |-> [c \in Claims |->
                          IF d \in S /\ c = led[d].att + led[d].ratt + 1
                          THEN "poll" ELSE pc[p][d][c]]]]
        BY <3>5 DEF ClaimReceipts
      <4> QED BY <3>0, <4>1
    <3>2. CASE PollFails(p)
      BY <3>0, <3>2 DEF PollFails
    <3>3. CASE Crash(p) \/ Exit(p)
      <4>1. pc' = [pc EXCEPT ![p] =
                     [d \in Deliveries |-> [c \in Claims |-> "none"]]]
        BY <3>3 DEF Crash, Exit, MemoryLost
      <4> QED BY <3>0, <4>1
    <3>4. CASE UNCHANGED pc
      BY <3>4
    <3> QED BY <1>2, <3>1, <3>2, <3>3, <3>4, <3>5
            DEF Deactivate, Restart, Flush, FlushThrows
  <2> QED BY <1>0, <2>1, <2>2
<1>3. CASE ~(\E p \in Procs : ProcStep(p))
  <2>1. UNCHANGED pc /\ \A q \in Procs, e \in Deliveries, k \in Claims :
                          pc[q][e][k] # "none" => exp'[e] = exp[e]
    BY <1>3, OutsideSteps DEF Next
  <2>2. UNCHANGED invalid
    BY <1>3 DEF Next, RowStep, Materialize, TimePasses, TicketAges, Cleanup,
       DeviceStep, Register, RegisterUnlocked, Unregister, MembershipChanges, vars
  <2> QED BY <1>0, <2>1, <2>2
<1> QED BY <1>1, <1>2, <1>3 DEF ProcStep

(* The dispatchers switch a device off only for a refusal of the very      *)
(* registration it has at that moment, however late the refusal is and     *)
(* however often the device was registered since.                          *)
THEOREM NewerBinding == Spec => NewerBindingSurvives
<1>1. Init => RefusedInv
  BY DEF Init, RefusedInv
<1>2. ASSUME TypeOK, RefusedInv, [Next]_vars, pc' # pc,
             NEW r \in Rows, rows[r].active, ~rows'[r].active
      PROVE  <<r, rows[r].ver>> \in invalid
  <2>1. PICK p \in Procs, d \in Deliveries, c \in Claims :
          DisableInvalidDevice(p, d, c)
    <3>1. rows' # rows
      BY <1>2
    <3>2. ~DeviceStep /\ ~(\E u \in Users : MembershipChanges(u)) /\ vars' # vars
      BY <1>2 DEF DeviceStep, Register, RegisterUnlocked, Unregister,
                  MembershipChanges, vars
    <3>3. ~(\E d \in Deliveries : RowStep(d))
      BY <1>2 DEF RowStep, Materialize, TimePasses, TicketAges, Cleanup
    <3>4. PICK p \in Procs : ProcStep(p)
      BY <1>2, <3>2, <3>3 DEF Next
    <3>5. PICK d \in Deliveries, c \in Claims :
            DispatchStep(p, d, c) \/ DispatchFault(p, d, c) \/ PollStep(p, d, c)
      BY <3>1, <3>4 DEF ProcStep, Claim, ClaimUnflushed, ClaimReceipts, PollFails,
         Deactivate, Crash, Exit, Restart, MemoryLost, Flush, FlushThrows
    <3>6. ~DispatchFault(p, d, c) /\ ~PollStep(p, d, c)
      BY <3>1 DEF DispatchFault, PollStep, SendUnanswered, PersistFails,
         StatementFails, Reject, ReceiptDelivered, ReceiptRefused, ReceiptPending
    <3>7. DisableInvalidDevice(p, d, c)
      BY <3>1, <3>5, <3>6 DEF DispatchStep, TryTokenLock, Renew, CheckEligibility,
         MarkSuppressed, SendAccepted, SendRefused, Persist, MarkRetry, MarkDead
    <3> QED BY <3>7
  <2>2. r = exp[d].row /\ rows[r].ver = exp[d].ver
    BY <1>2, <2>1 DEF DisableInvalidDevice, Disabled, BindingStands, TypeOK
  <2> QED BY <1>2, <2>1, <2>2 DEF DisableInvalidDevice, RefusedInv
<1>3. TypeOK /\ RefusedInv /\ [Next]_vars
        => [pc' # pc => \A r \in Rows : rows[r].active /\ ~rows'[r].active
                                        => <<r, rows[r].ver>> \in invalid]_vars
  BY <1>2
<1> QED BY <1>1, <1>3, RefusedStep, TypeCorrect, BindingInvariant, PTL
        DEF Spec, NewerBindingSurvives

-----------------------------------------------------------------------------
(* The account of the pushes.                                              *)

(* Steps that start no dispatch, tell nobody and end a dispatch with the   *)
(* cycle it belongs to keep CycleInv.                                      *)
LEMMA QuietCycle ==
  ASSUME CycleInv,
         \A q \in Procs, e \in Deliveries :
           known'[q][e] \in {known[q][e], Nothing},
         \A q \in Procs, e \in Deliveries, k \in Claims :
           /\ pc'[q][e][k] \in Pushing => pc[q][e][k] \in Pushing
           /\ pc'[q][e][k] \in Unsent => pc[q][e][k] \in Unsent
           /\ pc'[q][e][k] \in Pushing => cycle'[q] = cycle[q],
         \A q \in Procs : cycle'[q] \subseteq cycle[q]
  PROVE  CycleInv'
<1>1. WorkInCycle'
  BY DEF CycleInv, WorkInCycle
<1>2. OneClaimInCycle'
  BY DEF CycleInv, OneClaimInCycle
<1>3. UnsentUnknown'
  BY DEF CycleInv, UnsentUnknown
<1> QED BY <1>1, <1>2, <1>3 DEF CycleInv

LEMMA DispatchCycle ==
  ASSUME WholeCycles, TypeOK, CycleInv,
         NEW p \in Procs, NEW d \in Deliveries, NEW c \in Claims,
         DispatchStep(p, d, c) \/ DispatchFault(p, d, c) \/ PollStep(p, d, c)
  PROVE  CycleInv'
<1>1. CASE PlainStep(p, d, c) /\ ~Reject(p, d, c)
  <2>1. PICK place \in Places : Goto(p, d, c, place) /\ Sound(p, d, c, place)
    BY <1>1, PlainEffect
  <2>2. UNCHANGED known
    BY <1>1, PlainEffect
  <2>3. \A q \in Procs, e \in Deliveries, k \in Claims :
          pc'[q][e][k] = IF q = p /\ e = d /\ k = c THEN place ELSE pc[q][e][k]
    BY <2>1 DEF Goto, TypeOK
  <2>4. UNCHANGED cycle
    BY <1>1 DEF PlainStep, PollStep, TryTokenLock, Renew, CheckEligibility,
       MarkSuppressed, SendRefused, MarkRetry, MarkDead, DisableInvalidDevice,
       SendUnanswered, StatementFails, ReceiptDelivered, ReceiptRefused,
       ReceiptPending
  <2> QED BY <2>1, <2>2, <2>3, <2>4, QuietCycle DEF Sound
<1>2. CASE Reject(p, d, c)
  <2>1. PICK x \in Deliveries : Deliveries = {x}
    BY <1>2 DEF Reject, WholeCycles
  <2>2. /\ Goto(p, d, c, "none") /\ pc[p][d][c] \in Pushing
        /\ UNCHANGED known
        /\ cycle' = [cycle EXCEPT ![p] = IF <<d, c>> \in @ THEN {} ELSE @]
    BY <1>2 DEF Reject, Pushing
  <2>3. \A q \in Procs, e \in Deliveries, k \in Claims :
          pc'[q][e][k] = IF q = p /\ e = d /\ k = c THEN "none" ELSE pc[q][e][k]
    BY <2>2 DEF Goto, TypeOK
  <2>4. "none" \notin Pushing /\ "none" \notin Unsent
    BY DEF Pushing, Holding, Unsent
  <2>5. \A q \in Procs : /\ cycle'[q] \subseteq cycle[q]
                         /\ q # p => cycle'[q] = cycle[q]
    BY <2>2 DEF TypeOK
  <2>6. \A e \in Deliveries, k \in Claims : pc'[p][e][k] \notin Pushing
    <3> SUFFICES ASSUME NEW k \in Claims, pc'[p][d][k] \in Pushing
                 PROVE  FALSE
      BY <2>1
    <3>1. k # c /\ pc[p][d][k] \in Pushing
      BY <2>3, <2>4
    <3>2. <<d, k>> \in cycle[p] /\ <<d, c>> \in cycle[p]
      BY <2>2, <3>1 DEF CycleInv, WorkInCycle
    <3> QED BY <3>1, <3>2 DEF CycleInv, OneClaimInCycle
  <2>7. \A q \in Procs, e \in Deliveries, k \in Claims :
          pc'[q][e][k] \in Pushing => cycle'[q] = cycle[q]
    BY <2>5, <2>6
  <2> QED BY <2>2, <2>3, <2>4, <2>5, <2>7, QuietCycle
<1>3. CASE SendAccepted(p, d, c)
  <2>1. \A q \in Procs, e \in Deliveries, k \in Claims :
          pc'[q][e][k] = IF q = p /\ e = d /\ k = c THEN "persist" ELSE pc[q][e][k]
    BY <1>3 DEF SendAccepted, Goto, TypeOK
  <2>2. \A q \in Procs, e \in Deliveries :
          ~(q = p /\ e = d) => known'[q][e] = known[q][e]
    BY <1>3 DEF SendAccepted, TypeOK
  <2>3. UNCHANGED cycle /\ pc[p][d][c] = "send"
    BY <1>3 DEF SendAccepted
  <2>4. /\ "persist" \in Pushing /\ "send" \in Pushing /\ "persist" \notin Unsent
        /\ Unsent \subseteq Pushing
    BY DEF Pushing, Holding, Unsent
  <2>5. \A k \in Claims : pc'[p][d][k] \notin Unsent
    <3> SUFFICES ASSUME NEW k \in Claims, pc'[p][d][k] \in Unsent
                 PROVE  FALSE
      OBVIOUS
    <3>1. k # c /\ pc[p][d][k] \in Pushing
      BY <2>1, <2>4
    <3>2. <<d, k>> \in cycle[p] /\ <<d, c>> \in cycle[p]
      BY <2>3, <2>4, <3>1 DEF CycleInv, WorkInCycle
    <3> QED BY <3>1, <3>2 DEF CycleInv, OneClaimInCycle
  <2>6. WorkInCycle'
    BY <2>1, <2>3, <2>4 DEF CycleInv, WorkInCycle
  <2>7. OneClaimInCycle'
    BY <2>3 DEF CycleInv, OneClaimInCycle
  <2>8. UnsentUnknown'
    BY <2>1, <2>2, <2>4, <2>5 DEF CycleInv, UnsentUnknown
  <2> QED BY <2>6, <2>7, <2>8 DEF CycleInv
<1>4. CASE Persist(p, d, c) \/ PersistFails(p, d, c)
  <2>1. \A q \in Procs, e \in Deliveries, k \in Claims :
          pc'[q][e][k] \in {pc[q][e][k], "none"}
    <3>1. pc' = [pc EXCEPT ![p][d][c] = "none"]
      BY <1>4 DEF Persist, PersistFails, Goto
    <3>2. pc \in [Procs -> [Deliveries -> [Claims -> Places]]]
      BY DEF TypeOK
    <3> QED BY <3>1, <3>2
  <2>2. \A q \in Procs, e \in Deliveries : known'[q][e] \in {known[q][e], Nothing}
    <3>1. known' = known \/ known' = [known EXCEPT ![p][d] = Nothing]
      BY <1>4 DEF Persist, PersistFails, PersistKnown
    <3>2. known \in [Procs -> [Deliveries -> [claim : Nat, ticket : Nat]]]
      BY DEF TypeOK
    <3> QED BY <3>1, <3>2
  <2>3. UNCHANGED cycle
    BY <1>4 DEF Persist, PersistFails
  <2>4. "none" \notin Pushing /\ "none" \notin Unsent
    BY DEF Pushing, Holding, Unsent
  <2> QED BY <2>1, <2>2, <2>3, <2>4, QuietCycle
<1> QED BY <1>1, <1>2, <1>3, <1>4 DEF DispatchStep, DispatchFault, PlainStep

LEMMA ProcCycle ==
  ASSUME WholeCycles, TypeOK, SendInv, CycleInv, NEW p \in Procs, ProcStep(p)
  PROVE  CycleInv'
<1>0. /\ "none" \notin Pushing /\ "none" \notin Unsent
      /\ "poll" \notin Pushing /\ "poll" \notin Unsent
      /\ Unsent \subseteq Pushing
  BY DEF Pushing, Holding, Unsent
<1>1. CASE Claim(p)
  <2>1. PICK S \in Batch(ClaimableNow, 5) :
          /\ pc' = [pc EXCEPT ![p] =
                      [d \in Deliveries |-> [c \in Claims |->
                         IF d \in S /\ c = led[d].att + led[d].ratt + 1
                         THEN "lock" ELSE pc[p][d][c]]]]
          /\ cycle' = [cycle EXCEPT ![p] =
                         {<<d, led[d].att + led[d].ratt + 1>> : d \in S}]
    BY <1>1 DEF Claim, ClaimUnflushed
  <2>2. /\ UNCHANGED known
        /\ \A d \in Deliveries : known[p][d] = Nothing
        /\ \A j \in cycle[p] : pc[p][j[1]][j[2]] = "none"
    BY <1>1 DEF Claim, ClaimUnflushed, Dispatching
  <2>3. \A q \in Procs, e \in Deliveries, k \in Claims :
          pc'[q][e][k] = IF q = p /\ e \in S /\ k = led[e].att + led[e].ratt + 1
                         THEN "lock" ELSE pc[q][e][k]
    BY <2>1 DEF TypeOK
  <2>4. \A q \in Procs :
          cycle'[q] = IF q = p THEN {<<d, led[d].att + led[d].ratt + 1>> : d \in S}
                      ELSE cycle[q]
    BY <2>1 DEF TypeOK
  <2>5. \A e \in Deliveries, k \in Claims : pc[p][e][k] \notin Pushing
    <3> SUFFICES ASSUME NEW e \in Deliveries, NEW k \in Claims,
                        pc[p][e][k] \in Pushing
                 PROVE  FALSE
      OBVIOUS
    <3>1. <<e, k>> \in cycle[p]
      BY DEF CycleInv, WorkInCycle
    <3>2. pc[p][e][k] = "none"
      BY <2>2, <3>1
    <3> QED BY <1>0, <3>2
  <2>6. WorkInCycle'
    <3> SUFFICES ASSUME NEW q \in Procs, NEW e \in Deliveries, NEW k \in Claims,
                        pc'[q][e][k] \in Pushing
                 PROVE  <<e, k>> \in cycle'[q]
      BY DEF WorkInCycle
    <3>1. CASE q = p
      <4>1. e \in S /\ k = led[e].att + led[e].ratt + 1
        BY <2>3, <2>5, <3>1
      <4> QED BY <2>4, <3>1, <4>1
    <3>2. CASE q # p
      BY <2>3, <2>4, <3>2 DEF CycleInv, WorkInCycle
    <3> QED BY <3>1, <3>2
  <2>7. OneClaimInCycle'
    <3> SUFFICES ASSUME NEW q \in Procs, NEW e \in Deliveries,
                        NEW c \in Claims, NEW k \in Claims,
                        <<e, c>> \in cycle'[q], <<e, k>> \in cycle'[q]
                 PROVE  c = k
      BY DEF OneClaimInCycle
    <3>1. CASE q = p
      <4>1. PICK x \in S : <<e, c>> = <<x, led[x].att + led[x].ratt + 1>>
        BY <2>4, <3>1
      <4>2. PICK y \in S : <<e, k>> = <<y, led[y].att + led[y].ratt + 1>>
        BY <2>4, <3>1
      <4> QED BY <4>1, <4>2
    <3>2. CASE q # p
      BY <2>4, <3>2 DEF CycleInv, OneClaimInCycle
    <3> QED BY <3>1, <3>2
  <2>8. UnsentUnknown'
    BY <1>0, <2>2, <2>3 DEF CycleInv, UnsentUnknown
  <2> QED BY <2>6, <2>7, <2>8 DEF CycleInv
<1>2. CASE ClaimReceipts(p)
  <2>1. PICK S \in Batch(Pollable, 100) :
          pc' = [pc EXCEPT ![p] =
                   [d \in Deliveries |-> [c \in Claims |->
                      IF d \in S /\ c = led[d].att + led[d].ratt + 1
                      THEN "poll" ELSE pc[p][d][c]]]]
    BY <1>2 DEF ClaimReceipts
  <2>2. \A q \in Procs, e \in Deliveries, k \in Claims :
          pc'[q][e][k] \in {pc[q][e][k], "poll"}
    BY <2>1 DEF TypeOK
  <2>3. UNCHANGED <<known, cycle>>
    BY <1>2 DEF ClaimReceipts
  <2> QED BY <1>0, <2>2, <2>3, QuietCycle
<1>3. CASE PollFails(p)
  <2>1. \A q \in Procs, e \in Deliveries, k \in Claims :
          pc'[q][e][k] \in {pc[q][e][k], "none"}
    BY <1>3 DEF PollFails, TypeOK
  <2>2. UNCHANGED <<known, cycle>>
    BY <1>3 DEF PollFails
  <2> QED BY <1>0, <2>1, <2>2, QuietCycle
<1>4. CASE Deactivate(p) \/ Restart(p)
  BY <1>4 DEF Deactivate, Restart, CycleInv, WorkInCycle, OneClaimInCycle,
              UnsentUnknown
<1>5. CASE Crash(p) \/ Exit(p)
  <2>1. /\ pc' = [pc EXCEPT ![p] = [d \in Deliveries |-> [c \in Claims |-> "none"]]]
        /\ known' = [known EXCEPT ![p] = [d \in Deliveries |-> Nothing]]
        /\ cycle' = [cycle EXCEPT ![p] = {}]
    BY <1>5 DEF Crash, Exit, MemoryLost
  <2>2. \A q \in Procs, e \in Deliveries : known'[q][e] \in {known[q][e], Nothing}
    BY <2>1 DEF TypeOK
  <2>3. \A q \in Procs, e \in Deliveries, k \in Claims :
          pc'[q][e][k] = IF q = p THEN "none" ELSE pc[q][e][k]
    BY <2>1 DEF TypeOK
  <2>4. \A q \in Procs : cycle'[q] = IF q = p THEN {} ELSE cycle[q]
    BY <2>1 DEF TypeOK
  <2> QED BY <1>0, <2>2, <2>3, <2>4, QuietCycle
<1>6. CASE \E d \in Deliveries : Flush(p, d) \/ FlushThrows(p, d)
  <2>1. PICK d \in Deliveries : Flush(p, d) \/ FlushThrows(p, d)
    BY <1>6
  <2>2. \A q \in Procs, e \in Deliveries : known'[q][e] \in {known[q][e], Nothing}
    <3>1. known' = known \/ known' = [known EXCEPT ![p][d] = Nothing]
      BY <2>1 DEF Flush, FlushThrows, PersistKnown
    <3>2. known \in [Procs -> [Deliveries -> [claim : Nat, ticket : Nat]]]
      BY DEF TypeOK
    <3> QED BY <3>1, <3>2
  <2>3. UNCHANGED <<pc, cycle>>
    BY <2>1 DEF Flush, FlushThrows
  <2> QED BY <2>2, <2>3, QuietCycle
<1>7. CASE \E d \in Deliveries, c \in Claims :
              DispatchStep(p, d, c) \/ DispatchFault(p, d, c) \/ PollStep(p, d, c)
  BY <1>7, DispatchCycle
<1> QED BY <1>1, <1>2, <1>3, <1>4, <1>5, <1>6, <1>7 DEF ProcStep

LEMMA CycleStep ==
  ASSUME WholeCycles, TypeOK, BindInv, SendInv, CycleInv, [Next]_vars
  PROVE  CycleInv'
<1>1. CASE \E p \in Procs : ProcStep(p)
  BY <1>1, ProcCycle
<1>2. CASE ~(\E p \in Procs : ProcStep(p))
  <2>1. UNCHANGED <<pc, known, cycle>>
    BY <1>2, OutsideSteps DEF Next
  <2> QED BY <2>1 DEF CycleInv, WorkInCycle, OneClaimInCycle, UnsentUnknown
<1> QED BY <1>1, <1>2

(* Who still has to tell the ledger of a push.                             *)
Told(d) == {p \in Procs : Unpersisted(p, d)}

Account(d) ==
  accepted[d] = Cardinality(Told(d)) + ambiguous[d]
                + (IF led[d].ticket = 0 THEN 0 ELSE 1)

LEMMA ToldFinite ==
  ASSUME NEW d \in Deliveries
  PROVE  IsFiniteSet(Told(d)) /\ Cardinality(Told(d)) \in Nat
<1>1. Told(d) \in SUBSET Procs
  BY DEF Told
<1>2. IsFiniteSet(Told(d))
  BY <1>1, ChatPushAssumption, FS_Subset
<1> QED BY <1>2, FS_CardinalityType

(* Steps after which each process knows what it did, or forgot what the    *)
(* ledger has, and that send nothing.                                      *)
LEMMA QuietAccount ==
  ASSUME NEW d \in Deliveries, Account(d),
         \A q \in Procs : Unpersisted(q, d)' <=> Unpersisted(q, d),
         accepted'[d] = accepted[d], ambiguous'[d] = ambiguous[d],
         led'[d].ticket = 0 <=> led[d].ticket = 0
  PROVE  Account(d)'
<1>1. Told(d)' = Told(d)
  BY DEF Told
<1> QED BY <1>1 DEF Account

(* A push the provider took, and its answer lost: the account has one more *)
(* on either side.  The answer received: one more process was told.        *)
LEMMA SendAccount ==
  ASSUME TypeOK, SendInv, CycleInv,
         NEW p \in Procs, NEW d \in Deliveries, NEW c \in Claims,
         SendAccepted(p, d, c) \/ SendUnanswered(p, d, c),
         NEW e \in Deliveries, Account(e)
  PROVE  Account(e)'
<1>0. /\ accepted[d] \in Nat /\ ambiguous[d] \in Nat
      /\ led[d].ticket = 0 /\ known[p][d] = Nothing /\ UNCHANGED led
  BY DEF TypeOK, SendAccepted, SendUnanswered, SendInv, SendIsYoungest, CycleInv,
         UnsentUnknown, Unsent
<1>1. CASE e # d
  <2>1. \A q \in Procs : known'[q][e] = known[q][e]
    <3>1. \/ known' = known
          \/ known' = [known EXCEPT ![p][d] = [claim |-> c, ticket |-> accepted[d] + 1]]
      BY DEF SendAccepted, SendUnanswered
    <3>2. known \in [Procs -> [Deliveries -> [claim : Nat, ticket : Nat]]]
      BY DEF TypeOK
    <3> QED BY <1>1, <3>1, <3>2
  <2>2. accepted'[e] = accepted[e] /\ ambiguous'[e] = ambiguous[e]
    BY <1>1 DEF SendAccepted, SendUnanswered, TypeOK
  <2> QED BY <1>0, <2>1, <2>2, QuietAccount DEF Unpersisted
<1>2. CASE e = d /\ SendUnanswered(p, d, c)
  <2>1. /\ accepted'[d] = accepted[d] + 1 /\ ambiguous'[d] = ambiguous[d] + 1
        /\ UNCHANGED <<led, known>>
    BY <1>2 DEF SendUnanswered, TypeOK
  <2>2. Told(d)' = Told(d)
    BY <2>1 DEF Told, Unpersisted
  <2> QED BY <1>0, <1>2, <2>1, <2>2, ToldFinite DEF Account
<1>3. CASE e = d /\ SendAccepted(p, d, c)
  <2>1. /\ accepted'[d] = accepted[d] + 1
        /\ UNCHANGED <<led, ambiguous>>
    BY <1>3 DEF SendAccepted, TypeOK
  <2>2. \A q \in Procs :
          known'[q][d] = IF q = p THEN [claim |-> c, ticket |-> accepted[d] + 1]
                         ELSE known[q][d]
    BY <1>3 DEF SendAccepted, TypeOK
  <2>3. [claim |-> c, ticket |-> accepted[d] + 1].ticket # 0
    BY <1>0
  <2>4. Unpersisted(p, d)' /\ ~Unpersisted(p, d)
    BY <1>0, <2>2, <2>3 DEF Unpersisted, Nothing
  <2>5. Told(d)' = Told(d) \cup {p} /\ p \notin Told(d)
    BY <1>0, <2>2, <2>4 DEF Told, Unpersisted
  <2>6. Cardinality(Told(d)') = Cardinality(Told(d)) + 1
    BY <2>5, ToldFinite, FS_AddElement
  <2> QED BY <1>0, <1>3, <2>1, <2>6, ToldFinite DEF Account
<1> QED BY <1>1, <1>2, <1>3

(* A ticket recorded: its process need tell no more, and no other process  *)
(* has that ticket.                                                        *)
LEMMA PersistAccount ==
  ASSUME TypeOK, SendInv, NEW p \in Procs, NEW d \in Deliveries,
         known[p][d] # Nothing,
         PersistKnown(p, d) \/ (PersistThrows(p, d) /\ UNCHANGED <<known, conflict>>),
         UNCHANGED <<accepted, ambiguous>>,
         NEW e \in Deliveries, Account(e)
  PROVE  Account(e)'
<1>0. /\ led \in [Deliveries -> Ledger]
      /\ known \in [Procs -> [Deliveries -> [claim : Nat, ticket : Nat]]]
      /\ known[p][d].ticket # 0 /\ accepted[d] \in Nat /\ ambiguous[d] \in Nat
  BY DEF TypeOK, SendInv, KnownWasSent
<1>1. known' = known \/ known' = [known EXCEPT ![p][d] = Nothing]
  BY DEF PersistKnown
<1>2. \A q \in Procs, f \in Deliveries :
        ~(q = p /\ f = d) => known'[q][f] = known[q][f]
  BY <1>0, <1>1
<1>3. CASE led'[e].ticket = led[e].ticket
  <2>1. ASSUME e = d
        PROVE  Unpersisted(p, d)' <=> Unpersisted(p, d)
    <3>1. CASE known'[p][d] = known[p][d]
      BY <1>3, <2>1, <3>1 DEF Unpersisted
    <3>2. CASE known'[p][d] # known[p][d]
      <4>1. known'[p][d] = Nothing
        BY <1>0, <1>1, <3>2
      <4>2. led[d].ticket = known[p][d].ticket
        <5>1. CASE Fenced(d, known[p][d].claim)
          <6>1. led' = [led EXCEPT ![d] = [Released(@, "ticket_accepted") EXCEPT
                                             !.ticket = known[p][d].ticket]]
            BY <3>2, <5>1 DEF PersistKnown
          <6>2. led[d] \in Ledger
            BY <1>0
          <6>3. led'[d].ticket = known[p][d].ticket
            BY <1>0, <6>1, <6>2 DEF Released, Ledger
          <6> QED BY <1>3, <2>1, <6>3
        <5>2. CASE ~Fenced(d, known[p][d].claim)
          BY <3>2, <5>2 DEF PersistKnown
        <5> QED BY <5>1, <5>2
      <4> QED BY <4>1, <4>2 DEF Unpersisted
    <3> QED BY <3>1, <3>2
  <2>2. \A q \in Procs : Unpersisted(q, e)' <=> Unpersisted(q, e)
    BY <1>2, <1>3, <2>1 DEF Unpersisted
  <2> QED BY <1>3, <2>2, QuietAccount
<1>4. CASE led'[e].ticket # led[e].ticket
  <2>1. /\ e = d /\ led[d].ticket = 0 /\ led'[d].ticket = known[p][d].ticket
    BY <1>4, PersistEffect
  <2>2. Unpersisted(p, d) /\ ~Unpersisted(p, d)'
    BY <1>0, <1>1, <2>1 DEF Unpersisted
  <2>3. \A q \in Procs \ {p} : Unpersisted(q, d)' <=> Unpersisted(q, d)
    <3> SUFFICES ASSUME NEW q \in Procs \ {p}
                 PROVE  Unpersisted(q, d)' <=> Unpersisted(q, d)
      OBVIOUS
    <3>1. known'[q][d] = known[q][d]
      BY <1>2
    <3>2. CASE known[q][d] = Nothing
      BY <3>1, <3>2 DEF Unpersisted
    <3>3. CASE known[q][d] # Nothing
      <4>1. known[q][d].ticket # known[p][d].ticket /\ known[q][d].ticket # 0
        BY <3>3 DEF SendInv, OwnTickets, KnownWasSent
      <4> QED BY <2>1, <3>1, <3>3, <4>1 DEF Unpersisted
    <3> QED BY <3>2, <3>3
  <2>4. Told(d)' = Told(d) \ {p} /\ p \in Told(d)
    BY <2>2, <2>3 DEF Told
  <2>5. Cardinality(Told(d)') = Cardinality(Told(d)) - 1
    BY <2>4, ToldFinite, FS_RemoveElement
  <2>6. /\ accepted'[d] = accepted[d] /\ ambiguous'[d] = ambiguous[d]
        /\ led'[d].ticket # 0 /\ Cardinality(Told(d)) \in Nat
    BY <1>0, <2>1, ToldFinite
  <2>7. accepted[d] = Cardinality(Told(d)) + ambiguous[d]
    BY <1>0, <2>1, <2>6 DEF Account
  <2>8. accepted'[d] = Cardinality(Told(d)') + ambiguous'[d] + 1
    <3> HIDE DEF Told
    <3>1. ambiguous[d] \in Nat
      BY <1>0
    <3> QED BY <2>5, <2>6, <2>7, <3>1
  <2> QED BY <2>1, <2>6, <2>8 DEF Account
<1> QED BY <1>3, <1>4

(* A process that ends takes along the tickets only it knew of; they are   *)
(* counted as lost.                                                        *)
LEMMA LostAccount ==
  ASSUME TypeOK, NEW p \in Procs, MemoryLost(p), NEW d \in Deliveries, Account(d)
  PROVE  Account(d)'
<1>0. /\ \A q \in Procs : known'[q][d] = IF q = p THEN Nothing ELSE known[q][d]
      /\ ambiguous'[d] = IF Unpersisted(p, d) THEN ambiguous[d] + 1 ELSE ambiguous[d]
      /\ UNCHANGED <<led, accepted>>
  BY DEF MemoryLost, TypeOK
<1>1. ~Unpersisted(p, d)' /\ \A q \in Procs \ {p} :
                               Unpersisted(q, d)' <=> Unpersisted(q, d)
  BY <1>0 DEF Unpersisted
<1>2. Told(d)' = Told(d) \ {p} /\ (p \in Told(d) <=> Unpersisted(p, d))
  BY <1>1 DEF Told
<1>3. Cardinality(Told(d)') = IF Unpersisted(p, d) THEN Cardinality(Told(d)) - 1
                              ELSE Cardinality(Told(d))
  BY <1>2, ToldFinite, FS_RemoveElement
<1>4. accepted[d] \in Nat /\ ambiguous[d] \in Nat
  BY DEF TypeOK
<1> QED BY <1>0, <1>3, <1>4, ToldFinite DEF Account

LEMMA DispatchAccount ==
  ASSUME TypeOK, SendInv, CycleInv,
         NEW p \in Procs, NEW d \in Deliveries, NEW c \in Claims,
         DispatchStep(p, d, c) \/ DispatchFault(p, d, c) \/ PollStep(p, d, c),
         NEW e \in Deliveries, Account(e)
  PROVE  Account(e)'
<1>1. CASE SendAccepted(p, d, c) \/ SendUnanswered(p, d, c)
  BY <1>1, SendAccount
<1>2. CASE Persist(p, d, c) \/ PersistFails(p, d, c)
  <2>1. UNCHANGED <<accepted, ambiguous>>
    BY <1>2 DEF Persist, PersistFails
  <2>2. CASE UNCHANGED <<led, known>>
    BY <2>1, <2>2, QuietAccount DEF Unpersisted
  <2>3. CASE ~UNCHANGED <<led, known>>
    <3>1. /\ known[p][d] # Nothing
          /\ \/ PersistKnown(p, d)
             \/ PersistThrows(p, d) /\ UNCHANGED <<known, conflict>>
      BY <1>2, <2>3 DEF Persist, PersistFails
    <3> QED BY <2>1, <3>1, PersistAccount
  <2> QED BY <2>2, <2>3
<1>3. CASE PlainStep(p, d, c) /\ ~SendUnanswered(p, d, c)
  <2>1. led'[e].ticket = led[e].ticket /\ UNCHANGED known
    BY <1>3, PlainEffect DEF Keeps
  <2>2. UNCHANGED <<accepted, ambiguous>>
    BY <1>3 DEF PlainStep, PollStep, TryTokenLock, Renew, CheckEligibility,
       MarkSuppressed, SendRefused, MarkRetry, MarkDead, DisableInvalidDevice,
       StatementFails, Reject, ReceiptDelivered, ReceiptRefused, ReceiptPending
  <2> QED BY <2>1, <2>2, QuietAccount DEF Unpersisted
<1> QED BY <1>1, <1>2, <1>3 DEF DispatchStep, DispatchFault, PlainStep

LEMMA AccountStep ==
  ASSUME TypeOK, BindInv, SendInv, CycleInv, [Next]_vars,
         NEW e \in Deliveries, Account(e)
  PROVE  Account(e)'
<1>1. ASSUME NEW p \in Procs, ProcStep(p)
      PROVE  Account(e)'
  <2>1. CASE Claim(p)
    <3>1. PICK S \in Batch(ClaimableNow, 5) :
            led' = [d \in Deliveries |->
                      IF d \in S THEN [Claimed(led[d]) EXCEPT !.att = @ + 1]
                      ELSE led[d]]
      BY <2>1 DEF Claim, ClaimUnflushed
    <3>2. S \in SUBSET Deliveries
      BY DEF Batch, ClaimableNow
    <3>3. led'[e].ticket = led[e].ticket
      BY <3>1, <3>2, ClaimedRows
    <3>4. UNCHANGED <<known, accepted, ambiguous>>
      BY <2>1 DEF Claim, ClaimUnflushed
    <3> QED BY <3>3, <3>4, QuietAccount DEF Unpersisted
  <2>2. CASE ClaimReceipts(p)
    <3>1. PICK S \in Batch(Pollable, 100) :
            led' = [d \in Deliveries |->
                      IF d \in S THEN [Claimed(led[d]) EXCEPT !.ratt = @ + 1]
                      ELSE led[d]]
      BY <2>2 DEF ClaimReceipts
    <3>2. S \in SUBSET Deliveries
      BY DEF Batch, Pollable
    <3>3. led'[e].ticket = led[e].ticket
      BY <3>1, <3>2, ClaimedRows
    <3>4. UNCHANGED <<known, accepted, ambiguous>>
      BY <2>2 DEF ClaimReceipts
    <3> QED BY <3>3, <3>4, QuietAccount DEF Unpersisted
  <2>3. CASE PollFails(p) \/ Deactivate(p) \/ Restart(p)
    <3>1. UNCHANGED <<led, known, accepted, ambiguous>>
      BY <2>3 DEF PollFails, Deactivate, Restart
    <3> QED BY <3>1, QuietAccount DEF Unpersisted
  <2>4. CASE Crash(p) \/ Exit(p)
    BY <2>4, LostAccount DEF Crash, Exit
  <2>5. CASE \E d \in Deliveries : Flush(p, d) \/ FlushThrows(p, d)
    BY <2>5, PersistAccount DEF Flush, FlushThrows
  <2>6. CASE \E d \in Deliveries, c \in Claims :
               DispatchStep(p, d, c) \/ DispatchFault(p, d, c) \/ PollStep(p, d, c)
    BY <2>6, DispatchAccount
  <2> QED BY <1>1, <2>1, <2>2, <2>3, <2>4, <2>5, <2>6 DEF ProcStep
<1>2. CASE ~(\E p \in Procs : ProcStep(p))
  <2>1. UNCHANGED <<known, accepted, ambiguous>> /\ led'[e].ticket = led[e].ticket
    BY <1>2, OutsideSteps DEF Next, Keeps
  <2> QED BY <2>1, QuietAccount DEF Unpersisted
<1> QED BY <1>1, <1>2

(* The cycles of the processes are in order, whatever steps are taken;     *)
(* where dispatches may be rejected, for one row at a time.                *)
THEOREM CyclesInOrder ==
  ASSUME WholeCycles
  PROVE  Spec => []CycleInv
<1>1. Init => CycleInv
  BY DEF Init, CycleInv, WorkInCycle, OneClaimInCycle, UnsentUnknown, Pushing,
         Holding
<1>2. TypeOK /\ BindInv /\ SendInv /\ CycleInv /\ [Next]_vars => CycleInv'
  BY CycleStep
<1> QED BY <1>1, <1>2, TypeCorrect, BindingInvariant, SendInvariant, PTL DEF Spec

(* Every push the provider took is in the ledger, with the process that    *)
(* was told or counted as lost, for any number of processes and rows;      *)
(* where dispatches may be rejected, for one row at a time.                *)
THEOREM PushesAccounted ==
  ASSUME WholeCycles
  PROVE  Spec => []EveryPushAccountedFor
<1> DEFINE Accounts == \A d \in Deliveries : Account(d)
<1>1. Init => Accounts
  <2> SUFFICES ASSUME Init, NEW d \in Deliveries
               PROVE  Account(d)
    OBVIOUS
  <2>1. Told(d) = {}
    BY DEF Init, Told, Unpersisted
  <2>2. Cardinality(Told(d)) = 0
    BY <2>1, FS_EmptySet
  <2> QED BY <2>2 DEF Init, Account
<1>2. TypeOK /\ BindInv /\ SendInv /\ CycleInv /\ Accounts /\ [Next]_vars
      => Accounts'
  BY AccountStep
<1>3. Accounts => EveryPushAccountedFor
  BY DEF EveryPushAccountedFor, Account, Told
<1> QED BY <1>1, <1>2, <1>3, TypeCorrect, BindingInvariant, SendInvariant,
           CyclesInOrder, PTL DEF Spec

(* What the push ledger promises, for any number of processes, devices,    *)
(* claims and faults: a stored ticket stands and ends the sending, and no  *)
(* push the provider took goes missing.                                    *)
THEOREM PushesKept ==
  ASSUME WholeCycles
  PROVE  Spec => PushesHold
BY TypeCorrect, NoSendOnceTicketed, PushesAccounted, SendInvariant, CyclesInOrder,
   TicketsStand, PTL DEF PushesHold

(* A process hears of a push only while the row has no ticket.             *)
LEMMA KnownStep ==
  ASSUME TypeOK, BindInv, SendInv, [Next]_vars,
         NEW q \in Procs, NEW e \in Deliveries
  PROVE  known'[q][e] \in {known[q][e], Nothing} \/ led'[e].ticket = 0
<1>0. known \in [Procs -> [Deliveries -> [claim : Nat, ticket : Nat]]]
  BY DEF TypeOK
<1>1. ASSUME NEW p \in Procs, NEW d \in Deliveries, NEW c \in Claims,
             DispatchStep(p, d, c) \/ DispatchFault(p, d, c) \/ PollStep(p, d, c)
      PROVE  known'[q][e] \in {known[q][e], Nothing} \/ led'[e].ticket = 0
  <2>1. CASE SendAccepted(p, d, c)
    <3>1. led'[d].ticket = 0
      BY <2>1 DEF SendAccepted, SendInv, SendIsYoungest
    <3>2. known' = [known EXCEPT ![p][d] = [claim |-> c, ticket |-> accepted[d] + 1]]
      BY <2>1 DEF SendAccepted
    <3> QED BY <1>0, <3>1, <3>2
  <2>2. CASE Persist(p, d, c) \/ PersistFails(p, d, c)
    <3>1. known' = known \/ known' = [known EXCEPT ![p][d] = Nothing]
      BY <2>2 DEF Persist, PersistFails, PersistKnown
    <3> QED BY <1>0, <3>1
  <2>3. CASE PlainStep(p, d, c)
    BY <2>3, PlainEffect
  <2> QED BY <1>1, <2>1, <2>2, <2>3 DEF DispatchStep, DispatchFault, PlainStep
<1>2. ASSUME NEW p \in Procs, Claim(p) \/ ClaimReceipts(p) \/ PollFails(p)
                              \/ Deactivate(p) \/ Restart(p)
      PROVE  UNCHANGED known
  BY <1>2 DEF Claim, ClaimUnflushed, ClaimReceipts, PollFails, Deactivate, Restart
<1>3. ASSUME NEW p \in Procs, Crash(p) \/ Exit(p)
      PROVE  known'[q][e] \in {known[q][e], Nothing}
  <2>1. known' = [known EXCEPT ![p] = [d \in Deliveries |-> Nothing]]
    BY <1>3 DEF Crash, Exit, MemoryLost
  <2> QED BY <1>0, <2>1
<1>4. ASSUME NEW p \in Procs, NEW d \in Deliveries, Flush(p, d) \/ FlushThrows(p, d)
      PROVE  known'[q][e] \in {known[q][e], Nothing}
  <2>1. known' = known \/ known' = [known EXCEPT ![p][d] = Nothing]
    BY <1>4 DEF Flush, FlushThrows, PersistKnown
  <2> QED BY <1>0, <2>1
<1>5. CASE ~(\E p \in Procs : ProcStep(p))
  BY <1>5, OutsideSteps DEF Next
<1> QED BY <1>1, <1>2, <1>3, <1>4, <1>5 DEF ProcStep

(* With one process a push is repeated only after an answer was lost:      *)
(* accepted pushes exceed the lost answers by one at most.                 *)
THEOREM PushedOnce ==
  ASSUME WholeCycles, NEW process, Procs = {process}
  PROVE  Spec => []AtMostOnce
<1> DEFINE Agrees == \A d \in Deliveries :
             known[process][d] # Nothing /\ led[d].ticket # 0
               => known[process][d].ticket = led[d].ticket
<1>1. Init => Agrees
  BY DEF Init
<1>2. TypeOK /\ BindInv /\ SendInv /\ Agrees /\ [Next]_vars => Agrees'
  <2> SUFFICES ASSUME TypeOK, BindInv, SendInv, Agrees, [Next]_vars,
                      NEW d \in Deliveries,
                      known'[process][d] # Nothing, led'[d].ticket # 0
               PROVE  known'[process][d].ticket = led'[d].ticket
    OBVIOUS
  <2>1. known'[process][d] = known[process][d]
    BY KnownStep
  <2>2. CASE led'[d].ticket = led[d].ticket
    BY <2>1, <2>2
  <2>3. CASE led'[d].ticket # led[d].ticket
    BY <2>1, <2>3, TicketStep DEF Recorded
  <2> QED BY <2>2, <2>3
<1>3. TypeOK /\ EveryPushAccountedFor /\ Agrees => AtMostOnce
  <2> SUFFICES ASSUME TypeOK, EveryPushAccountedFor, Agrees, NEW d \in Deliveries
               PROVE  accepted[d] <= 1 + ambiguous[d]
    BY DEF AtMostOnce
  <2>0. /\ accepted[d] = Cardinality(Told(d)) + ambiguous[d]
                         + (IF led[d].ticket = 0 THEN 0 ELSE 1)
        /\ accepted[d] \in Nat /\ ambiguous[d] \in Nat
    BY DEF EveryPushAccountedFor, Told, TypeOK
  <2>1. CASE Told(d) = {}
    <3>1. Cardinality(Told(d)) = 0
      BY <2>1, FS_EmptySet
    <3> QED BY <2>0, <3>1
  <2>2. CASE Told(d) # {}
    <3>1. Told(d) = {process} /\ Unpersisted(process, d)
      BY <2>2 DEF Told
    <3>2. Cardinality(Told(d)) = 1
      BY <3>1, FS_Singleton
    <3>3. led[d].ticket = 0
      BY <3>1 DEF Unpersisted
    <3> QED BY <2>0, <3>2, <3>3
  <2> QED BY <2>1, <2>2
<1> QED BY <1>1, <1>2, <1>3, TypeCorrect, BindingInvariant, SendInvariant,
           PushesAccounted, PTL DEF Spec
=============================================================================
