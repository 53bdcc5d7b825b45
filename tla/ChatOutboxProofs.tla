-------------------------- MODULE ChatOutboxProofs --------------------------
(***************************************************************************)
(* Theorems about ChatOutbox, for every number of processes, rows, claims  *)
(* and faults, and about ChatMessages, whose transactions write the rows.  *)
(***************************************************************************)
EXTENDS ChatMessages, TLAPS

-----------------------------------------------------------------------------
(* Updates of a row give a row.                                            *)
LEMMA RowUpdates ==
  ASSUME NEW row \in Row
  PROVE  /\ \A s \in Statuses : [row EXCEPT !.st = s] \in Row
         /\ \A s \in Statuses, r \in BOOLEAN :
              [row EXCEPT !.st = s, !.ripe = r] \in Row
         /\ \A r \in BOOLEAN : [row EXCEPT !.ripe = r] \in Row
         /\ \A r \in BOOLEAN : [row EXCEPT !.iripe = r] \in Row
         /\ [row EXCEPT !.st = "processing", !.att = @ + 1, !.ripe = FALSE]
              \in Row
         /\ [row EXCEPT !.intent = "processing", !.iatt = @ + 1,
                        !.iclaim = row.iatt + 1, !.iripe = FALSE] \in Row
         /\ [row EXCEPT !.intent = "completed", !.iclaim = 0] \in Row
         /\ \A s \in Intents :
              [row EXCEPT !.intent = s, !.iclaim = 0, !.iripe = FALSE] \in Row
<1>1. row.att + 1 \in Nat /\ row.iatt + 1 \in Nat
  BY DEF Row
<1> QED BY <1>1 DEF Row, Statuses, Intents

LEMMA BlankType == Blank \in Row
BY DEF Blank, Row, Types, Statuses, Intents

LEMMA InsertedType ==
  ASSUME NEW type \in Types, NEW a \in Accounts, NEW s \in Nat, NEW from \in Nat,
         NEW intent \in {"none", "pending"}
  PROVE  Inserted(type, a, s, from, intent) \in Row
BY BlankType DEF Inserted, Row, Statuses, Intents

(* What a step may do to the rows, whoever takes it: the rows stay rows of *)
(* the table, and intent tokens only grow.                                 *)
Grows(i) ==
  /\ ev'[i] \in Row
  /\ ev[i].st # "absent" => ev'[i].st # "absent"
  /\ ev'[i].st = "absent" => ev'[i] = ev[i]
  /\ ev'[i].iatt >= ev[i].iatt
  /\ ev[i].iclaim <= ev[i].iatt => ev'[i].iclaim <= ev'[i].iatt

LEMMA SameGrows ==
  ASSUME TypeOK, NEW i \in Ids, ev'[i] = ev[i]
  PROVE  Grows(i)
<1>1. ev[i] \in Row
  BY DEF TypeOK
<1> QED BY <1>1 DEF Grows, Row

LEMMA PublishedGrows ==
  ASSUME TypeOK, NEW i \in Ids, Published(i), NEW j \in Ids
  PROVE  Grows(j) /\ ev' \in [Ids -> Row]
<1>1. ev[i] \in Row /\ ev \in [Ids -> Row]
  BY DEF TypeOK
<1>2. ev'[i] = [ev[i] EXCEPT !.st = IF @ = "processing" THEN "published" ELSE @]
  BY <1>1 DEF Published
<1>3. ev' \in [Ids -> Row]
  <2> DEFINE r == [ev[i] EXCEPT !.st = IF @ = "processing" THEN "published" ELSE @]
  <2>1. r \in Row
    BY <1>1 DEF Row, Statuses
  <2>2. ev' = [ev EXCEPT ![i] = r]
    BY DEF Published
  <2> HIDE DEF r
  <2> QED BY <1>1, <2>1, <2>2
<1>4. Grows(i)
  BY <1>1, <1>2, <1>3 DEF Grows, Row
<1> QED BY <1>1, <1>3, <1>4, SameGrows DEF Published

LEMMA FailedGrows ==
  ASSUME TypeOK, NEW p \in Procs, NEW i \in Ids, FailedRow(p, i), NEW j \in Ids
  PROVE  Grows(j) /\ ev' \in [Ids -> Row]
<1>1. ev[i] \in Row /\ ev \in [Ids -> Row]
  BY DEF TypeOK
<1>2. \/ ev'[i] = ev[i]
      \/ \E s \in {"dead", "pending"} :
           ev[i].st = "processing" /\ ev'[i] = [ev[i] EXCEPT !.st = s, !.ripe = FALSE]
  BY <1>1 DEF FailedRow
<1>3. ev'[i] \in Row
  BY <1>1, <1>2, RowUpdates DEF Statuses
<1>4. ev' \in [Ids -> Row]
  BY <1>1, <1>3 DEF FailedRow
<1>5. Grows(i)
  <2>1. CASE ev'[i] = ev[i]
    BY <2>1, SameGrows
  <2>2. ASSUME NEW s \in {"dead", "pending"}, ev[i].st = "processing",
               ev'[i] = [ev[i] EXCEPT !.st = s, !.ripe = FALSE]
        PROVE  Grows(i)
    <3>1. /\ ev'[i].st = s /\ ev'[i].iatt = ev[i].iatt
          /\ ev'[i].iclaim = ev[i].iclaim /\ ev[i].iatt \in Nat
      BY <1>1, <2>2 DEF Row
    <3> QED BY <1>1, <1>3, <2>2, <3>1 DEF Grows
  <2> QED BY <1>2, <2>1, <2>2
<1> QED BY <1>1, <1>4, <1>5, SameGrows DEF FailedRow

LEMMA IntentFailedGrows ==
  ASSUME TypeOK, NEW p \in Procs, NEW i \in Ids, IntentFailedRow(p, i), NEW j \in Ids
  PROVE  Grows(j) /\ ev' \in [Ids -> Row]
<1>1. ev[i] \in Row /\ ev \in [Ids -> Row]
  BY DEF TypeOK
<1>2. \/ ev'[i] = ev[i]
      \/ \E s \in {"dead", "pending"} :
           ev'[i] = [ev[i] EXCEPT !.intent = s, !.iclaim = 0, !.iripe = FALSE]
  BY <1>1 DEF IntentFailedRow
<1>3. ev'[i] \in Row
  BY <1>1, <1>2, RowUpdates DEF Intents
<1>4. ev' \in [Ids -> Row]
  BY <1>1, <1>3 DEF IntentFailedRow
<1>5. ev[i].st = "absent" => ev'[i] = ev[i]
  BY <1>1 DEF IntentFailedRow, IntentHeld
<1>6. Grows(i)
  <2>1. CASE ev'[i] = ev[i]
    BY <2>1, SameGrows
  <2>2. ASSUME NEW s \in {"dead", "pending"},
               ev'[i] = [ev[i] EXCEPT !.intent = s, !.iclaim = 0, !.iripe = FALSE]
        PROVE  Grows(i)
    <3>1. /\ ev'[i].st = ev[i].st /\ ev'[i].iatt = ev[i].iatt
          /\ ev'[i].iclaim = 0 /\ ev[i].iatt \in Nat
      BY <1>1, <2>2 DEF Row
    <3> QED BY <1>1, <1>3, <1>5, <3>1 DEF Grows
  <2> QED BY <1>2, <2>1, <2>2
<1> QED BY <1>1, <1>4, <1>6, SameGrows DEF IntentFailedRow

LEMMA ClaimGrows ==
  ASSUME TypeOK, NEW p \in Procs, Claim(p), NEW j \in Ids
  PROVE  Grows(j) /\ ev' \in [Ids -> Row]
<1>1. ev \in [Ids -> Row] /\ ev[j] \in Row
  BY DEF TypeOK
<1>2. ev' \in [Ids -> Row]
  BY <1>1, RowUpdates DEF Claim
<1>3. \/ ev'[j] = ev[j]
      \/ /\ ev[j].st # "absent"
         /\ ev'[j] = [ev[j] EXCEPT !.st = "processing", !.att = @ + 1,
                                   !.ripe = FALSE]
  BY DEF Claim, Claimable
<1>4. CASE ev'[j] = [ev[j] EXCEPT !.st = "processing", !.att = @ + 1,
                                  !.ripe = FALSE]
  <2>1. /\ ev'[j].st = "processing" /\ ev'[j].iatt = ev[j].iatt
        /\ ev'[j].iclaim = ev[j].iclaim /\ ev[j].iatt \in Nat
    BY <1>1, <1>4 DEF Row
  <2> QED BY <1>2, <2>1 DEF Grows
<1> QED BY <1>2, <1>3, <1>4, SameGrows

LEMMA IntentClaimGrows ==
  ASSUME TypeOK, NEW p \in Procs, IntentClaim(p), NEW j \in Ids
  PROVE  Grows(j) /\ ev' \in [Ids -> Row]
<1>1. ev \in [Ids -> Row] /\ ev[j] \in Row
  BY DEF TypeOK
<1>2. ev' \in [Ids -> Row]
  BY <1>1, RowUpdates DEF IntentClaim
<1>3. \/ ev'[j] = ev[j]
      \/ /\ ev[j].st # "absent"
         /\ ev'[j] = [ev[j] EXCEPT !.intent = "processing", !.iatt = @ + 1,
                                   !.iclaim = ev[j].iatt + 1, !.iripe = FALSE]
  BY DEF IntentClaim, IntentClaimable
<1>4. CASE /\ ev[j].st # "absent"
           /\ ev'[j] = [ev[j] EXCEPT !.intent = "processing", !.iatt = @ + 1,
                                  !.iclaim = ev[j].iatt + 1, !.iripe = FALSE]
  <2>1. /\ ev'[j].st = ev[j].st /\ ev'[j].iatt = ev[j].iatt + 1
        /\ ev'[j].iclaim = ev[j].iatt + 1 /\ ev[j].iatt \in Nat
    BY <1>1, <1>4 DEF Row
  <2> QED BY <1>2, <1>4, <2>1 DEF Grows
<1> QED BY <1>2, <1>3, <1>4, SameGrows

LEMMA MaterializedGrows ==
  ASSUME TypeOK, NEW p \in Procs, NEW i \in Ids, Materialized(p, i), NEW j \in Ids
  PROVE  Grows(j) /\ ev' \in [Ids -> Row]
<1>1. ev \in [Ids -> Row] /\ ev[i] \in Row
  BY DEF TypeOK
<1>2. CASE IntentHeld(p, i)
  <2>1. ev' = [ev EXCEPT ![i] = [@ EXCEPT !.intent = "completed", !.iclaim = 0]]
    BY <1>1, <1>2 DEF Materialized, Row
  <2>2. ev' \in [Ids -> Row]
    BY <1>1, <2>1, RowUpdates
  <2>3. /\ ev'[i].st = ev[i].st /\ ev'[i].iatt = ev[i].iatt /\ ev'[i].iclaim = 0
        /\ ev[i].iatt \in Nat /\ ev[i].st # "absent"
    BY <1>1, <1>2, <2>1 DEF Row, IntentHeld
  <2>4. Grows(i)
    BY <2>2, <2>3 DEF Grows
  <2> QED BY <1>1, <2>1, <2>2, <2>4, SameGrows
<1>3. CASE ~IntentHeld(p, i)
  BY <1>1, <1>3, SameGrows DEF Materialized
<1> QED BY <1>2, <1>3

LEMMA CleanupGrows ==
  ASSUME TypeOK, NEW p \in Procs, NEW i \in Ids, Cleanup(p, i), NEW j \in Ids
  PROVE  Grows(j) /\ ev' \in [Ids -> Row]
<1>1. ev \in [Ids -> Row] /\ ev[i] \in Row
  BY DEF TypeOK
<1>2. ev' = [ev EXCEPT ![i] = [@ EXCEPT !.st = "deleted"]]
  BY DEF Cleanup
<1>3. ev' \in [Ids -> Row]
  BY <1>1, <1>2, RowUpdates DEF Statuses
<1>4. /\ ev'[i].st = "deleted" /\ ev'[i].iatt = ev[i].iatt
      /\ ev'[i].iclaim = ev[i].iclaim /\ ev[i].iatt \in Nat
  BY <1>1, <1>2 DEF Row
<1>5. Grows(i)
  BY <1>3, <1>4 DEF Grows
<1> QED BY <1>1, <1>2, <1>3, <1>5, SameGrows

LEMMA RipenGrows ==
  ASSUME TypeOK, HandlesRows, NEW i \in Ids, Ripen(i), NEW j \in Ids
  PROVE  Grows(j) /\ ev' \in [Ids -> Row]
<1>1. ev \in [Ids -> Row] /\ ev[i] \in Row
  BY DEF TypeOK
<1>2. \/ ev' = [ev EXCEPT ![i] = [@ EXCEPT !.ripe = TRUE]]
      \/ ev' = [ev EXCEPT ![i] = [@ EXCEPT !.iripe = TRUE]]
  BY DEF Ripen
<1>3. ev' \in [Ids -> Row]
  BY <1>1, <1>2, RowUpdates
<1>4. ev[i].st # "absent"
  BY DEF Ripen, HandlesRows, Blank
<1>5. /\ ev'[i].st = ev[i].st /\ ev'[i].iatt = ev[i].iatt
      /\ ev'[i].iclaim = ev[i].iclaim /\ ev[i].iatt \in Nat
  BY <1>1, <1>2 DEF Row
<1>6. Grows(i)
  BY <1>3, <1>4, <1>5 DEF Grows
<1> QED BY <1>1, <1>2, <1>3, <1>6, SameGrows

LEMMA ProduceGrows ==
  ASSUME TypeOK, HandlesRows, NEW i \in Ids, Produce(i), NEW j \in Ids
  PROVE  Grows(j) /\ ev' \in [Ids -> Row]
<1>1. ev \in [Ids -> Row] /\ i \in Nat
  BY ChatOutboxAssumption DEF TypeOK, Ids
<1>2. PICK a \in Accounts, intent \in {"none", "pending"}, type \in Types :
        Insert(i, type, a, i, 0, intent)
  BY DEF Produce
<1>3. ev' = [ev EXCEPT ![i] = Inserted(type, a, i, 0, intent)] /\ ev[i].st = "absent"
  BY <1>2 DEF Insert, Fresh
<1>4. ev' \in [Ids -> Row]
  BY <1>1, <1>3, InsertedType
<1>5. ev[i] = Blank
  BY <1>3 DEF HandlesRows
<1>6. /\ ev'[i].st = "pending" /\ ev'[i].iatt = 0 /\ ev'[i].iclaim = 0
      /\ ev[i].iatt = 0
  BY <1>1, <1>3, <1>5 DEF Inserted, Blank
<1>7. Grows(i)
  BY <1>4, <1>6 DEF Grows
<1> QED BY <1>1, <1>3, <1>4, <1>7, SameGrows

LEMMA RowsGrow ==
  ASSUME TypeOK, HandlesRows, [Next]_vars, NEW j \in Ids
  PROVE  Grows(j) /\ ev' \in [Ids -> Row]
<1>0. UNCHANGED ev => Grows(j) /\ ev' \in [Ids -> Row]
  BY SameGrows DEF TypeOK
<1>1. CASE UNCHANGED vars
  BY <1>0, <1>1 DEF vars
<1>2. ASSUME NEW p \in Procs, DispatchStep(p)
      PROVE  Grows(j) /\ ev' \in [Ids -> Row]
  <2>1. CASE Claim(p) BY <2>1, ClaimGrows
  <2>2. CASE Load(p) \/ LoadFails(p) \/ EmitFails(p) \/ NotReady(p)
    BY <1>0, <2>2 DEF Load, LoadFails, EmitFails, NotReady
  <2>3. ASSUME NEW i \in Ids, Emit(p, i) \/ Drop(p, i)
        PROVE  UNCHANGED ev
    BY <2>3 DEF Emit, Drop
  <2>4. ASSUME NEW i \in Ids, MarkPublished(p, i) \/ MarkPublishedThrows(p, i)
        PROVE  Published(i) \/ UNCHANGED ev
    BY <2>4 DEF MarkPublished, MarkPublishedThrows
  <2>5. ASSUME NEW i \in Ids, MarkFailed(p, i) \/ MarkFailedThrows(p, i)
        PROVE  FailedRow(p, i) \/ UNCHANGED ev
    BY <2>5 DEF MarkFailed, MarkFailedThrows
  <2> QED BY <1>0, <1>2, <2>1, <2>2, <2>3, <2>4, <2>5, PublishedGrows,
             FailedGrows, CleanupGrows DEF DispatchStep
<1>3. ASSUME NEW p \in Procs, IntentStep(p)
      PROVE  Grows(j) /\ ev' \in [Ids -> Row]
  <2>1. CASE IntentClaim(p) BY <2>1, IntentClaimGrows
  <2>2. CASE MaterializeFails(p)
    BY <1>0, <2>2 DEF MaterializeFails
  <2>3. ASSUME NEW i \in Ids, Materialize(p, i) \/ MaterializeInDoubt(p, i)
        PROVE  Materialized(p, i)
    BY <2>3 DEF Materialize, MaterializeInDoubt
  <2>4. ASSUME NEW i \in Ids, IntentMarkFailed(p, i) \/ IntentMarkFailedThrows(p, i)
        PROVE  IntentFailedRow(p, i) \/ UNCHANGED ev
    BY <2>4 DEF IntentMarkFailed, IntentMarkFailedThrows
  <2> QED BY <1>0, <1>3, <2>1, <2>2, <2>3, <2>4, MaterializedGrows,
             IntentFailedGrows DEF IntentStep
<1>4. ASSUME NEW p \in Procs, Deactivate(p) \/ Restart(p)
      PROVE  Grows(j) /\ ev' \in [Ids -> Row]
  BY <1>0, <1>4 DEF Deactivate, Restart
<1>5. ASSUME NEW a \in Accounts, MemberChanges(a)
      PROVE  Grows(j) /\ ev' \in [Ids -> Row]
  BY <1>0, <1>5 DEF MemberChanges
<1> QED BY <1>1, <1>2, <1>3, <1>4, <1>5, RipenGrows, ProduceGrows
        DEF Next, DispatcherNext
-----------------------------------------------------------------------------
(* Every action keeps the types; the rows are covered by RowsGrow.         *)
LEMMA CopyTypes ==
  /\ NoCopy \in Copy
  /\ \A row \in Row : [att |-> row.att, seq |-> row.seq, start |-> row.start] \in Copy
BY DEF NoCopy, Copy, Row

LEMMA AdvanceType ==
  ASSUME TypeOK, NEW p \in Procs, NEW i \in Ids, Advance(p, i)
  PROVE  /\ copy' \in [Procs -> [Ids -> Copy]]
         /\ step' \in [Procs -> {"idle", "load", "emit", "mark", "fail"}]
BY CopyTypes DEF TypeOK, Advance

LEMMA IAdvanceType ==
  ASSUME TypeOK, NEW p \in Procs, NEW i \in Ids, IAdvance(p, i)
  PROVE  /\ icopy' \in [Procs -> [Ids -> Nat]]
         /\ istep' \in [Procs -> {"idle", "work", "fail"}]
BY DEF TypeOK, IAdvance

LEMMA DispatchType ==
  ASSUME TypeOK, ev' \in [Ids -> Row], NEW p \in Procs, DispatchStep(p)
  PROVE  TypeOK'
<1>1. CASE Claim(p)
  BY <1>1 DEF TypeOK, Claim
<1>2. CASE Load(p)
  <2>1. copy' \in [Procs -> [Ids -> Copy]]
    BY <1>2, CopyTypes DEF Load, TypeOK
  <2> QED BY <1>2, <2>1 DEF TypeOK, Load
<1>3. CASE LoadFails(p)
  BY <1>3 DEF TypeOK, LoadFails, Fault
<1>4. CASE EmitFails(p) \/ NotReady(p)
  BY <1>4 DEF TypeOK, EmitFails, NotReady
<1>5. ASSUME NEW i \in Ids, Emit(p, i)
      PROVE  TypeOK'
  <2>1. [id |-> i, seq |-> copy[p][i].seq, start |-> copy[p][i].start] \in Told
    BY DEF TypeOK, Copy, Told
  <2> QED BY <1>5, <2>1 DEF TypeOK, Emit
<1>6. ASSUME NEW i \in Ids, Drop(p, i)
      PROVE  TypeOK'
  BY <1>6 DEF TypeOK, Drop, Fault
<1>7. ASSUME NEW i \in Ids, MarkPublished(p, i)
      PROVE  TypeOK'
  BY <1>7, AdvanceType DEF TypeOK, MarkPublished
<1>8. ASSUME NEW i \in Ids, MarkPublishedThrows(p, i)
      PROVE  TypeOK'
  BY <1>8 DEF TypeOK, MarkPublishedThrows, Fault
<1>9. ASSUME NEW i \in Ids, MarkFailed(p, i)
      PROVE  TypeOK'
  BY <1>9, AdvanceType DEF TypeOK, MarkFailed
<1>10. ASSUME NEW i \in Ids, MarkFailedThrows(p, i)
      PROVE  TypeOK'
  BY <1>10, CopyTypes DEF TypeOK, MarkFailedThrows, Fault
<1>11. ASSUME NEW i \in Ids, Cleanup(p, i)
      PROVE  TypeOK'
  BY <1>11 DEF TypeOK, Cleanup
<1> QED BY <1>1, <1>2, <1>3, <1>4, <1>5, <1>6, <1>7, <1>8, <1>9, <1>10, <1>11
        DEF DispatchStep

LEMMA IntentType ==
  ASSUME TypeOK, ev' \in [Ids -> Row], NEW p \in Procs, IntentStep(p)
  PROVE  TypeOK'
<1>1. CASE IntentClaim(p)
  <2>1. \A i \in Ids : ev[i].iatt + 1 \in Nat
    BY DEF TypeOK, Row
  <2>2. icopy' \in [Procs -> [Ids -> Nat]]
    BY <1>1, <2>1 DEF IntentClaim, TypeOK
  <2> QED BY <1>1, <2>2 DEF TypeOK, IntentClaim
<1>2. CASE MaterializeFails(p)
  BY <1>2 DEF TypeOK, MaterializeFails
<1>3. ASSUME NEW i \in Ids, Materialized(p, i)
      PROVE  made' \in [Ids -> Nat]
  <2>1. made \in [Ids -> Nat] /\ made[i] + 1 \in Nat
    BY DEF TypeOK
  <2>2. made' = [made EXCEPT ![i] = made[i] + 1] \/ made' = made
    BY <1>3 DEF Materialized
  <2> QED BY <2>1, <2>2
<1>4. ASSUME NEW i \in Ids, Materialize(p, i)
      PROVE  TypeOK'
  BY <1>3, <1>4, IAdvanceType DEF TypeOK, Materialize
<1>5. ASSUME NEW i \in Ids, MaterializeInDoubt(p, i)
      PROVE  TypeOK'
  BY <1>3, <1>5 DEF TypeOK, MaterializeInDoubt, Fault
<1>6. ASSUME NEW i \in Ids, IntentMarkFailed(p, i)
      PROVE  TypeOK'
  BY <1>6, IAdvanceType DEF TypeOK, IntentMarkFailed
<1>7. ASSUME NEW i \in Ids, IntentMarkFailedThrows(p, i)
      PROVE  TypeOK'
  BY <1>7 DEF TypeOK, IntentMarkFailedThrows, Fault
<1> QED BY <1>1, <1>2, <1>4, <1>5, <1>6, <1>7 DEF IntentStep

LEMMA TypeStep ==
  ASSUME TypeOK, HandlesRows, [Next]_vars
  PROVE  TypeOK'
<1>1. ev' \in [Ids -> Row]
  <2>1. CASE Ids = {}
    BY <2>1 DEF Next, DispatcherNext, DispatchStep, IntentStep, Claim, Load,
      LoadFails, EmitFails, NotReady, IntentClaim, MaterializeFails,
      Deactivate, Restart, MemberChanges, vars, TypeOK
  <2> QED BY <2>1, RowsGrow
<1>2. CASE UNCHANGED vars
  BY <1>2 DEF vars, TypeOK
<1>3. ASSUME NEW p \in Procs, Deactivate(p) \/ Restart(p)
      PROVE  TypeOK'
  <2>1. CASE Deactivate(p)
    BY <2>1, <1>1 DEF TypeOK, Deactivate, Fault
  <2>2. CASE Restart(p)
    <3>1. faults' \in Nat
      BY <2>2 DEF Restart, Fault, TypeOK
    <3>2. /\ copy' \in [Procs -> [Ids -> Copy]]
          /\ icopy' \in [Procs -> [Ids -> Nat]]
          /\ claimed' \in [Procs -> SUBSET Ids]
      BY <2>2, CopyTypes DEF Restart, TypeOK
    <3> QED BY <1>1, <2>2, <3>1, <3>2 DEF TypeOK, Restart
  <2> QED BY <1>3, <2>1, <2>2
<1>4. ASSUME NEW i \in Ids, Ripen(i) \/ Produce(i)
      PROVE  TypeOK'
  BY <1>1, <1>4 DEF TypeOK, Ripen, Produce
<1>5. ASSUME NEW a \in Accounts, MemberChanges(a)
      PROVE  TypeOK'
  BY <1>5 DEF TypeOK, MemberChanges
<1> QED BY <1>1, <1>2, <1>3, <1>4, <1>5, DispatchType, IntentType
        DEF Next, DispatcherNext
-----------------------------------------------------------------------------
(* Which steps change what a process holds.                                *)
ClaimedMoves ==
  \/ UNCHANGED claimed
  \/ \E q \in Procs : Claim(q)
  \/ \E q \in Procs : claimed' = [claimed EXCEPT ![q] = {}]

CopyMoves ==
  \/ UNCHANGED copy
  \/ \E q \in Procs : Load(q)
  \/ \E q \in Procs, j \in Ids : Advance(q, j)
  \/ \E q \in Procs : copy' = [copy EXCEPT ![q] = [j \in Ids |-> NoCopy]]

ICopyMoves ==
  \/ UNCHANGED icopy
  \/ \E q \in Procs : IntentClaim(q)
  \/ \E q \in Procs, j \in Ids : IAdvance(q, j)
  \/ \E q \in Procs : icopy' = [icopy EXCEPT ![q] = [j \in Ids |-> 0]]

LEMMA Moves ==
  ASSUME [Next]_vars
  PROVE  ClaimedMoves /\ CopyMoves /\ ICopyMoves
<1> USE DEF ClaimedMoves, CopyMoves, ICopyMoves
<1>1. CASE UNCHANGED vars
  BY <1>1 DEF vars
<1>2. ASSUME NEW p \in Procs, DispatchStep(p)
      PROVE  ClaimedMoves /\ CopyMoves /\ ICopyMoves
  <2>1. CASE Claim(p)
    BY <2>1 DEF Claim
  <2>2. CASE Load(p)
    BY <2>2 DEF Load
  <2>3. CASE LoadFails(p) \/ EmitFails(p) \/ NotReady(p)
    BY <2>3 DEF LoadFails, EmitFails, NotReady
  <2>4. ASSUME NEW i \in Ids, Emit(p, i) \/ Drop(p, i) \/ MarkPublishedThrows(p, i)
                               \/ Cleanup(p, i)
        PROVE  UNCHANGED <<claimed, copy, icopy>>
    BY <2>4 DEF Emit, Drop, MarkPublishedThrows, Cleanup
  <2>5. ASSUME NEW i \in Ids, MarkPublished(p, i) \/ MarkFailed(p, i)
        PROVE  Advance(p, i) /\ UNCHANGED <<claimed, icopy>>
    BY <2>5 DEF MarkPublished, MarkFailed
  <2>6. ASSUME NEW i \in Ids, MarkFailedThrows(p, i)
        PROVE  /\ copy' = [copy EXCEPT ![p] = [j \in Ids |-> NoCopy]]
               /\ UNCHANGED <<claimed, icopy>>
    BY <2>6 DEF MarkFailedThrows
  <2> QED BY <1>2, <2>1, <2>2, <2>3, <2>4, <2>5, <2>6 DEF DispatchStep
<1>3. ASSUME NEW p \in Procs, IntentStep(p)
      PROVE  ClaimedMoves /\ CopyMoves /\ ICopyMoves
  <2>1. CASE IntentClaim(p)
    BY <2>1 DEF IntentClaim
  <2>2. CASE MaterializeFails(p)
    BY <2>2 DEF MaterializeFails
  <2>3. ASSUME NEW i \in Ids, Materialize(p, i) \/ IntentMarkFailed(p, i)
        PROVE  IAdvance(p, i) /\ UNCHANGED <<claimed, copy>>
    BY <2>3 DEF Materialize, IntentMarkFailed
  <2>4. ASSUME NEW i \in Ids, MaterializeInDoubt(p, i)
        PROVE  UNCHANGED <<claimed, copy, icopy>>
    BY <2>4 DEF MaterializeInDoubt
  <2>5. ASSUME NEW i \in Ids, IntentMarkFailedThrows(p, i)
        PROVE  /\ icopy' = [icopy EXCEPT ![p] = [j \in Ids |-> 0]]
               /\ UNCHANGED <<claimed, copy>>
    BY <2>5 DEF IntentMarkFailedThrows
  <2> QED BY <1>3, <2>1, <2>2, <2>3, <2>4, <2>5 DEF IntentStep
<1>4. ASSUME NEW p \in Procs, Deactivate(p) \/ Restart(p)
      PROVE  ClaimedMoves /\ CopyMoves /\ ICopyMoves
  BY <1>4 DEF Deactivate, Restart
<1>5. ASSUME NEW i \in Ids, Ripen(i) \/ Produce(i)
      PROVE  UNCHANGED <<claimed, copy, icopy>>
  BY <1>5 DEF Ripen, Produce
<1>6. ASSUME NEW a \in Accounts, MemberChanges(a)
      PROVE  UNCHANGED <<claimed, copy, icopy>>
  BY <1>6 DEF MemberChanges
<1> QED BY <1>1, <1>2, <1>3, <1>4, <1>5, <1>6 DEF Next, DispatcherNext

(* HandlesRows: what a process claims or loads was in the table, and no    *)
(* step takes a row back to absent.                                        *)
LEMMA HandlesStep ==
  ASSUME OutboxInv, [Next]_vars
  PROVE  HandlesRows'
<1> USE DEF OutboxInv
<1>1. \A i \in Ids : Grows(i)
  BY RowsGrow
<1>2. \A i \in Ids : ev'[i].st = "absent" => ev'[i] = Blank
  BY <1>1 DEF Grows, HandlesRows
<1>3. ASSUME NEW p \in Procs, NEW i \in claimed'[p]
      PROVE  ev'[i].st # "absent"
  <2>1. i \in Ids
    BY TypeStep DEF TypeOK
  <2>2. i \in claimed[p] \/ ev[i].st # "absent"
    <3>1. CASE UNCHANGED claimed
      BY <1>3, <3>1
    <3>2. ASSUME NEW q \in Procs, Claim(q)
          PROVE  i \in claimed[p] \/ ev[i].st # "absent"
      BY <1>3, <3>2 DEF Claim, Claimable, TypeOK
    <3>3. ASSUME NEW q \in Procs, claimed' = [claimed EXCEPT ![q] = {}]
          PROVE  i \in claimed[p]
      BY <1>3, <3>3 DEF TypeOK
    <3> QED BY <3>1, <3>2, <3>3, Moves DEF ClaimedMoves
  <2>3. ev[i].st # "absent"
    BY <2>2 DEF HandlesRows
  <2> QED BY <1>1, <2>1, <2>3 DEF Grows
<1>4. ASSUME NEW p \in Procs, NEW i \in Ids, copy'[p][i].att # 0
      PROVE  ev'[i].st # "absent"
  <2>1. copy[p][i].att # 0 \/ i \in claimed[p]
    <3>1. CASE UNCHANGED copy
      BY <1>4, <3>1
    <3>2. ASSUME NEW q \in Procs, Load(q)
          PROVE  copy[p][i].att # 0 \/ i \in claimed[p]
      BY <1>4, <3>2 DEF Load, TypeOK, NoCopy
    <3>3. ASSUME NEW q \in Procs, NEW j \in Ids, Advance(q, j)
          PROVE  copy[p][i].att # 0
      BY <1>4, <3>3 DEF Advance, TypeOK, NoCopy
    <3>4. ASSUME NEW q \in Procs, copy' = [copy EXCEPT ![q] = [j \in Ids |-> NoCopy]]
          PROVE  copy[p][i].att # 0
      BY <1>4, <3>4 DEF TypeOK, NoCopy
    <3> QED BY <3>1, <3>2, <3>3, <3>4, Moves DEF CopyMoves
  <2>2. ev[i].st # "absent"
    BY <2>1 DEF HandlesRows, Batch
  <2> QED BY <1>1, <2>2 DEF Grows
<1> QED BY <1>2, <1>3, <1>4 DEF HandlesRows, Batch

(* TokensFresh: only a claim gives out a token, one above all before it.   *)
LEMMA TokensStep ==
  ASSUME OutboxInv, [Next]_vars
  PROVE  TokensFresh'
<1> USE DEF OutboxInv
<1> SUFFICES ASSUME NEW p \in Procs, NEW i \in Ids
             PROVE  /\ icopy'[p][i] <= ev'[i].iatt /\ ev'[i].iclaim <= ev'[i].iatt
                    /\ \A q \in Procs :
                         icopy'[p][i] # 0 /\ icopy'[p][i] = icopy'[q][i] => p = q
  BY DEF TokensFresh
<1>1. Grows(i) /\ ev[i] \in Row
  BY RowsGrow DEF TypeOK
<1>2. ev[i].iatt \in Nat /\ ev'[i].iatt \in Nat /\ ev'[i].iatt >= ev[i].iatt
  BY <1>1 DEF Grows, Row
<1>3. ev'[i].iclaim <= ev'[i].iatt
  BY <1>1 DEF Grows, TokensFresh
<1>4. \A q \in Procs : icopy[q][i] \in Nat
  BY DEF TypeOK
<1>5. CASE \A q \in Procs : icopy'[q][i] \in {icopy[q][i], 0}
  BY <1>2, <1>3, <1>4, <1>5 DEF TokensFresh
<1>6. ASSUME NEW r \in Procs, IntentClaim(r)
      PROVE  /\ icopy'[p][i] <= ev'[i].iatt
             /\ \A q \in Procs :
                  icopy'[p][i] # 0 /\ icopy'[p][i] = icopy'[q][i] => p = q
  <2>1. \A q \in Procs \ {r} : icopy'[q][i] = icopy[q][i]
    BY <1>6 DEF IntentClaim, TypeOK
  <2>2. CASE IntentClaimable(i)
    <3>1. ev'[i].iatt = ev[i].iatt + 1 /\ icopy'[r][i] = ev[i].iatt + 1
      BY <1>1, <1>6, <2>2 DEF IntentClaim, TypeOK, Row
    <3>2. \A q \in Procs : icopy[q][i] <= ev[i].iatt
      BY DEF TokensFresh
    <3> QED BY <1>2, <1>4, <2>1, <3>1, <3>2 DEF TokensFresh
  <2>3. CASE ~IntentClaimable(i)
    <3>1. icopy'[r][i] = 0
      BY <1>6, <2>3 DEF IntentClaim, TypeOK
    <3> QED BY <1>2, <1>4, <2>1, <3>1 DEF TokensFresh
  <2> QED BY <2>2, <2>3
<1>7. UNCHANGED icopy => \A q \in Procs : icopy'[q][i] \in {icopy[q][i], 0}
  OBVIOUS
<1>8. ASSUME NEW r \in Procs, NEW j \in Ids, IAdvance(r, j)
      PROVE  \A q \in Procs : icopy'[q][i] \in {icopy[q][i], 0}
  BY <1>8 DEF IAdvance, TypeOK
<1>9. ASSUME NEW r \in Procs, icopy' = [icopy EXCEPT ![r] = [j \in Ids |-> 0]]
      PROVE  \A q \in Procs : icopy'[q][i] \in {icopy[q][i], 0}
  BY <1>9 DEF TypeOK
<1>10. (\A q \in Procs : icopy'[q][i] \in {icopy[q][i], 0})
         \/ \E r \in Procs : IntentClaim(r)
  BY <1>7, <1>8, <1>9, Moves DEF ICopyMoves
<1> QED BY <1>3, <1>5, <1>6, <1>10

(* ToldFirst: a row is published after an emission, or a drop, that its    *)
(* dispatcher made on the way; and nothing is untold.                      *)
LEMMA ToldStep ==
  ASSUME OutboxInv, [Next]_vars
  PROVE  ToldFirst' /\ TellDone \subseteq TellDone'
<1> USE DEF OutboxInv
<1>0. ev \in [Ids -> Row] /\ step \in [Procs -> {"idle", "load", "emit", "mark", "fail"}]
  BY DEF TypeOK
<1>1. ASSUME UNCHANGED <<step, copy, emitted, dropped>>,
             \A i \in Ids : ev'[i].st = "published" => ev[i].st = "published"
      PROVE  ToldFirst' /\ TellDone \subseteq TellDone'
  BY <1>1 DEF ToldFirst, TellDone, Current, Batch
<1>2. CASE UNCHANGED vars
  BY <1>1, <1>2 DEF vars
<1>3. ASSUME NEW p \in Procs, UNCHANGED <<emitted, dropped>>, step'[p] # "mark",
             \A q \in Procs \ {p} : step'[q] = step[q] /\ copy'[q] = copy[q],
             \A i \in Ids : ev'[i].st = "published" => i \in TellDone
      PROVE  ToldFirst' /\ TellDone \subseteq TellDone'
  BY <1>3 DEF ToldFirst, TellDone, Current, Batch
<1>4. ASSUME NEW p \in Procs, DispatchStep(p)
      PROVE  ToldFirst' /\ TellDone \subseteq TellDone'
  <2>1. CASE Claim(p)
    <3>1. \A i \in Ids : ev'[i].st = "published" => ev[i].st = "published"
      BY <1>0, <2>1 DEF Claim, Row
    <3> QED BY <1>0, <1>3, <2>1, <3>1 DEF Claim, ToldFirst
  <2>2. CASE Load(p) \/ LoadFails(p) \/ EmitFails(p) \/ NotReady(p)
    BY <1>0, <1>3, <2>2 DEF Load, LoadFails, EmitFails, NotReady, ToldFirst, TypeOK
  <2>3. ASSUME NEW i \in Ids, Emit(p, i) \/ Drop(p, i)
        PROVE  ToldFirst' /\ TellDone \subseteq TellDone'
    <3>1. TellDone \subseteq TellDone' /\ i \in TellDone' /\ UNCHANGED <<ev, copy>>
      <4>1. CASE Emit(p, i)
        <5>1. PICK e : e.id = i /\ emitted' = emitted \cup {e}
          BY <4>1 DEF Emit
        <5> QED BY <4>1, <5>1 DEF Emit, TellDone
      <4>2. CASE Drop(p, i)
        BY <4>2 DEF Drop, TellDone
      <4> QED BY <2>3, <4>1, <4>2
    <3>2. Current(p, i) /\ \A j \in Ids : Current(p, j) => j = i
      BY <2>3 DEF Emit, Drop, Current, Batch, Ids
    <3>3. \A q \in Procs \ {p} : step'[q] = step[q]
      BY <1>0, <2>3 DEF Emit, Drop
    <3> QED BY <3>1, <3>2, <3>3 DEF ToldFirst, Current, Batch
  <2>4. ASSUME NEW i \in Ids, Published(i) \/ UNCHANGED ev, step[p] = "mark",
               Current(p, i)
        PROVE  \A j \in Ids : ev'[j].st = "published" => j \in TellDone
    BY <1>0, <2>4 DEF ToldFirst, Published, Row
  <2>5. ASSUME NEW i \in Ids, MarkPublished(p, i) \/ MarkPublishedThrows(p, i)
        PROVE  ToldFirst' /\ TellDone \subseteq TellDone'
    BY <1>0, <1>3, <2>4, <2>5, SMTT(20)
    DEF MarkPublished, MarkPublishedThrows, Advance, TypeOK
  <2>6. ASSUME NEW i \in Ids, FailedRow(p, i) \/ UNCHANGED ev
        PROVE  \A j \in Ids : ev'[j].st = "published" => j \in TellDone
    <3>1. CASE UNCHANGED ev
      BY <1>0, <3>1 DEF ToldFirst
    <3>2. CASE FailedRow(p, i)
      <4>1. \A j \in Ids \ {i} : ev'[j] = ev[j]
        BY <1>0, <3>2 DEF FailedRow
      <4>2. ev'[i].st = "published" => ev[i].st = "published"
        BY <1>0, <3>2 DEF FailedRow, Row
      <4> QED BY <1>0, <4>1, <4>2 DEF ToldFirst
    <3> QED BY <2>6, <3>1, <3>2
  <2>7. ASSUME NEW i \in Ids, MarkFailed(p, i) \/ MarkFailedThrows(p, i)
        PROVE  ToldFirst' /\ TellDone \subseteq TellDone'
    BY <1>0, <1>3, <2>6, <2>7 DEF MarkFailed, MarkFailedThrows, Advance, TypeOK
  <2>8. ASSUME NEW i \in Ids, Cleanup(p, i)
        PROVE  ToldFirst' /\ TellDone \subseteq TellDone'
    <3>1. \A j \in Ids : ev'[j].st = "published" => ev[j].st = "published"
      BY <1>0, <2>8 DEF Cleanup, Row
    <3> QED BY <1>1, <2>8, <3>1 DEF Cleanup
  <2> QED BY <1>4, <2>1, <2>2, <2>3, <2>5, <2>7, <2>8 DEF DispatchStep
<1>5. ASSUME NEW p \in Procs, IntentStep(p)
      PROVE  ToldFirst' /\ TellDone \subseteq TellDone'
  <2>1. CASE IntentClaim(p)
    <3>1. \A j \in Ids : ev'[j].st = ev[j].st
      BY <1>0, <2>1 DEF IntentClaim, Row
    <3> QED BY <1>1, <2>1, <3>1 DEF IntentClaim
  <2>2. CASE MaterializeFails(p)
    BY <1>1, <2>2 DEF MaterializeFails
  <2>3. ASSUME NEW i \in Ids, Materialize(p, i) \/ MaterializeInDoubt(p, i)
        PROVE  ToldFirst' /\ TellDone \subseteq TellDone'
    <3>1. \A j \in Ids : ev'[j].st = ev[j].st
      BY <1>0, <2>3 DEF Materialize, MaterializeInDoubt, Materialized, Row
    <3> QED BY <1>1, <2>3, <3>1 DEF Materialize, MaterializeInDoubt
  <2>4. ASSUME NEW i \in Ids, IntentMarkFailed(p, i) \/ IntentMarkFailedThrows(p, i)
        PROVE  ToldFirst' /\ TellDone \subseteq TellDone'
    <3>1. \A j \in Ids : ev'[j].st = ev[j].st
      <4>1. IntentFailedRow(p, i) \/ UNCHANGED ev
        BY <2>4 DEF IntentMarkFailed, IntentMarkFailedThrows
      <4>2. CASE UNCHANGED ev
        BY <4>2
      <4>3. CASE IntentFailedRow(p, i)
        <5>1. \A j \in Ids \ {i} : ev'[j] = ev[j]
          BY <1>0, <4>3 DEF IntentFailedRow
        <5>2. ev'[i].st = ev[i].st
          <6>1. ev[i] \in Row
            BY <1>0
          <6> QED BY <1>0, <4>3, <6>1 DEF IntentFailedRow, Row
        <5> QED BY <5>1, <5>2
      <4> QED BY <4>1, <4>2, <4>3
    <3> QED BY <1>1, <2>4, <3>1 DEF IntentMarkFailed, IntentMarkFailedThrows
  <2> QED BY <1>5, <2>1, <2>2, <2>3, <2>4 DEF IntentStep
<1>6. ASSUME NEW p \in Procs, Deactivate(p)
      PROVE  ToldFirst' /\ TellDone \subseteq TellDone'
  BY <1>1, <1>6 DEF Deactivate
<1>7. ASSUME NEW p \in Procs, Restart(p)
      PROVE  ToldFirst' /\ TellDone \subseteq TellDone'
  BY <1>0, <1>3, <1>7 DEF Restart, ToldFirst, TypeOK
<1>8. ASSUME NEW i \in Ids, Ripen(i)
      PROVE  ToldFirst' /\ TellDone \subseteq TellDone'
  <2>1. \A j \in Ids : ev'[j].st = ev[j].st
    BY <1>0, <1>8 DEF Ripen, Row
  <2> QED BY <1>1, <1>8, <2>1 DEF Ripen
<1>9. ASSUME NEW i \in Ids, Produce(i)
      PROVE  ToldFirst' /\ TellDone \subseteq TellDone'
  <2>1. \A j \in Ids : ev'[j].st = "published" => ev[j].st = "published"
    BY <1>0, <1>9 DEF Produce, Insert, Inserted, Blank
  <2> QED BY <1>1, <1>9, <2>1 DEF Produce
<1>10. ASSUME NEW a \in Accounts, MemberChanges(a)
      PROVE  ToldFirst' /\ TellDone \subseteq TellDone'
  BY <1>1, <1>10 DEF MemberChanges
<1> QED BY <1>2, <1>4, <1>5, <1>6, <1>7, <1>8, <1>9, <1>10 DEF Next, DispatcherNext
-----------------------------------------------------------------------------
LEMMA InitInv == Init => OutboxInv
<1> SUFFICES ASSUME Init PROVE OutboxInv
  OBVIOUS
<1>1. TypeOK
  <2>1. /\ step \in [Procs -> {"idle", "load", "emit", "mark", "fail"}]
        /\ claimed \in [Procs -> SUBSET Ids]
        /\ istep \in [Procs -> {"idle", "work", "fail"}]
        /\ icopy \in [Procs -> [Ids -> Nat]]
        /\ made \in [Ids -> Nat]
    BY DEF Init
  <2>2. ev \in [Ids -> Row] /\ copy \in [Procs -> [Ids -> Copy]]
    BY BlankType, CopyTypes DEF Init
  <2> QED BY <2>1, <2>2 DEF Init, TypeOK
<1>2. HandlesRows
  BY DEF Init, HandlesRows, Batch, NoCopy
<1>3. ToldFirst
  BY DEF Init, ToldFirst, Blank
<1>4. TokensFresh
  BY DEF Init, TokensFresh, Blank
<1> QED BY <1>1, <1>2, <1>3, <1>4 DEF OutboxInv

LEMMA NextInv == OutboxInv /\ [Next]_vars => OutboxInv'
BY TypeStep, HandlesStep, ToldStep, TokensStep DEF OutboxInv

(* Every row a dispatcher publishes was emitted or let pass first, by it   *)
(* or by another process, and the tokens of claimed intents are fresh.     *)
THEOREM OutboxInvariant == Spec => []OutboxInv
BY InitInv, NextInv, PTL DEF Spec

(* The pushes of a message are put in the ledger once, and only by the     *)
(* transaction that completes the intent.                                  *)
THEOREM PushOnce == Spec => []PushesMadeOnce
<1>1. Init => PushesMadeOnce
  BY DEF Init, PushesMadeOnce, Blank
<1>2. OutboxInv /\ PushesMadeOnce /\ [Next]_vars => PushesMadeOnce'
  <2> SUFFICES ASSUME OutboxInv, PushesMadeOnce, [Next]_vars
               PROVE  PushesMadeOnce'
    OBVIOUS
  <2>0. ev \in [Ids -> Row] /\ made \in [Ids -> Nat]
    BY DEF OutboxInv, TypeOK
  <2>1. ASSUME UNCHANGED made,
               \A i \in Ids : ev'[i].intent = "completed" <=> ev[i].intent = "completed"
        PROVE  PushesMadeOnce'
    BY <2>1 DEF PushesMadeOnce
  <2>2. CASE UNCHANGED vars
    BY <2>1, <2>2 DEF vars
  <2>3. ASSUME NEW p \in Procs, DispatchStep(p)
        PROVE  PushesMadeOnce'
    <3>1. UNCHANGED made
      BY <2>3 DEF DispatchStep, Claim, Load, LoadFails, Emit, Drop, EmitFails,
         MarkPublished, NotReady, MarkPublishedThrows, MarkFailed,
         MarkFailedThrows, Cleanup
    <3>2. CASE UNCHANGED ev
      BY <2>1, <3>1, <3>2
    <3>3. CASE Claim(p)
      BY <2>0, <2>1, <3>1, <3>3 DEF Claim, Row
    <3>4. ASSUME NEW i \in Ids, Published(i) \/ FailedRow(p, i) \/ Cleanup(p, i)
          PROVE  PushesMadeOnce'
      <4>1. ev[i] \in Row
        BY <2>0
      <4>2. \A j \in Ids \ {i} : ev'[j] = ev[j]
        BY <2>0, <3>4 DEF Published, FailedRow, Cleanup
      <4>3. Published(i) => ev'[i].intent = ev[i].intent
        BY <2>0, <4>1 DEF Published, Row
      <4>4. FailedRow(p, i) => ev'[i].intent = ev[i].intent
        BY <2>0, <4>1 DEF FailedRow, Row
      <4>5. Cleanup(p, i) => ev'[i].intent = ev[i].intent
        BY <2>0, <4>1 DEF Cleanup, Row
      <4>6. \A j \in Ids : ev'[j].intent = ev[j].intent
        BY <4>2, <4>3, <4>4, <4>5, <3>4
      <4> QED BY <2>1, <3>1, <4>6
    <3> QED BY <2>3, <3>2, <3>3, <3>4 DEF DispatchStep, Load, LoadFails, Emit, Drop,
           EmitFails, MarkPublished, NotReady, MarkPublishedThrows, MarkFailed,
           MarkFailedThrows
  <2>4. ASSUME NEW p \in Procs, IntentStep(p)
        PROVE  PushesMadeOnce'
    <3>1. CASE IntentClaim(p)
      <4>1. \A j \in Ids : ev'[j].intent = "completed" <=> ev[j].intent = "completed"
        BY <2>0, <3>1 DEF IntentClaim, IntentClaimable, Row
      <4> QED BY <2>1, <3>1, <4>1 DEF IntentClaim
    <3>2. CASE MaterializeFails(p)
      BY <2>1, <3>2 DEF MaterializeFails
    <3>3. ASSUME NEW i \in Ids, Materialize(p, i) \/ MaterializeInDoubt(p, i)
          PROVE  PushesMadeOnce'
      <4>1. Materialized(p, i)
        BY <3>3 DEF Materialize, MaterializeInDoubt
      <4>2. CASE ~IntentHeld(p, i)
        BY <2>1, <4>1, <4>2 DEF Materialized
      <4>3. CASE IntentHeld(p, i)
        <5>1. made[i] = 0
          BY <4>3 DEF PushesMadeOnce, IntentHeld
        <5>2. made'[i] = 1 /\ ev'[i].intent = "completed"
          BY <2>0, <4>1, <4>3, <5>1 DEF Materialized, Row
        <5>3. \A j \in Ids \ {i} : made'[j] = made[j] /\ ev'[j] = ev[j]
          BY <2>0, <4>1, <4>3 DEF Materialized
        <5> QED BY <5>2, <5>3 DEF PushesMadeOnce
      <4> QED BY <4>2, <4>3
    <3>4. ASSUME NEW i \in Ids, IntentMarkFailed(p, i) \/ IntentMarkFailedThrows(p, i)
          PROVE  PushesMadeOnce'
      <4>1. UNCHANGED made /\ (IntentFailedRow(p, i) \/ UNCHANGED ev)
        BY <3>4 DEF IntentMarkFailed, IntentMarkFailedThrows
      <4>2. CASE UNCHANGED ev
        BY <2>1, <4>1, <4>2
      <4>3. CASE IntentFailedRow(p, i)
        <5>1. \A j \in Ids \ {i} : ev'[j] = ev[j]
          BY <2>0, <4>3 DEF IntentFailedRow
        <5>2. ev'[i].intent = "completed" <=> ev[i].intent = "completed"
          <6>1. ev[i] \in Row
            BY <2>0
          <6> QED BY <2>0, <4>3, <6>1 DEF IntentFailedRow, IntentHeld, Row
        <5> QED BY <2>1, <4>1, <5>1, <5>2
      <4> QED BY <4>1, <4>2, <4>3
    <3> QED BY <2>4, <3>1, <3>2, <3>3, <3>4 DEF IntentStep
  <2>5. ASSUME NEW p \in Procs, Deactivate(p) \/ Restart(p)
        PROVE  PushesMadeOnce'
    BY <2>1, <2>5 DEF Deactivate, Restart
  <2>6. ASSUME NEW i \in Ids, Ripen(i)
        PROVE  PushesMadeOnce'
    <3>1. \A j \in Ids : ev'[j].intent = ev[j].intent
      BY <2>0, <2>6 DEF Ripen, Row
    <3> QED BY <2>1, <2>6, <3>1 DEF Ripen
  <2>7. ASSUME NEW i \in Ids, Produce(i)
        PROVE  PushesMadeOnce'
    <3>1. PICK a \in Accounts, intent \in {"none", "pending"}, type \in Types :
            Insert(i, type, a, i, 0, intent)
      BY <2>7 DEF Produce
    <3>2. ev[i] = Blank
      BY <3>1 DEF Insert, Fresh, OutboxInv, HandlesRows
    <3>3. \A j \in Ids : ev'[j].intent = "completed" <=> ev[j].intent = "completed"
      BY <2>0, <3>1, <3>2 DEF Insert, Inserted, Blank
    <3> QED BY <2>1, <2>7, <3>3 DEF Produce
  <2>8. ASSUME NEW a \in Accounts, MemberChanges(a)
        PROVE  PushesMadeOnce'
    BY <2>1, <2>8 DEF MemberChanges
  <2> QED BY <2>2, <2>3, <2>4, <2>5, <2>6, <2>7, <2>8 DEF Next, DispatcherNext
<1> QED BY <1>1, <1>2, OutboxInvariant, PTL DEF Spec
-----------------------------------------------------------------------------
(* The refinement of EventDelivery.  A step that keeps the abstract status *)
(* and pushes of every row, and tells nothing, is a stutter ...            *)
LEMMA StutterStep ==
  ASSUME \A j \in Ids : AbsStatus(j)' = AbsStatus(j) /\ AbsPush(j)' = AbsPush(j),
         UNCHANGED <<emitted, dropped>>
  PROVE  UNCHANGED Abstract!vars
<1>1. UNCHANGED TellDone
  BY DEF TellDone
<1>2. [j \in Ids |-> AbsStatus(j)]' = [j \in Ids |-> AbsStatus(j)]
  OBVIOUS
<1>3. [j \in Ids |-> AbsPush(j)]' = [j \in Ids |-> AbsPush(j)]
  OBVIOUS
<1> QED BY <1>1, <1>2, <1>3 DEF Abstract!vars

(* ... and one that changes a single row changes the image in one place.   *)
LEMMA OnlyRow ==
  ASSUME NEW i \in Ids, \A j \in Ids \ {i} : ev'[j] = ev[j]
  PROVE  /\ [j \in Ids |-> AbsStatus(j)]'
              = [[j \in Ids |-> AbsStatus(j)] EXCEPT ![i] = AbsStatus(i)']
         /\ [j \in Ids |-> AbsPush(j)]'
              = [[j \in Ids |-> AbsPush(j)] EXCEPT ![i] = AbsPush(i)']
<1>1. \A j \in Ids \ {i} : AbsStatus(j)' = AbsStatus(j) /\ AbsPush(j)' = AbsPush(j)
  BY DEF AbsStatus, AbsPush
<1> QED BY <1>1

(* A row's status moves as EventDelivery allows, its pushes stay.          *)
LEMMA StatusStep ==
  ASSUME NEW i \in Ids, \A j \in Ids \ {i} : ev'[j] = ev[j],
         AbsPush(i)' = AbsPush(i), UNCHANGED <<emitted, dropped>>,
         \/ AbsStatus(i) = "open" /\ AbsStatus(i)' = "done" /\ i \in TellDone
         \/ AbsStatus(i) = "open" /\ AbsStatus(i)' = "lost"
         \/ /\ AbsStatus(i) \in {"done", "lost"} /\ AbsPush(i) # "owed"
            /\ AbsStatus(i)' = "forgotten"
  PROVE  Abstract!Next
<1>1. UNCHANGED TellDone
  BY DEF TellDone
<1>2. [j \in Ids |-> AbsStatus(j)]'
        = [[j \in Ids |-> AbsStatus(j)] EXCEPT ![i] = AbsStatus(i)']
  BY OnlyRow
<1>3. [j \in Ids |-> AbsPush(j)]' = [j \in Ids |-> AbsPush(j)]
  BY OnlyRow
<1>4. CASE AbsStatus(i) = "open" /\ AbsStatus(i)' = "done" /\ i \in TellDone
  <2>1. Abstract!Finish(i)
    BY <1>1, <1>2, <1>3, <1>4 DEF Abstract!Finish
  <2> QED BY <2>1 DEF Abstract!Next
<1>5. CASE AbsStatus(i) = "open" /\ AbsStatus(i)' = "lost"
  <2>1. Abstract!GiveUp(i)
    BY <1>1, <1>2, <1>3, <1>5 DEF Abstract!GiveUp
  <2> QED BY <2>1 DEF Abstract!Next
<1>6. CASE /\ AbsStatus(i) \in {"done", "lost"} /\ AbsPush(i) # "owed"
           /\ AbsStatus(i)' = "forgotten"
  <2>1. Abstract!Forget(i)
    BY <1>1, <1>2, <1>3, <1>6 DEF Abstract!Forget
  <2> QED BY <2>1 DEF Abstract!Next
<1> QED BY <1>4, <1>5, <1>6

(* The pushes of a row are settled, its status stays.                      *)
LEMMA PushStep ==
  ASSUME NEW i \in Ids, \A j \in Ids \ {i} : ev'[j] = ev[j],
         AbsStatus(i)' = AbsStatus(i), UNCHANGED <<emitted, dropped>>,
         AbsStatus(i) # "forgotten", AbsPush(i) = "owed",
         AbsPush(i)' \in {"made", "lost"}
  PROVE  Abstract!Next
<1>1. UNCHANGED TellDone
  BY DEF TellDone
<1>2. [j \in Ids |-> AbsPush(j)]'
        = [[j \in Ids |-> AbsPush(j)] EXCEPT ![i] = AbsPush(i)']
  BY OnlyRow
<1>3. [j \in Ids |-> AbsStatus(j)]' = [j \in Ids |-> AbsStatus(j)]
  BY OnlyRow
<1>4. Abstract!SettlePush(i)
  BY <1>1, <1>2, <1>3 DEF Abstract!SettlePush
<1> QED BY <1>4 DEF Abstract!Next

(* A row is told.                                                          *)
LEMMA TellStep ==
  ASSUME NEW i \in Ids, UNCHANGED ev, ev[i].st # "absent",
         TellDone' = TellDone \cup {i}
  PROVE  Abstract!Next
<1>1. AbsStatus(i) # "none"
  BY DEF AbsStatus
<1>2. \A j \in Ids : AbsStatus(j)' = AbsStatus(j) /\ AbsPush(j)' = AbsPush(j)
  BY DEF AbsStatus, AbsPush
<1>3. Abstract!Tell(i)
  BY <1>1, <1>2 DEF Abstract!Tell
<1> QED BY <1>3 DEF Abstract!Next

(* The updates of a row, as steps of EventDelivery.                        *)
LEMMA PublishedMaps ==
  ASSUME TypeOK, NEW i \in Ids, Published(i), i \in TellDone,
         UNCHANGED <<emitted, dropped>>
  PROVE  [Abstract!Next]_(Abstract!vars)
<1>1. ev \in [Ids -> Row] /\ ev[i] \in Row
  BY DEF TypeOK
<1>2. \A j \in Ids \ {i} : ev'[j] = ev[j]
  BY <1>1 DEF Published
<1>3. ev'[i] = [ev[i] EXCEPT !.st = IF @ = "processing" THEN "published" ELSE @]
  BY <1>1 DEF Published
<1>4. AbsPush(i)' = AbsPush(i)
  BY <1>1, <1>3 DEF AbsPush, Row
<1>5. CASE ev[i].st = "processing"
  <2>1. AbsStatus(i) = "open" /\ AbsStatus(i)' = "done"
    BY <1>1, <1>3, <1>5 DEF AbsStatus, Row
  <2> QED BY <1>2, <1>4, <2>1, StatusStep
<1>6. CASE ev[i].st # "processing"
  <2>1. \A j \in Ids : ev'[j] = ev[j]
    BY <1>1, <1>2, <1>3, <1>6 DEF Row
  <2> QED BY <2>1, StutterStep DEF AbsStatus, AbsPush
<1> QED BY <1>5, <1>6

LEMMA FailedMaps ==
  ASSUME TypeOK, NEW p \in Procs, NEW i \in Ids, FailedRow(p, i),
         UNCHANGED <<emitted, dropped>>
  PROVE  [Abstract!Next]_(Abstract!vars)
<1>1. ev \in [Ids -> Row] /\ ev[i] \in Row
  BY DEF TypeOK
<1>2. \A j \in Ids \ {i} : ev'[j] = ev[j]
  BY <1>1 DEF FailedRow
<1>3. CASE ev[i].st # "processing"
  <2>1. \A j \in Ids : ev'[j] = ev[j]
    BY <1>1, <1>2, <1>3 DEF FailedRow
  <2> QED BY <2>1, StutterStep DEF AbsStatus, AbsPush
<1>4. CASE ev[i].st = "processing"
  <2>1. /\ ev'[i].intent = ev[i].intent
        /\ ev'[i].st \in {"dead", "pending"}
    BY <1>1, <1>4 DEF FailedRow, Row
  <2>2. AbsPush(i)' = AbsPush(i)
    BY <2>1 DEF AbsPush
  <2>3. CASE ev'[i].st = "dead"
    <3>1. AbsStatus(i) = "open" /\ AbsStatus(i)' = "lost"
      BY <1>4, <2>3 DEF AbsStatus
    <3> QED BY <1>2, <2>2, <3>1, StatusStep
  <2>4. CASE ev'[i].st = "pending"
    <3>1. AbsStatus(i)' = AbsStatus(i)
      BY <1>4, <2>4 DEF AbsStatus
    <3>2. \A j \in Ids : AbsStatus(j)' = AbsStatus(j) /\ AbsPush(j)' = AbsPush(j)
      BY <1>2, <2>2, <3>1 DEF AbsStatus, AbsPush
    <3> QED BY <3>2, StutterStep
  <2> QED BY <2>1, <2>3, <2>4
<1> QED BY <1>3, <1>4

LEMMA CleanupMaps ==
  ASSUME TypeOK, NEW p \in Procs, NEW i \in Ids, Cleanup(p, i)
  PROVE  [Abstract!Next]_(Abstract!vars)
<1>1. ev \in [Ids -> Row] /\ ev[i] \in Row
  BY DEF TypeOK
<1>2. \A j \in Ids \ {i} : ev'[j] = ev[j]
  BY <1>1 DEF Cleanup
<1>3. ev'[i].st = "deleted" /\ ev'[i].intent = ev[i].intent
  BY <1>1 DEF Cleanup, Row
<1>4. AbsPush(i)' = AbsPush(i) /\ AbsPush(i) # "owed"
  BY <1>3 DEF AbsPush, Cleanup
<1>5. AbsStatus(i) \in {"done", "lost"} /\ AbsStatus(i)' = "forgotten"
  BY <1>3 DEF AbsStatus, Cleanup
<1> QED BY <1>2, <1>4, <1>5, StatusStep DEF Cleanup

LEMMA MaterializedMaps ==
  ASSUME TypeOK, NEW p \in Procs, NEW i \in Ids, Materialized(p, i),
         UNCHANGED <<emitted, dropped>>
  PROVE  [Abstract!Next]_(Abstract!vars)
<1>1. ev \in [Ids -> Row] /\ ev[i] \in Row
  BY DEF TypeOK
<1>2. CASE ~IntentHeld(p, i)
  BY <1>2, StutterStep DEF Materialized, AbsStatus, AbsPush
<1>3. CASE IntentHeld(p, i)
  <2>1. \A j \in Ids \ {i} : ev'[j] = ev[j]
    BY <1>1, <1>3 DEF Materialized
  <2>2. ev'[i].st = ev[i].st /\ ev'[i].intent = "completed"
    BY <1>1, <1>3 DEF Materialized, Row
  <2>3. AbsPush(i) = "owed" /\ AbsPush(i)' = "made"
    BY <1>3, <2>2 DEF AbsPush, IntentHeld
  <2>4. AbsStatus(i)' = AbsStatus(i) /\ AbsStatus(i) # "forgotten"
    BY <1>1, <1>3, <2>2 DEF AbsStatus, IntentHeld, Row, Statuses
  <2> QED BY <2>1, <2>3, <2>4, PushStep
<1> QED BY <1>2, <1>3

LEMMA IntentFailedMaps ==
  ASSUME TypeOK, NEW p \in Procs, NEW i \in Ids, IntentFailedRow(p, i),
         UNCHANGED <<emitted, dropped>>
  PROVE  [Abstract!Next]_(Abstract!vars)
<1>1. ev \in [Ids -> Row] /\ ev[i] \in Row
  BY DEF TypeOK
<1>2. \A j \in Ids \ {i} : ev'[j] = ev[j]
  BY <1>1 DEF IntentFailedRow
<1>3. CASE ~IntentHeld(p, i)
  <2>1. \A j \in Ids : ev'[j] = ev[j]
    BY <1>1, <1>2, <1>3 DEF IntentFailedRow
  <2> QED BY <2>1, StutterStep DEF AbsStatus, AbsPush
<1>4. CASE IntentHeld(p, i)
  <2>1. ev'[i].st = ev[i].st /\ ev'[i].intent \in {"dead", "pending"}
    BY <1>1, <1>4 DEF IntentFailedRow, Row
  <2>2. AbsStatus(i)' = AbsStatus(i) /\ AbsStatus(i) # "forgotten"
    BY <1>1, <1>4, <2>1 DEF AbsStatus, IntentHeld, Row, Statuses
  <2>3. CASE ev'[i].intent = "dead"
    <3>1. AbsPush(i) = "owed" /\ AbsPush(i)' = "lost"
      BY <1>4, <2>3 DEF AbsPush, IntentHeld
    <3> QED BY <1>2, <2>2, <3>1, PushStep
  <2>4. CASE ev'[i].intent = "pending"
    <3>1. AbsPush(i)' = AbsPush(i)
      BY <1>4, <2>4 DEF AbsPush, IntentHeld
    <3>2. \A j \in Ids : AbsStatus(j)' = AbsStatus(j) /\ AbsPush(j)' = AbsPush(j)
      BY <1>2, <2>2, <3>1 DEF AbsStatus, AbsPush
    <3> QED BY <3>2, StutterStep
  <2> QED BY <2>1, <2>3, <2>4
<1> QED BY <1>3, <1>4

LEMMA ProduceMaps ==
  ASSUME TypeOK, HandlesRows, NEW i \in Ids, Produce(i)
  PROVE  Abstract!Next
<1>1. ev \in [Ids -> Row] /\ ev[i] \in Row
  BY DEF TypeOK
<1>2. PICK a \in Accounts, intent \in {"none", "pending"}, type \in Types :
        Insert(i, type, a, i, 0, intent)
  BY DEF Produce
<1>3. \A j \in Ids \ {i} : ev'[j] = ev[j]
  BY <1>1, <1>2 DEF Insert
<1>4. ev'[i].st = "pending" /\ ev'[i].intent = intent
  BY <1>1, <1>2 DEF Insert, Inserted, Blank
<1>5. AbsStatus(i) = "none" /\ AbsStatus(i)' = "open"
  BY <1>2, <1>4 DEF Insert, Fresh, AbsStatus
<1>6. AbsPush(i)' \in {"none", "owed"}
  BY <1>4 DEF AbsPush
<1>7. UNCHANGED TellDone
  BY DEF Produce, TellDone
<1>8. Abstract!Record(i)
  BY <1>3, <1>5, <1>6, <1>7, OnlyRow DEF Abstract!Record
<1> QED BY <1>8 DEF Abstract!Next

LEMMA DispatchMaps ==
  ASSUME OutboxInv, NEW p \in Procs, DispatchStep(p)
  PROVE  [Abstract!Next]_(Abstract!vars)
<1>0. TypeOK /\ HandlesRows /\ ToldFirst
  BY DEF OutboxInv
<1>1. CASE UNCHANGED <<ev, emitted, dropped>>
  BY <1>1, StutterStep DEF AbsStatus, AbsPush
<1>2. CASE Claim(p)
  <2>1. \A j \in Ids : AbsStatus(j)' = AbsStatus(j) /\ AbsPush(j)' = AbsPush(j)
    <3> SUFFICES ASSUME NEW j \in Ids
                 PROVE  AbsStatus(j)' = AbsStatus(j) /\ AbsPush(j)' = AbsPush(j)
      OBVIOUS
    <3>1. ev[j] \in Row
      BY <1>0 DEF TypeOK
    <3>2. CASE ev'[j] = ev[j]
      BY <3>2 DEF AbsStatus, AbsPush
    <3>3. CASE /\ Claimable(j)
               /\ ev'[j] = [ev[j] EXCEPT !.st = "processing", !.att = @ + 1,
                                         !.ripe = FALSE]
      BY <3>1, <3>3 DEF Claimable, AbsStatus, AbsPush, Row
    <3> QED BY <1>2, <3>2, <3>3 DEF Claim
  <2> QED BY <1>2, <2>1, StutterStep DEF Claim
<1>3. ASSUME NEW i \in Ids, Emit(p, i) \/ Drop(p, i)
      PROVE  [Abstract!Next]_(Abstract!vars)
  <2>1. ev[i].st # "absent" /\ UNCHANGED ev
    BY <1>0, <1>3 DEF Emit, Drop, Current, HandlesRows
  <2>2. TellDone' = TellDone \cup {i}
    <3>1. CASE Emit(p, i)
      <4> DEFINE new == [id |-> i, seq |-> copy[p][i].seq,
                         start |-> copy[p][i].start]
      <4>1. emitted' = emitted \cup {new}
        BY <3>1 DEF Emit
      <4>2. new.id = i
        OBVIOUS
      <4> HIDE DEF new
      <4>3. {e.id : e \in emitted'} = {e.id : e \in emitted} \cup {i}
        BY <4>1, <4>2
      <4> QED BY <3>1, <4>3 DEF Emit, TellDone
    <3>2. CASE Drop(p, i)
      BY <3>2 DEF Drop, TellDone
    <3> QED BY <1>3, <3>1, <3>2
  <2> QED BY <2>1, <2>2, TellStep
<1>4. ASSUME NEW i \in Ids, MarkPublished(p, i) \/ MarkPublishedThrows(p, i)
      PROVE  [Abstract!Next]_(Abstract!vars)
  <2>1. i \in TellDone
    BY <1>0, <1>4 DEF ToldFirst, MarkPublished, MarkPublishedThrows
  <2> QED BY <1>0, <1>1, <1>4, <2>1, PublishedMaps DEF MarkPublished, MarkPublishedThrows
<1>5. ASSUME NEW i \in Ids, MarkFailed(p, i) \/ MarkFailedThrows(p, i)
      PROVE  [Abstract!Next]_(Abstract!vars)
  BY <1>0, <1>1, <1>5, FailedMaps DEF MarkFailed, MarkFailedThrows
<1>6. ASSUME NEW i \in Ids, Cleanup(p, i)
      PROVE  [Abstract!Next]_(Abstract!vars)
  BY <1>0, <1>6, CleanupMaps
<1> QED BY <1>1, <1>2, <1>3, <1>4, <1>5, <1>6
        DEF DispatchStep, Load, LoadFails, EmitFails, NotReady

LEMMA IntentMaps ==
  ASSUME OutboxInv, NEW p \in Procs, IntentStep(p)
  PROVE  [Abstract!Next]_(Abstract!vars)
<1>0. TypeOK
  BY DEF OutboxInv
<1>1. CASE UNCHANGED <<ev, emitted, dropped>>
  BY <1>1, StutterStep DEF AbsStatus, AbsPush
<1>2. CASE IntentClaim(p)
  <2>1. \A j \in Ids : AbsStatus(j)' = AbsStatus(j) /\ AbsPush(j)' = AbsPush(j)
    <3> SUFFICES ASSUME NEW j \in Ids
                 PROVE  AbsStatus(j)' = AbsStatus(j) /\ AbsPush(j)' = AbsPush(j)
      OBVIOUS
    <3>1. ev[j] \in Row
      BY <1>0 DEF TypeOK
    <3>2. CASE ev'[j] = ev[j]
      BY <3>2 DEF AbsStatus, AbsPush
    <3>3. CASE /\ IntentClaimable(j)
               /\ ev'[j] = [ev[j] EXCEPT !.intent = "processing", !.iatt = @ + 1,
                                         !.iclaim = ev[j].iatt + 1, !.iripe = FALSE]
      BY <3>1, <3>3 DEF IntentClaimable, AbsStatus, AbsPush, Row
    <3> QED BY <1>2, <3>2, <3>3 DEF IntentClaim
  <2> QED BY <1>2, <2>1, StutterStep DEF IntentClaim
<1>3. ASSUME NEW i \in Ids, Materialize(p, i) \/ MaterializeInDoubt(p, i)
      PROVE  [Abstract!Next]_(Abstract!vars)
  BY <1>0, <1>3, MaterializedMaps DEF Materialize, MaterializeInDoubt
<1>4. ASSUME NEW i \in Ids, IntentMarkFailed(p, i) \/ IntentMarkFailedThrows(p, i)
      PROVE  [Abstract!Next]_(Abstract!vars)
  BY <1>0, <1>1, <1>4, IntentFailedMaps DEF IntentMarkFailed, IntentMarkFailedThrows
<1> QED BY <1>1, <1>2, <1>3, <1>4 DEF IntentStep, MaterializeFails

LEMMA NextMaps == OutboxInv /\ [Next]_vars => [Abstract!Next]_(Abstract!vars)
<1> SUFFICES ASSUME OutboxInv, [Next]_vars
             PROVE  [Abstract!Next]_(Abstract!vars)
  OBVIOUS
<1>1. CASE UNCHANGED <<ev, emitted, dropped>>
  BY <1>1, StutterStep DEF AbsStatus, AbsPush
<1>2. ASSUME NEW i \in Ids, Ripen(i)
      PROVE  [Abstract!Next]_(Abstract!vars)
  <2>1. ev \in [Ids -> Row] /\ ev[i] \in Row
    BY DEF OutboxInv, TypeOK
  <2>2. \A j \in Ids \ {i} : ev'[j] = ev[j]
    BY <1>2, <2>1 DEF Ripen
  <2>3. ev'[i].st = ev[i].st /\ ev'[i].intent = ev[i].intent
    BY <1>2, <2>1 DEF Ripen, Row
  <2>4. \A j \in Ids : ev'[j].st = ev[j].st /\ ev'[j].intent = ev[j].intent
    BY <2>2, <2>3
  <2> QED BY <1>2, <2>4, StutterStep DEF Ripen, AbsStatus, AbsPush
<1>3. ASSUME NEW i \in Ids, Produce(i)
      PROVE  [Abstract!Next]_(Abstract!vars)
  BY <1>3, ProduceMaps DEF OutboxInv
<1> QED BY <1>1, <1>2, <1>3, DispatchMaps, IntentMaps
        DEF Next, DispatcherNext, Deactivate, Restart, MemberChanges, vars

LEMMA InitMaps == Init => Abstract!Init
<1> SUFFICES ASSUME Init
             PROVE  Abstract!Init
  OBVIOUS
<1>1. \A i \in Ids : AbsStatus(i) = "none" /\ AbsPush(i) = "none"
  BY DEF Init, AbsStatus, AbsPush, Blank
<1>2. TellDone = {}
  BY DEF Init, TellDone
<1> QED BY <1>1, <1>2 DEF Abstract!Init

(* The outbox implements EventDelivery: whatever the processes, retries,   *)
(* crashes and lost answers, an event is not done before it was told, its  *)
(* pushes are settled once, and it is not forgotten while it owes them.    *)
THEOREM Refines == Spec => AtLeastOnce
BY InitMaps, NextMaps, OutboxInvariant, PTL DEF Spec, AtLeastOnce, Abstract!Spec

-----------------------------------------------------------------------------
(* ChatMessages: one group, whose transactions write the rows.             *)

(* The dispatchers leave what a row says, and it stays in the table.       *)
Kept(i) ==
  /\ ev'[i].type = ev[i].type /\ ev'[i].actor = ev[i].actor
  /\ ev'[i].seq = ev[i].seq /\ ev'[i].start = ev[i].start
  /\ ev'[i].st = "absent" <=> ev[i].st = "absent"

LEMMA StatusKept ==
  ASSUME TypeOK, NEW i \in Ids, Published(i) \/ (\E p \in Procs : FailedRow(p, i)),
         NEW j \in Ids
  PROVE  Kept(j)
<1>0. ev \in [Ids -> Row] /\ ev[i] \in Row
  BY DEF TypeOK
<1>1. \A k \in Ids \ {i} : ev'[k] = ev[k]
  BY <1>0 DEF Published, FailedRow
<1>2. CASE Published(i) /\ j = i
  BY <1>0, <1>2 DEF Kept, Published, Row
<1>3. ASSUME NEW p \in Procs, FailedRow(p, i), j = i
      PROVE  Kept(j)
  BY <1>0, <1>3 DEF Kept, FailedRow, Row
<1> QED BY <1>1, <1>2, <1>3 DEF Kept

LEMMA IntentKept ==
  ASSUME TypeOK, NEW p \in Procs, NEW i \in Ids,
         Materialized(p, i) \/ IntentFailedRow(p, i), NEW j \in Ids
  PROVE  Kept(j) /\ ev'[j].st = ev[j].st
<1>0. ev \in [Ids -> Row] /\ ev[i] \in Row
  BY DEF TypeOK
<1>1. \A k \in Ids \ {i} : ev'[k] = ev[k]
  BY <1>0 DEF Materialized, IntentFailedRow
<1>2. CASE j = i /\ Materialized(p, i)
  BY <1>0, <1>2 DEF Kept, Materialized, Row
<1>3. CASE j = i /\ IntentFailedRow(p, i)
  BY <1>0, <1>3 DEF Kept, IntentFailedRow, Row
<1> QED BY <1>1, <1>2, <1>3 DEF Kept

LEMMA DispatchKeeps ==
  ASSUME TypeOK, DispatcherNext, NEW j \in Ids
  PROVE  Kept(j)
<1>0. ev \in [Ids -> Row]
  BY DEF TypeOK
<1>1. UNCHANGED ev => Kept(j)
  BY DEF Kept
<1>2. ASSUME NEW p \in Procs, DispatchStep(p)
      PROVE  Kept(j)
  <2>1. CASE Claim(p)
    <3>1. ev'[j] = IF Claimable(j)
                   THEN [ev[j] EXCEPT !.st = "processing", !.att = @ + 1,
                                      !.ripe = FALSE]
                   ELSE ev[j]
      BY <2>1 DEF Claim
    <3>2. ev[j] \in Row
      BY <1>0
    <3> QED BY <3>1, <3>2 DEF Claimable, Kept, Row
  <2>2. CASE Load(p) \/ LoadFails(p) \/ EmitFails(p) \/ NotReady(p)
    BY <1>1, <2>2 DEF Load, LoadFails, EmitFails, NotReady
  <2>3. ASSUME NEW i \in Ids, Emit(p, i) \/ Drop(p, i)
        PROVE  Kept(j)
    BY <1>1, <2>3 DEF Emit, Drop
  <2>4. ASSUME NEW i \in Ids,
               \/ MarkPublished(p, i) \/ MarkPublishedThrows(p, i)
               \/ MarkFailed(p, i) \/ MarkFailedThrows(p, i)
        PROVE  Kept(j)
    <3>1. Published(i) \/ FailedRow(p, i) \/ UNCHANGED ev
      BY <2>4 DEF MarkPublished, MarkPublishedThrows, MarkFailed, MarkFailedThrows
    <3> QED BY <1>1, <3>1, StatusKept
  <2>5. ASSUME NEW i \in Ids, Cleanup(p, i)
        PROVE  Kept(j)
    BY <1>0, <2>5 DEF Cleanup, Kept, Row
  <2> QED BY <1>2, <2>1, <2>2, <2>3, <2>4, <2>5 DEF DispatchStep
<1>3. ASSUME NEW p \in Procs, IntentStep(p)
      PROVE  Kept(j)
  <2>1. CASE IntentClaim(p)
    <3>1. ev[j] \in Row
      BY <1>0
    <3> QED BY <2>1, <3>1 DEF IntentClaim, Kept, Row
  <2>2. CASE MaterializeFails(p)
    BY <1>1, <2>2 DEF MaterializeFails
  <2>3. ASSUME NEW i \in Ids,
               \/ Materialize(p, i) \/ MaterializeInDoubt(p, i)
               \/ IntentMarkFailed(p, i) \/ IntentMarkFailedThrows(p, i)
        PROVE  Kept(j)
    <3>1. Materialized(p, i) \/ IntentFailedRow(p, i) \/ UNCHANGED ev
      BY <2>3 DEF Materialize, MaterializeInDoubt, IntentMarkFailed,
                  IntentMarkFailedThrows
    <3> QED BY <1>1, <3>1, IntentKept
  <2> QED BY <1>3, <2>1, <2>2, <2>3 DEF IntentStep
<1>4. ASSUME NEW p \in Procs, Deactivate(p) \/ Restart(p)
      PROVE  Kept(j)
  BY <1>1, <1>4 DEF Deactivate, Restart
<1>5. ASSUME NEW i \in Ids, Ripen(i)
      PROVE  Kept(j)
  BY <1>0, <1>5 DEF Ripen, Kept, Row
<1> QED BY <1>2, <1>3, <1>4, <1>5 DEF DispatcherNext

-----------------------------------------------------------------------------
(* A transaction of the group may insert rows, and extend those that are   *)
(* pending; the outbox does not mind.                                      *)
Written(i) ==
  \/ ev'[i] = ev[i]
  \/ /\ ev'[i].st = "pending" /\ ev[i].st \in {"absent", "pending"}
     /\ ev'[i].iatt = ev[i].iatt /\ ev'[i].iclaim = ev[i].iclaim

LEMMA WrittenInv ==
  ASSUME OutboxInv, UNCHANGED dispatcherVars, faults' \in Nat,
         member' \subseteq Accounts, ev' \in [Ids -> Row],
         \A i \in Ids : Written(i)
  PROVE  OutboxInv'
<1> USE DEF OutboxInv, dispatcherVars
<1>1. TypeOK'
  BY DEF TypeOK
<1>2. HandlesRows'
  <2>1. \A p \in Procs : claimed[p] \subseteq Ids
    BY DEF TypeOK
  <2> QED BY <2>1 DEF HandlesRows, Written, Batch
<1>3. ToldFirst'
  BY DEF ToldFirst, TellDone, Written, Current, Batch
<1>4. TokensFresh'
  BY DEF TokensFresh, Written
<1> QED BY <1>1, <1>2, <1>3, <1>4

(* The message of a key: there is one at most.                             *)
Found(m, a, id) == Max({0} \cup {n \in DOMAIN m : m[n].a = a /\ m[n].id = id})
OneOfKey(m) ==
  \A k, n \in DOMAIN m : m[k].a = m[n].a /\ m[k].id = m[n].id => k = n

LEMMA FoundIs ==
  ASSUME NEW m \in Seq(Message), OneOfKey(m), NEW a, NEW id
  PROVE  /\ \A n \in DOMAIN m : m[n].a = a /\ m[n].id = id => Found(m, a, id) = n
         /\ Found(m, a, id) # 0 =>
              /\ Found(m, a, id) \in DOMAIN m
              /\ m[Found(m, a, id)].a = a /\ m[Found(m, a, id)].id = id
<1> DEFINE S == {n \in DOMAIN m : m[n].a = a /\ m[n].id = id}
<1>1. CASE S = {}
  <2>1. {0} \cup S = {0}
    BY <1>1
  <2>2. Max({0}) = 0
    BY DEF Max
  <2> QED BY <1>1, <2>1, <2>2 DEF Found
<1>2. ASSUME NEW n \in S
      PROVE  Found(m, a, id) = n
  <2>1. n \in Nat \ {0}
    BY <1>2
  <2>2. S = {n}
    BY <1>2 DEF OneOfKey
  <2>3. {0} \cup S = {0, n}
    BY <2>2
  <2>4. Max({0, n}) = n
    BY <2>1 DEF Max
  <2> QED BY <2>3, <2>4 DEF Found
<1> QED BY <1>1, <1>2

LEMMA PositionFound ==
  ASSUME NEW a, NEW id
  PROVE  /\ Position(a, id) = Found(msgs, a, id)
         /\ Position(a, id)' = Found(msgs', a, id)
BY DEF Position, Found

-----------------------------------------------------------------------------
(* What the transactions do to the rows.                                   *)
InOrder(rows) ==
  \A i, j \in Ids : i < j /\ rows[i].st = "absent" => rows[j].st = "absent"

LEMMA InsertedRow ==
  ASSUME NEW type \in Types, NEW a \in Accounts, NEW s \in Nat, NEW from \in Nat,
         NEW intent \in {"none", "pending"}
  PROVE  LET row == Inserted(type, a, s, from, intent) IN
         /\ row \in Row
         /\ row.type = type /\ row.actor = a /\ row.seq = s /\ row.start = from
         /\ row.st = "pending" /\ row.iatt = 0 /\ row.iclaim = 0
<1>1. Inserted(type, a, s, from, intent) \in Row
  BY InsertedType
<1> QED BY <1>1 DEF Inserted, Blank

LEMMA ExtendedRow ==
  ASSUME NEW row \in Row, NEW s \in Nat, NEW from \in Nat
  PROVE  LET new == Extended(row, s, from) IN
         /\ new \in Row
         /\ new.type = row.type /\ new.actor = row.actor /\ new.st = row.st
         /\ new.iatt = row.iatt /\ new.iclaim = row.iclaim
         /\ new.seq >= row.seq /\ new.seq >= s
         /\ new.start <= row.start /\ new.start <= from
<1>1. \A x, y \in Nat : [row EXCEPT !.seq = x, !.start = y] \in Row
  BY DEF Row
<1> DEFINE x == IF row.seq > s THEN row.seq ELSE s
           y == IF row.start < from THEN row.start ELSE from
<1>2. x \in Nat /\ y \in Nat
  BY DEF Row
<1>3. Extended(row, s, from) = [row EXCEPT !.seq = x, !.start = y]
  BY DEF Extended, Row
<1>4. x >= row.seq /\ x >= s /\ y <= row.start /\ y <= from
  BY DEF Row
<1> DEFINE new == [row EXCEPT !.seq = x, !.start = y]
<1> HIDE DEF x, y
<1>5. new \in Row
  BY <1>1, <1>2
<1>6. /\ new.type = row.type /\ new.actor = row.actor /\ new.st = row.st
      /\ new.iatt = row.iatt /\ new.iclaim = row.iclaim
      /\ new.seq = x /\ new.start = y
  BY DEF Row
<1>7. Extended(row, s, from) = new
  BY <1>3
<1> HIDE DEF new
<1> QED BY <1>4, <1>5, <1>6, <1>7

LEMMA FreshRow ==
  ASSUME TypeOK, HandlesRows, InOrder(ev), NEW i \in Ids, Fresh(i),
         NEW row \in Row, row.st = "pending", ev' = [ev EXCEPT ![i] = row]
  PROVE  /\ ev' \in [Ids -> Row] /\ InOrder(ev')
         /\ ev'[i] = row /\ \A j \in Ids \ {i} : ev'[j] = ev[j]
         /\ ev[i].st = "absent" /\ ev[i].iatt = 0 /\ ev[i].iclaim = 0
<1>1. ev \in [Ids -> Row]
  BY DEF TypeOK
<1>2. ev'[i] = row /\ \A j \in Ids \ {i} : ev'[j] = ev[j]
  BY <1>1
<1>3. ev[i].st = "absent" /\ ev[i].iatt = 0 /\ ev[i].iclaim = 0
  BY DEF Fresh, HandlesRows, Blank
<1>4. InOrder(ev')
  BY <1>2 DEF InOrder, Fresh, Ids
<1> QED BY <1>1, <1>2, <1>3, <1>4

(* A report inserts rows of cursor events, and extends the pending ones.   *)
Reported(j) ==
  \/ ev'[j] = ev[j]
  \/ /\ ev[j].st = "absent" /\ ev'[j].st = "pending"
     /\ ev'[j].type \in {"read", "delivered"}
     /\ ev'[j].iatt = ev[j].iatt /\ ev'[j].iclaim = ev[j].iclaim
  \/ /\ ev[j].st = "pending" /\ ev'[j].st = "pending"
     /\ ev[j].type = "delivered" /\ ev'[j].type = "delivered"
     /\ ev'[j].actor = ev[j].actor
     /\ ev'[j].seq >= ev[j].seq /\ ev'[j].start <= ev[j].start
     /\ ev'[j].iatt = ev[j].iatt /\ ev'[j].iclaim = ev[j].iclaim

LEMMA ExtendedReport ==
  ASSUME TypeOK, NEW j \in Ids, NEW a, DeliveredRow(j, a),
         NEW from \in Nat, NEW to \in Nat, ev'[j] = Extended(ev[j], to, from)
  PROVE  /\ ev'[j] \in Row /\ Reported(j)
         /\ ev'[j].st = "pending" /\ ev'[j].type = "delivered" /\ ev'[j].actor = a
         /\ ev'[j].seq >= to /\ ev'[j].start <= from
<1> DEFINE new == Extended(ev[j], to, from)
<1>1. ev[j] \in Row
  BY DEF TypeOK
<1>2. /\ new \in Row
      /\ new.type = ev[j].type /\ new.actor = ev[j].actor /\ new.st = ev[j].st
      /\ new.iatt = ev[j].iatt /\ new.iclaim = ev[j].iclaim
      /\ new.seq >= ev[j].seq /\ new.seq >= to
      /\ new.start <= ev[j].start /\ new.start <= from
  BY <1>1, ExtendedRow
<1>3. ev'[j] = new
  OBVIOUS
<1> HIDE DEF new
<1> QED BY <1>2, <1>3 DEF Reported, DeliveredRow

Announced(a, from, to) ==
  \A n \in Ticks(a, from, to) : \E j \in Ids :
    /\ ev'[j].st = "pending" /\ ev'[j].type = "delivered" /\ ev'[j].actor = a
    /\ Covers(ev'[j].start, ev'[j].seq, n)

Reports(a, from, to) ==
  /\ ev' \in [Ids -> Row] /\ InOrder(ev')
  /\ \A j \in Ids : Reported(j)
  /\ Announced(a, from, to)

LEMMA TickRange ==
  ASSUME msgs \in Seq(Message),
         NEW a, NEW from \in Nat, NEW to \in Nat, NEW n \in Ticks(a, from, to),
         NEW start \in Nat, NEW seq \in Nat, start <= from, to <= seq
  PROVE  Covers(start, seq, n)
<1>1. n \in Int /\ from < n /\ n <= to
  BY DEF Ticks
<1> QED BY <1>1 DEF Covers

(* enqueueDeliveredEvent by itself.                                        *)
LEMMA EnqueueReports ==
  ASSUME TypeOK, HandlesRows, InOrder(ev), msgs \in Seq(Message),
         NEW a \in Accounts, NEW i \in Ids,
         NEW from \in Nat, NEW to \in Nat, EnqueueDelivered(a, from, to, ev, i)
  PROVE  Reports(a, from, to)
<1>0. ev \in [Ids -> Row] /\ \A j \in Ids : ev[j] \in Row
  BY DEF TypeOK
<1>1. CASE Ticks(a, from, to) = {}
  <2>1. ev' = ev
    BY <1>1 DEF EnqueueDelivered
  <2> QED BY <1>0, <1>1, <2>1 DEF Reports, Reported, Announced, InOrder
<1>2. CASE Ticks(a, from, to) # {} /\ \E j \in Ids : DeliveredRow(j, a)
  <2>1. ev' = [j \in Ids |-> IF DeliveredRow(j, a) THEN Extended(ev[j], to, from)
                             ELSE ev[j]]
    BY <1>2 DEF EnqueueDelivered
  <2>2. \A j \in Ids : /\ ev'[j] \in Row
                       /\ DeliveredRow(j, a) => ev'[j] = Extended(ev[j], to, from)
                       /\ ~DeliveredRow(j, a) => ev'[j] = ev[j]
    BY <1>0, <2>1, ExtendedRow
  <2>3. \A j \in Ids : Reported(j) /\ ev'[j].st = ev[j].st
    <3> SUFFICES ASSUME NEW j \in Ids
                 PROVE  Reported(j) /\ ev'[j].st = ev[j].st
      OBVIOUS
    <3>1. CASE DeliveredRow(j, a)
      <4>1. ev'[j] = Extended(ev[j], to, from)
        BY <2>2, <3>1
      <4> QED BY <3>1, <4>1, ExtendedReport DEF DeliveredRow
    <3>2. CASE ~DeliveredRow(j, a)
      BY <2>2, <3>2 DEF Reported
    <3> QED BY <3>1, <3>2
  <2>4. Announced(a, from, to)
    <3>1. PICK j \in Ids : DeliveredRow(j, a)
      BY <1>2
    <3>2. /\ ev'[j].st = "pending" /\ ev'[j].type = "delivered" /\ ev'[j].actor = a
          /\ ev'[j].seq >= to /\ ev'[j].start <= from
      <4>1. ev'[j] = Extended(ev[j], to, from)
        BY <2>2, <3>1
      <4> QED BY <3>1, <4>1, ExtendedReport
    <3>3. ev'[j].seq \in Nat /\ ev'[j].start \in Nat
      BY <2>2 DEF Row
    <3> QED BY <3>2, <3>3, TickRange DEF Announced
  <2> QED BY <2>1, <2>2, <2>3, <2>4 DEF Reports, InOrder
<1>3. CASE Ticks(a, from, to) # {} /\ ~\E j \in Ids : DeliveredRow(j, a)
  <2> DEFINE row == Inserted("delivered", a, to, from, "none")
  <2>1. Fresh(i) /\ ev' = [ev EXCEPT ![i] = row]
    BY <1>3 DEF EnqueueDelivered
  <2>2. /\ row \in Row /\ row.type = "delivered" /\ row.actor = a /\ row.seq = to
        /\ row.start = from /\ row.st = "pending" /\ row.iatt = 0 /\ row.iclaim = 0
    BY InsertedRow DEF Types
  <2> HIDE DEF row
  <2>3. /\ ev' \in [Ids -> Row] /\ InOrder(ev')
        /\ ev'[i] = row /\ \A j \in Ids \ {i} : ev'[j] = ev[j]
        /\ ev[i].st = "absent" /\ ev[i].iatt = 0 /\ ev[i].iclaim = 0
    BY <2>1, <2>2, FreshRow
  <2>4. \A j \in Ids : Reported(j)
    BY <2>2, <2>3 DEF Reported
  <2>5. Announced(a, from, to)
    BY <2>2, <2>3, TickRange DEF Announced
  <2> QED BY <2>3, <2>4, <2>5 DEF Reports
<1> QED BY <1>1, <1>2, <1>3

(* advanceReadCursor: a read row, and what the delivered cursor announces. *)
LEMMA ReadReports ==
  ASSUME TypeOK, HandlesRows, InOrder(ev), msgs \in Seq(Message),
         NEW a \in Accounts, NEW i \in Ids, NEW k \in Ids,
         NEW from \in Nat, NEW to \in Nat, NEW moved \in BOOLEAN,
         ~moved => Ticks(a, from, to) = {}, Fresh(i),
         LET rows == [ev EXCEPT ![i] = Inserted("read", a, to, 0, "none")] IN
         IF moved /\ Ticks(a, from, to) # {} /\ ~\E j \in Ids : DeliveredRow(j, a)
         THEN k = i + 1 /\ k \in Ids
              /\ ev' = [rows EXCEPT ![k] = Inserted("delivered", a, to, from, "none")]
         ELSE k = i
              /\ IF moved THEN EnqueueDelivered(a, from, to, rows, i)
                          ELSE ev' = rows
  PROVE  Reports(a, from, to)
<1> DEFINE read == Inserted("read", a, to, 0, "none")
           rows == [ev EXCEPT ![i] = read]
<1>0. ev \in [Ids -> Row] /\ \A j \in Ids : ev[j] \in Row
  BY DEF TypeOK
<1>1. /\ read \in Row /\ read.type = "read" /\ read.st = "pending"
      /\ read.iatt = 0 /\ read.iclaim = 0
  BY InsertedRow DEF Types
<1>2. /\ rows \in [Ids -> Row]
      /\ rows[i] = read /\ \A j \in Ids \ {i} : rows[j] = ev[j]
      /\ ev[i].st = "absent" /\ ev[i].iatt = 0 /\ ev[i].iclaim = 0
  BY <1>0, <1>1 DEF Fresh, HandlesRows, Blank
<1>3. InOrder(rows)
  BY <1>2 DEF InOrder, Fresh, Ids
<1>4. ~DeliveredRow(i, a)
  BY <1>2 DEF DeliveredRow
<1>5. CASE moved /\ Ticks(a, from, to) # {} /\ ~\E j \in Ids : DeliveredRow(j, a)
  <2> DEFINE row == Inserted("delivered", a, to, from, "none")
  <2>1. k = i + 1 /\ ev' = [rows EXCEPT ![k] = row]
    BY <1>5
  <2>2. /\ row \in Row /\ row.type = "delivered" /\ row.actor = a /\ row.seq = to
        /\ row.start = from /\ row.st = "pending" /\ row.iatt = 0 /\ row.iclaim = 0
    BY InsertedRow DEF Types
  <2> HIDE DEF row, rows, read
  <2>3. /\ ev' \in [Ids -> Row] /\ ev'[k] = row
        /\ \A j \in Ids \ {k} : ev'[j] = rows[j]
    BY <1>2, <2>1, <2>2
  <2>4. ev[k] = Blank /\ k # i
    <3>1. i < k
      BY <2>1 DEF Ids
    <3>2. ev[k].st = "absent"
      BY <1>2, <3>1 DEF InOrder
    <3> QED BY <3>1, <3>2 DEF HandlesRows, Ids
  <2>5. \A j \in Ids : Reported(j)
    BY <1>1, <1>2, <2>2, <2>3, <2>4 DEF Reported, Blank
  <2>6. InOrder(ev')
    <3>1. \A j \in Ids : j < k => ev'[j].st # "absent"
      BY <1>1, <1>2, <2>1, <2>3 DEF Fresh, Ids
    <3> QED BY <1>2, <1>3, <2>2, <2>3, <3>1 DEF InOrder, Ids
  <2>7. Announced(a, from, to)
    BY <2>2, <2>3, TickRange DEF Announced
  <2> QED BY <2>3, <2>5, <2>6, <2>7 DEF Reports
<1>6. CASE ~moved \/ Ticks(a, from, to) = {}
  <2>1. Ticks(a, from, to) = {}
    BY <1>6
  <2>2. ev' = rows
    BY <1>6, <2>1 DEF EnqueueDelivered
  <2> HIDE DEF rows, read
  <2>3. \A j \in Ids : Reported(j)
    BY <1>1, <1>2, <2>2 DEF Reported
  <2> QED BY <1>2, <1>3, <2>1, <2>2, <2>3 DEF Reports, Announced
<1>7. CASE moved /\ Ticks(a, from, to) # {} /\ \E j \in Ids : DeliveredRow(j, a)
  <2>1. ev' = [j \in Ids |-> IF DeliveredRow(j, a) THEN Extended(rows[j], to, from)
                             ELSE rows[j]]
    BY <1>7 DEF EnqueueDelivered
  <2> HIDE DEF rows, read
  <2>2. \A j \in Ids : /\ DeliveredRow(j, a) => ev'[j] = Extended(ev[j], to, from)
                       /\ ~DeliveredRow(j, a) => ev'[j] = rows[j]
    BY <1>2, <1>4, <2>1
  <2>3. ASSUME NEW j \in Ids
        PROVE  /\ ev'[j] \in Row /\ Reported(j)
               /\ ev'[j].st = "absent" <=> rows[j].st = "absent"
    <3>1. CASE DeliveredRow(j, a)
      <4>1. ev'[j] = Extended(ev[j], to, from)
        BY <2>2, <3>1
      <4>2. rows[j] = ev[j]
        BY <1>2, <1>4, <3>1
      <4> QED BY <3>1, <4>1, <4>2, ExtendedReport DEF DeliveredRow
    <3>2. CASE ~DeliveredRow(j, a)
      BY <1>1, <1>2, <2>2, <3>2 DEF Reported
    <3> QED BY <3>1, <3>2
  <2>4. Announced(a, from, to)
    <3>1. PICK j \in Ids : DeliveredRow(j, a)
      BY <1>7
    <3>2. /\ ev'[j].st = "pending" /\ ev'[j].type = "delivered" /\ ev'[j].actor = a
          /\ ev'[j].seq >= to /\ ev'[j].start <= from
      <4>1. ev'[j] = Extended(ev[j], to, from)
        BY <2>2, <3>1
      <4> QED BY <3>1, <4>1, ExtendedReport
    <3>3. ev'[j].seq \in Nat /\ ev'[j].start \in Nat
      BY <2>3 DEF Row
    <3> QED BY <3>2, <3>3, TickRange DEF Announced
  <2>5. InOrder(ev')
    BY <1>3, <2>3 DEF InOrder
  <2>6. ev' \in [Ids -> Row]
    BY <2>1, <2>3
  <2> QED BY <2>3, <2>4, <2>5, <2>6 DEF Reports
<1> QED BY <1>5, <1>6, <1>7

-----------------------------------------------------------------------------
(* The transaction of a send.                                              *)
NewMessage(r) == [a |-> req[r].a, id |-> req[r].id, text |-> req[r].text]

LEMMA SendStores ==
  ASSUME ChatInd, NEW r \in Requests, NEW i \in Ids,
         SendCommit(r, i) \/ SendInDoubt(r, i)
  PROVE  /\ req[r].st = "checked" /\ Position(req[r].a, req[r].id) = 0
         /\ NewMessage(r) \in Message
         /\ msgs' = Append(msgs, NewMessage(r)) /\ Len(msgs) + 1 <= MaxSeq
         /\ ev[i].st = "absent"
         /\ ev'[i].st = "pending" /\ ev'[i].type = "message"
         /\ ev'[i].seq = Len(msgs) + 1
         /\ \A j \in Ids \ {i} : ev'[j] = ev[j]
         /\ InOrder(ev') /\ OutboxInv'
         /\ req' = [req EXCEPT ![r].st = "ok", ![r].seq = Len(msgs) + 1]
              \/ req' = [req EXCEPT ![r].st = "failed"]
         /\ UNCHANGED <<member, dispatcherVars, clr, owed>>
<1> DEFINE n == Len(msgs) + 1
           intent == IF PushIntents THEN "pending" ELSE "none"
           row == Inserted("message", req[r].a, n, 0, intent)
<1>1. /\ req[r].st = "checked" /\ Position(req[r].a, req[r].id) = 0
      /\ Stored(req[r], i)
      /\ req' = [req EXCEPT ![r].st = "ok", ![r].seq = n]
           \/ req' = [req EXCEPT ![r].st = "failed"]
      /\ faults' = faults \/ Fault
  BY DEF SendCommit, SendInDoubt
<1>2. NewMessage(r) \in Message
  BY <1>1 DEF ChatInd, OfItsMessages, NewMessage, Message
<1>3. n \in Nat
  BY DEF ChatInd, ChatTypeOK
<1>4. /\ msgs' = Append(msgs, NewMessage(r)) /\ n <= MaxSeq
      /\ Fresh(i) /\ ev' = [ev EXCEPT ![i] = row]
      /\ UNCHANGED <<member, dispatcherVars, clr, owed>>
  BY <1>1 DEF Stored, Insert, NewMessage
<1>5. /\ row \in Row /\ row.type = "message" /\ row.seq = n /\ row.st = "pending"
      /\ row.iatt = 0 /\ row.iclaim = 0
  BY <1>2, <1>3, InsertedRow DEF Types, NewMessage, Message
<1> HIDE DEF n, row
<1>6. /\ TypeOK /\ HandlesRows /\ InOrder(ev)
  BY DEF ChatInd, OutboxInv, OfItsMessages, InOrder
<1>7. /\ ev' \in [Ids -> Row] /\ InOrder(ev')
      /\ ev'[i] = row /\ \A j \in Ids \ {i} : ev'[j] = ev[j]
      /\ ev[i].st = "absent" /\ ev[i].iatt = 0 /\ ev[i].iclaim = 0
  BY <1>4, <1>5, <1>6, FreshRow
<1>8. OutboxInv'
  <2>1. faults' \in Nat /\ member' \subseteq Accounts
    BY <1>1, <1>4, <1>6 DEF Fault, TypeOK
  <2>2. \A j \in Ids : Written(j)
    BY <1>5, <1>7 DEF Written
  <2> QED BY <1>4, <1>7, <2>1, <2>2, WrittenInv DEF ChatInd
<1> QED BY <1>1, <1>2, <1>4, <1>5, <1>7, <1>8 DEF n

LEMMA SendMessages ==
  ASSUME ChatInd, NEW r \in Requests, NEW i \in Ids,
         SendCommit(r, i) \/ SendInDoubt(r, i)
  PROVE  /\ msgs' \in Seq(Message) /\ Len(msgs') = Len(msgs) + 1
         /\ DOMAIN msgs = 1 .. Len(msgs) /\ DOMAIN msgs' = 1 .. Len(msgs) + 1
         /\ \A k \in DOMAIN msgs : msgs'[k] = msgs[k]
         /\ msgs'[Len(msgs) + 1] = NewMessage(r)
<1>1. msgs \in Seq(Message) /\ NewMessage(r) \in Message
      /\ msgs' = Append(msgs, NewMessage(r))
  BY SendStores DEF ChatInd, ChatTypeOK
<1> HIDE DEF NewMessage
<1> QED BY <1>1

(* A cursor moves up, and what that changes for others is announced.       *)
Moved(a) ==
  /\ cur' \in [Accounts -> [read : -1 .. Len(msgs), dlv : 0 .. Len(msgs),
                            cleared : 0 .. Len(msgs), wiped : 0 .. Len(msgs)]]
  /\ \A b \in Accounts \ {a} : cur'[b] = cur[b]
  /\ cur'[a].read >= cur[a].read /\ cur'[a].dlv >= cur[a].dlv
  /\ cur'[a].wiped = cur[a].wiped
  /\ cur'[a].read = cur[a].read \/ cur'[a].read <= cur'[a].dlv
  /\ owed' = [owed EXCEPT ![a] = @ \cup Ticks(a, cur[a].dlv, cur'[a].dlv)]
  /\ Reports(a, cur[a].dlv, cur'[a].dlv)
  /\ UNCHANGED <<member, dispatcherVars, faults, msgs, req, clr>>

LEMMA CursorType ==
  ASSUME ChatInd
  PROVE  /\ Len(msgs) \in Nat /\ msgs \in Seq(Message)
         /\ TypeOK /\ HandlesRows /\ InOrder(ev)
         /\ \A a \in Accounts :
              /\ cur[a].read \in -1 .. Len(msgs) /\ cur[a].dlv \in 0 .. Len(msgs)
              /\ cur[a].cleared \in 0 .. Len(msgs) /\ cur[a].wiped \in 0 .. Len(msgs)
BY DEF ChatInd, ChatTypeOK, OutboxInv, OfItsMessages, InOrder

LEMMA DeliveredMoves ==
  ASSUME ChatInd, NEW a \in Accounts, NEW s \in 0 .. MaxSeq, NEW i \in Ids,
         AdvanceDelivered(a, s, i)
  PROVE  Moved(a)
<1> DEFINE target == IF s > Len(msgs) THEN Len(msgs) ELSE s
           next   == Largest(target, Largest(cur[a].dlv, cur[a].read))
<1>0. s \in Nat
  BY ChatMessagesAssumption
<1>1. /\ next > cur[a].dlv
      /\ cur' = [cur EXCEPT ![a].dlv = next]
      /\ EnqueueDelivered(a, cur[a].dlv, next, ev, i)
      /\ owed' = [owed EXCEPT ![a] = @ \cup Ticks(a, cur[a].dlv, next)]
      /\ UNCHANGED <<member, dispatcherVars, faults, msgs, req, clr>>
  BY DEF AdvanceDelivered
<1>2. next \in 0 .. Len(msgs)
  BY <1>0, CursorType DEF Largest
<1> HIDE DEF next
<1>3. cur \in [Accounts -> [read : -1 .. Len(msgs), dlv : 0 .. Len(msgs),
                            cleared : 0 .. Len(msgs), wiped : 0 .. Len(msgs)]]
  BY DEF ChatInd, ChatTypeOK
<1>4. /\ cur'[a].dlv = next /\ cur'[a].read = cur[a].read
      /\ cur'[a].wiped = cur[a].wiped
      /\ \A b \in Accounts \ {a} : cur'[b] = cur[b]
      /\ cur' \in [Accounts -> [read : -1 .. Len(msgs), dlv : 0 .. Len(msgs),
                                cleared : 0 .. Len(msgs), wiped : 0 .. Len(msgs)]]
  BY <1>1, <1>2, <1>3
<1>5. Reports(a, cur[a].dlv, next)
  <2>1. cur[a].dlv \in Nat /\ next \in Nat
    BY <1>2, CursorType
  <2> QED BY <1>1, <2>1, CursorType, EnqueueReports
<1>6. cur'[a].read >= cur[a].read /\ cur'[a].dlv >= cur[a].dlv
  BY <1>1, <1>2, <1>4, CursorType
<1> QED BY <1>1, <1>4, <1>5, <1>6 DEF Moved

LEMMA ReadMoves ==
  ASSUME ChatInd, NEW a \in Accounts, NEW s \in 0 .. MaxSeq, NEW i \in Ids,
         NEW k \in Ids, AdvanceRead(a, s, i, k)
  PROVE  Moved(a)
<1> DEFINE target == IF s > Len(msgs) THEN Len(msgs) ELSE s
           next   == Largest(target, Largest(cur[a].read, 0))
           moved  == next > cur[a].dlv
           last   == Largest(cur[a].dlv, next)
<1>0. s \in Nat
  BY ChatMessagesAssumption
<1>1. /\ next > cur[a].read /\ Fresh(i)
      /\ cur' = [cur EXCEPT ![a].read = next, ![a].dlv = Largest(@, next)]
      /\ LET rows == [ev EXCEPT ![i] = Inserted("read", a, next, 0, "none")] IN
         IF moved /\ Ticks(a, cur[a].dlv, next) # {} /\ ~\E j \in Ids : DeliveredRow(j, a)
         THEN k = i + 1 /\ k \in Ids
              /\ ev' = [rows EXCEPT ![k] =
                          Inserted("delivered", a, next, cur[a].dlv, "none")]
         ELSE k = i
              /\ IF moved THEN EnqueueDelivered(a, cur[a].dlv, next, rows, i)
                          ELSE ev' = rows
      /\ owed' = [owed EXCEPT ![a] = @ \cup Ticks(a, cur[a].dlv, next)]
      /\ UNCHANGED <<member, dispatcherVars, faults, msgs, req, clr>>
  BY DEF AdvanceRead
<1>2. next \in 0 .. Len(msgs)
  BY <1>0, CursorType DEF Largest
<1> HIDE DEF next
<1>3. cur \in [Accounts -> [read : -1 .. Len(msgs), dlv : 0 .. Len(msgs),
                            cleared : 0 .. Len(msgs), wiped : 0 .. Len(msgs)]]
  BY DEF ChatInd, ChatTypeOK
<1>4. last \in 0 .. Len(msgs) /\ last >= next /\ last >= cur[a].dlv
  BY <1>2, CursorType DEF Largest
<1>5. /\ cur'[a].dlv = last /\ cur'[a].read = next
      /\ cur'[a].wiped = cur[a].wiped
      /\ \A b \in Accounts \ {a} : cur'[b] = cur[b]
      /\ cur' \in [Accounts -> [read : -1 .. Len(msgs), dlv : 0 .. Len(msgs),
                                cleared : 0 .. Len(msgs), wiped : 0 .. Len(msgs)]]
  <2> DEFINE c == [cur[a] EXCEPT !.read = next, !.dlv = last]
  <2>1. cur' = [cur EXCEPT ![a] = c]
    BY <1>1, <1>3
  <2> HIDE DEF last
  <2>2. c.dlv = last /\ c.read = next /\ c.wiped = cur[a].wiped
        /\ c \in [read : -1 .. Len(msgs), dlv : 0 .. Len(msgs),
                  cleared : 0 .. Len(msgs), wiped : 0 .. Len(msgs)]
    <3>1. next \in -1 .. Len(msgs)
      BY <1>2, CursorType
    <3> QED BY <1>3, <1>4, <3>1
  <2> HIDE DEF c
  <2> QED BY <1>3, <2>1, <2>2
<1>6. Ticks(a, cur[a].dlv, last) = Ticks(a, cur[a].dlv, next)
      /\ (~moved => Ticks(a, cur[a].dlv, next) = {})
  <2>1. cur[a].dlv \in Nat /\ DOMAIN msgs = 1 .. Len(msgs) /\ Len(msgs) \in Nat
    BY CursorType
  <2>2. CASE moved
    BY <1>2, <2>1, <2>2 DEF Largest
  <2>3. CASE ~moved
    <3>1. last = cur[a].dlv
      BY <1>2, <2>1, <2>3 DEF Largest
    <3>2. Ticks(a, cur[a].dlv, next) = {} /\ Ticks(a, cur[a].dlv, cur[a].dlv) = {}
      BY <1>2, <2>1, <2>3 DEF Ticks
    <3> QED BY <3>1, <3>2
  <2> QED BY <2>2, <2>3
<1>7. Reports(a, cur[a].dlv, next)
  <2>1. cur[a].dlv \in Nat /\ next \in Nat /\ moved \in BOOLEAN
    BY <1>2, CursorType
  <2> HIDE DEF moved
  <2> QED BY <1>1, <1>6, <2>1, CursorType, ReadReports
<1>8. Reports(a, cur[a].dlv, last)
  BY <1>6, <1>7 DEF Reports, Announced
<1>9. cur'[a].read >= cur[a].read /\ cur'[a].dlv >= cur[a].dlv
      /\ cur'[a].read <= cur'[a].dlv
  BY <1>1, <1>2, <1>4, <1>5, CursorType
<1> HIDE DEF last
<1> QED BY <1>1, <1>5, <1>6, <1>8, <1>9 DEF Moved

-----------------------------------------------------------------------------
(* The other steps of the members write no row.                            *)
Ask(r) ==
  \/ \E a \in Accounts, id \in ClientIds, text \in Contents :
       SendStart(r, a, id, text)
  \/ SendClash(r) \/ SendResolve(r) \/ SendFails(r)

Tidy ==
  \/ \E a \in Accounts :
       (\E c \in ClearCalls : ClearRead(c, a)) \/ Leave(a) \/ Rejoin(a)
  \/ \E c \in ClearCalls : ClearWrite(c)
  \/ UNCHANGED chatVars

LEMMA ChatSteps ==
  ASSUME ChatInd, [ChatNext]_chatVars
  PROVE  \/ \E r \in Requests, i \in Ids : SendCommit(r, i) \/ SendInDoubt(r, i)
         \/ \E a \in Accounts : Moved(a)
         \/ Dispatch
         \/ \E r \in Requests : Ask(r)
         \/ Tidy
BY DeliveredMoves, ReadMoves
DEF ChatNext, MembersNext, Send, Receive, Cursor, Ask, Tidy

LEMMA AskKeeps ==
  ASSUME ChatInd, NEW r \in Requests, Ask(r)
  PROVE  /\ UNCHANGED <<vars, msgs, cur, clr, owed>>
         /\ req' \in [Requests -> Request]
         /\ \A q \in Requests \ {r} : req'[q] = req[q]
         /\ req'[r].a \in Accounts /\ req'[r].id \in ClientIds
         /\ req'[r].text \in Contents
         /\ req'[r].st = "ok" =>
              /\ Position(req'[r].a, req'[r].id) # 0
              /\ req'[r].seq = Position(req'[r].a, req'[r].id)
              /\ msgs[req'[r].seq].text = req'[r].text
         /\ req'[r].st = "clash" => Position(req'[r].a, req'[r].id) # 0
<1>0. /\ req \in [Requests -> Request] /\ req[r] \in Request
      /\ msgs \in Seq(Message) /\ Len(msgs) <= MaxSeq /\ MaxSeq \in Nat
      /\ OneOfKey(msgs)
  BY ChatMessagesAssumption DEF ChatInd, ChatTypeOK, SendIdempotent, OneOfKey
<1>1. \A a, id : Position(a, id) \in {0} \cup DOMAIN msgs
  BY <1>0, FoundIs, PositionFound
<1>2. \A a, id : Position(a, id) \in 0 .. MaxSeq
  BY <1>0, <1>1
<1>3. ASSUME NEW q \in Request, q.a \in Accounts, q.id \in ClientIds,
             q.text \in Contents, Position(q.a, q.id) # 0
      PROVE  LET new == Resolved(q, Position(q.a, q.id)) IN
             /\ new \in Request /\ new.a = q.a /\ new.id = q.id /\ new.text = q.text
             /\ new.st \in {"ok", "conflict"}
             /\ new.st = "ok" => /\ new.seq = Position(q.a, q.id)
                                 /\ msgs[new.seq].text = q.text
  <2> DEFINE n == Position(q.a, q.id)
  <2>1. n \in 0 .. MaxSeq
    BY <1>2
  <2> HIDE DEF n
  <2>2. CASE msgs[n].text = q.text
    <3>1. Resolved(q, n) = [q EXCEPT !.st = "ok", !.seq = n]
      BY <2>2 DEF Resolved
    <3> QED BY <2>1, <2>2, <3>1 DEF Request, ReqStates, n
  <2>3. CASE msgs[n].text # q.text
    <3>1. Resolved(q, n) = [q EXCEPT !.st = "conflict"]
      BY <2>3 DEF Resolved
    <3> QED BY <2>1, <3>1 DEF Request, ReqStates, n
  <2> QED BY <2>2, <2>3
<1>4. ASSUME NEW a \in Accounts, NEW id \in ClientIds, NEW text \in Contents,
             SendStart(r, a, id, text)
      PROVE  /\ UNCHANGED <<vars, msgs, cur, clr, owed>>
             /\ req' \in [Requests -> Request]
             /\ \A q \in Requests \ {r} : req'[q] = req[q]
             /\ req'[r].a \in Accounts /\ req'[r].id \in ClientIds
             /\ req'[r].text \in Contents
             /\ req'[r].st = "ok" =>
                  /\ Position(req'[r].a, req'[r].id) # 0
                  /\ req'[r].seq = Position(req'[r].a, req'[r].id)
                  /\ msgs[req'[r].seq].text = req'[r].text
             /\ req'[r].st # "clash"
  <2> DEFINE q == [NoReq EXCEPT !.a = a, !.id = id, !.text = text]
  <2>1. /\ q \in Request /\ q.a = a /\ q.id = id /\ q.text = text
        /\ [q EXCEPT !.st = "checked"] \in Request
    <3>1. NoReq \in Request
      <4>1. 0 \in 0 .. MaxSeq
        BY <1>0
      <4> QED BY <4>1 DEF NoReq, Request, ReqStates
    <3>2. q \in Request /\ q.a = a /\ q.id = id /\ q.text = text
      BY <3>1 DEF Request
    <3> HIDE DEF q
    <3> QED BY <3>2 DEF Request, ReqStates
  <2>2. UNCHANGED <<vars, msgs, cur, clr, owed>>
    BY <1>4 DEF SendStart
  <2>3. CASE Position(a, id) # 0
    <3>1. req' = [req EXCEPT ![r] = Resolved(q, Position(a, id))]
      BY <1>4, <2>3 DEF SendStart
    <3> HIDE DEF q
    <3>2. req'[r] = Resolved(q, Position(q.a, q.id)) /\ Position(q.a, q.id) # 0
      BY <1>0, <2>1, <2>3, <3>1
    <3>3. /\ req'[r] \in Request
          /\ req'[r].a = a /\ req'[r].id = id /\ req'[r].text = text
          /\ req'[r].st \in {"ok", "conflict"}
          /\ req'[r].st = "ok" => /\ req'[r].seq = Position(a, id)
                                  /\ msgs[req'[r].seq].text = text
      BY <1>3, <2>1, <3>2
    <3>4. req' = [req EXCEPT ![r] = req'[r]]
      BY <1>0, <3>1
    <3>5. req' \in [Requests -> Request] /\ \A o \in Requests \ {r} : req'[o] = req[o]
      BY <1>0, <3>3, <3>4
    <3> QED BY <2>2, <2>3, <3>3, <3>5
  <2>4. CASE Position(a, id) = 0
    <3>1. req' = [req EXCEPT ![r] = [q EXCEPT !.st = "checked"]]
      BY <1>4, <2>4 DEF SendStart
    <3>2. LET new == [q EXCEPT !.st = "checked"] IN
          new.a = a /\ new.id = id /\ new.text = text /\ new.st = "checked"
      BY <2>1 DEF Request
    <3> HIDE DEF q
    <3> QED BY <1>0, <2>1, <2>2, <3>1, <3>2
  <2> QED BY <2>3, <2>4
<1>5. ASSUME req[r].st \in {"checked", "clash"}
      PROVE  /\ req[r].a \in Accounts /\ req[r].id \in ClientIds
             /\ req[r].text \in Contents
  BY <1>5 DEF ChatInd, OfItsMessages
<1>6. CASE SendClash(r)
  BY <1>0, <1>5, <1>6 DEF SendClash, Request, ReqStates
<1>7. CASE SendFails(r)
  BY <1>0, <1>5, <1>7 DEF SendFails, Request, ReqStates
<1>8. CASE SendResolve(r)
  <2>1. /\ req[r].st = "clash" /\ Position(req[r].a, req[r].id) # 0
        /\ UNCHANGED <<vars, msgs, cur, clr, owed>>
        /\ req' = [req EXCEPT ![r] =
                     Resolved(req[r], Position(req[r].a, req[r].id))]
    BY <1>8 DEF SendResolve, ChatInd, OfItsMessages
  <2>2. req'[r] = Resolved(req[r], Position(req[r].a, req[r].id))
    BY <1>0, <2>1
  <2>3. /\ req'[r] \in Request
        /\ req'[r].a = req[r].a /\ req'[r].id = req[r].id
        /\ req'[r].text = req[r].text
        /\ req'[r].st \in {"ok", "conflict"}
        /\ req'[r].st = "ok" => /\ req'[r].seq = Position(req[r].a, req[r].id)
                                /\ msgs[req'[r].seq].text = req[r].text
    BY <1>0, <1>3, <1>5, <2>1, <2>2
  <2>4. req' \in [Requests -> Request] /\ \A o \in Requests \ {r} : req'[o] = req[o]
    BY <1>0, <2>1, <2>2, <2>3
  <2> QED BY <1>5, <2>1, <2>3, <2>4
<1> QED BY <1>4, <1>6, <1>7, <1>8 DEF Ask

(* Of the steps that tidy up, those that move a cursor.                    *)
CurType(n) == [read : -1 .. n, dlv : 0 .. n, cleared : 0 .. n, wiped : 0 .. n]

LEMMA TidyKeeps ==
  ASSUME ChatInd, Tidy
  PROVE  /\ UNCHANGED <<ev, dispatcherVars, faults, msgs, req, owed>>
         /\ member' \subseteq Accounts
         /\ clr' \in [ClearCalls -> [a : Accounts \cup {NoAccount},
                                     max : -1 .. Len(msgs)]]
         /\ cur' \in [Accounts -> CurType(Len(msgs))]
         /\ \A a \in Accounts :
              \/ cur'[a] = NoCursor /\ a \notin member
              \/ /\ cur'[a].read >= cur[a].read /\ cur'[a].dlv = cur[a].dlv
                 /\ cur'[a].wiped >= cur[a].wiped
                 /\ cur'[a].read = cur[a].read \/ cur'[a].read <= cur'[a].wiped
<1>0. /\ Len(msgs) \in Nat /\ member \subseteq Accounts
      /\ cur \in [Accounts -> CurType(Len(msgs))]
      /\ clr \in [ClearCalls -> [a : Accounts \cup {NoAccount},
                                 max : -1 .. Len(msgs)]]
      /\ \A a \in Accounts : cur[a].read \in Int /\ cur[a].wiped \in Int
  BY DEF ChatInd, ChatTypeOK, TypeOK, CurType
<1>1. CASE UNCHANGED chatVars
  BY <1>0, <1>1 DEF chatVars, vars, dispatcherVars
<1>2. ASSUME NEW a \in Accounts, NEW c \in ClearCalls, ClearRead(c, a)
      PROVE  /\ UNCHANGED <<vars, msgs, cur, req, owed>>
             /\ clr' \in [ClearCalls -> [a : Accounts \cup {NoAccount},
                                         max : -1 .. Len(msgs)]]
  BY <1>0, <1>2 DEF ClearRead
<1>3. ASSUME NEW a \in Accounts, Leave(a)
      PROVE  /\ UNCHANGED <<ev, dispatcherVars, faults, msgs, cur, req, clr, owed>>
             /\ member' \subseteq Accounts
  BY <1>0, <1>3 DEF Leave
<1>4. ASSUME NEW a \in Accounts, Rejoin(a)
      PROVE  /\ UNCHANGED <<ev, dispatcherVars, faults, msgs, req, clr, owed>>
             /\ member' \subseteq Accounts /\ a \notin member
             /\ cur' \in [Accounts -> CurType(Len(msgs))]
             /\ cur'[a] = NoCursor /\ \A b \in Accounts \ {a} : cur'[b] = cur[b]
  <2>1. NoCursor \in CurType(Len(msgs))
    BY <1>0 DEF NoCursor, CurType
  <2> QED BY <1>0, <1>4, <2>1 DEF Rejoin
<1>5. ASSUME NEW c \in ClearCalls, ClearWrite(c)
      PROVE  /\ UNCHANGED <<vars, msgs, req, owed>>
             /\ clr' \in [ClearCalls -> [a : Accounts \cup {NoAccount},
                                         max : -1 .. Len(msgs)]]
             /\ cur' \in [Accounts -> CurType(Len(msgs))]
             /\ \A a \in Accounts :
                  /\ cur'[a].read >= cur[a].read /\ cur'[a].dlv = cur[a].dlv
                  /\ cur'[a].wiped >= cur[a].wiped
                  /\ cur'[a].read = cur[a].read \/ cur'[a].read <= cur'[a].wiped
  <2> DEFINE a == clr[c].a
             n == clr[c].max
             new == [cur[a] EXCEPT !.cleared = n, !.wiped = Largest(@, n),
                                   !.read = Largest(@, n)]
  <2>1. /\ a # NoAccount /\ n # -1
        /\ cur' = [cur EXCEPT ![a].cleared = n, ![a].wiped = Largest(@, n),
                              ![a].read = Largest(@, n)]
        /\ clr' = [clr EXCEPT ![c].max = -1]
        /\ UNCHANGED <<vars, msgs, req, owed>>
    BY <1>5 DEF ClearWrite
  <2>2. a \in Accounts /\ n \in 0 .. Len(msgs)
    BY <1>0, <2>1
  <2>3. clr' \in [ClearCalls -> [a : Accounts \cup {NoAccount},
                                 max : -1 .. Len(msgs)]]
    <3>1. clr[c] \in [a : Accounts \cup {NoAccount}, max : -1 .. Len(msgs)]
      BY <1>0
    <3>2. [clr[c] EXCEPT !.max = -1]
            \in [a : Accounts \cup {NoAccount}, max : -1 .. Len(msgs)]
      BY <1>0, <3>1
    <3> HIDE DEF a, n
    <3>3. clr' = [clr EXCEPT ![c] = [clr[c] EXCEPT !.max = -1]]
      BY <1>0, <2>1
    <3> QED BY <1>0, <3>2, <3>3
  <2> HIDE DEF a, n
  <2>4. cur' = [cur EXCEPT ![a] = new]
    BY <1>0, <2>1, <2>2
  <2>5. cur[a] \in CurType(Len(msgs))
    BY <1>0, <2>2
  <2> DEFINE w == Largest(cur[a].wiped, n)
             d == Largest(cur[a].read, n)
  <2>6. /\ w \in 0 .. Len(msgs) /\ d \in -1 .. Len(msgs)
        /\ d >= cur[a].read /\ w >= cur[a].wiped
        /\ d = cur[a].read \/ d <= w
    BY <1>0, <2>2, <2>5 DEF CurType, Largest
  <2>7. new = [cur[a] EXCEPT !.cleared = n, !.wiped = w, !.read = d]
    BY <2>5 DEF CurType
  <2> HIDE DEF w, d, new
  <2>8. /\ new \in CurType(Len(msgs)) /\ new.dlv = cur[a].dlv
        /\ new.read = d /\ new.wiped = w
    BY <2>2, <2>5, <2>6, <2>7 DEF CurType
  <2>9. /\ cur' \in [Accounts -> CurType(Len(msgs))]
        /\ cur'[a] = new /\ \A b \in Accounts \ {a} : cur'[b] = cur[b]
    BY <1>0, <2>2, <2>4, <2>8
  <2>10. \A b \in Accounts :
           /\ cur'[b].read >= cur[b].read /\ cur'[b].dlv = cur[b].dlv
           /\ cur'[b].wiped >= cur[b].wiped
           /\ cur'[b].read = cur[b].read \/ cur'[b].read <= cur'[b].wiped
    BY <1>0, <2>6, <2>8, <2>9
  <2> QED BY <2>1, <2>3, <2>9, <2>10
<1> QED BY <1>0, <1>1, <1>2, <1>3, <1>4, <1>5 DEF Tidy, vars, dispatcherVars

-----------------------------------------------------------------------------
(* Every step keeps the types, with those of the outbox.                   *)
LEMMA TypesOf ==
  ASSUME ChatInd
  PROVE  /\ OutboxInv /\ TypeOK
         /\ msgs \in Seq(Message) /\ Len(msgs) \in Nat /\ Len(msgs) <= MaxSeq
         /\ MaxSeq \in Nat /\ DOMAIN msgs = 1 .. Len(msgs)
         /\ cur \in [Accounts -> CurType(Len(msgs))]
         /\ req \in [Requests -> Request]
         /\ clr \in [ClearCalls -> [a : Accounts \cup {NoAccount},
                                    max : -1 .. Len(msgs)]]
         /\ owed \in [Accounts -> SUBSET DOMAIN msgs]
         /\ OneOfKey(msgs)
BY ChatMessagesAssumption
DEF ChatInd, ChatTypeOK, OutboxInv, CurType, SendIdempotent, OneOfKey

LEMMA SendCursors ==
  ASSUME ChatInd, NEW r \in Requests, NEW i \in Ids,
         SendCommit(r, i) \/ SendInDoubt(r, i)
  PROVE  /\ cur' \in [Accounts -> CurType(Len(msgs) + 1)]
         /\ \A a \in Accounts :
              /\ cur'[a].read >= cur[a].read /\ cur'[a].dlv >= cur[a].dlv
              /\ cur'[a].wiped = cur[a].wiped
              /\ cur'[a].read = cur[a].read \/ cur'[a].read <= cur'[a].dlv
<1> DEFINE n == Len(msgs) + 1
           b == req[r].a
<1>1. \/ UNCHANGED cur
      \/ cur' = [cur EXCEPT ![b].read = Largest(@, n), ![b].dlv = Largest(@, n)]
  BY DEF SendCommit, SendInDoubt, Stored
<1>2. b \in Accounts
  BY SendStores DEF NewMessage, Message
<1>3. /\ Len(msgs) \in Nat /\ n \in Nat /\ n = Len(msgs) + 1
      /\ cur \in [Accounts -> CurType(Len(msgs))]
      /\ \A a \in Accounts : /\ cur[a] \in CurType(Len(msgs))
                             /\ cur[a].read \in Int /\ cur[a].dlv \in Int
  BY TypesOf DEF CurType
<1> HIDE DEF n, b
<1>4. cur \in [Accounts -> CurType(n)]
  BY <1>3 DEF CurType
<1>5. CASE UNCHANGED cur
  BY <1>3, <1>4, <1>5 DEF n
<1>6. CASE cur' = [cur EXCEPT ![b].read = Largest(@, n), ![b].dlv = Largest(@, n)]
  <2> DEFINE x == Largest(cur[b].read, n)
             y == Largest(cur[b].dlv, n)
             c == [cur[b] EXCEPT !.read = x, !.dlv = y]
  <2>1. x = n /\ y = n /\ x >= cur[b].read /\ y >= cur[b].dlv
    BY <1>2, <1>3 DEF CurType, Largest
  <2>2. cur' = [cur EXCEPT ![b] = c]
    BY <1>2, <1>3, <1>6
  <2> HIDE DEF x, y
  <2>3. /\ c \in CurType(n) /\ c.read = n /\ c.dlv = n /\ c.wiped = cur[b].wiped
    <3>1. n \in -1 .. n /\ n \in 0 .. n
      BY <1>3
    <3>2. cur[b] \in CurType(n)
      BY <1>2, <1>4
    <3> QED BY <2>1, <3>1, <3>2 DEF CurType
  <2> HIDE DEF c
  <2>4. /\ cur' \in [Accounts -> CurType(n)]
        /\ cur'[b] = c /\ \A a \in Accounts \ {b} : cur'[a] = cur[a]
    BY <1>2, <1>4, <2>2, <2>3
  <2>5. \A a \in Accounts :
          /\ cur'[a].read >= cur[a].read /\ cur'[a].dlv >= cur[a].dlv
          /\ cur'[a].wiped = cur[a].wiped
          /\ cur'[a].read = cur[a].read \/ cur'[a].read <= cur'[a].dlv
    BY <1>3, <2>1, <2>3, <2>4
  <2> QED BY <2>4, <2>5 DEF n
<1> QED BY <1>1, <1>5, <1>6

LEMMA SendRequests ==
  ASSUME ChatInd, NEW r \in Requests, NEW i \in Ids,
         SendCommit(r, i) \/ SendInDoubt(r, i)
  PROVE  /\ req' \in [Requests -> Request]
         /\ \A q \in Requests \ {r} : req'[q] = req[q]
         /\ req'[r].a = req[r].a /\ req'[r].id = req[r].id
         /\ req'[r].text = req[r].text
         /\ req'[r].st \in {"ok", "failed"}
         /\ req'[r].st = "ok" => req'[r].seq = Len(msgs) + 1
<1>1. Len(msgs) + 1 \in 0 .. MaxSeq /\ req \in [Requests -> Request]
  <2>1. Len(msgs) + 1 <= MaxSeq
    BY SendStores
  <2>2. Len(msgs) \in Nat /\ MaxSeq \in Nat /\ req \in [Requests -> Request]
    BY TypesOf
  <2> QED BY <2>1, <2>2
<1>2. CASE req' = [req EXCEPT ![r].st = "ok", ![r].seq = Len(msgs) + 1]
  <2> DEFINE n == Len(msgs) + 1
             new == [req[r] EXCEPT !.st = "ok", !.seq = n]
  <2> HIDE DEF n
  <2>1. req' = [req EXCEPT ![r] = new]
    BY <1>1, <1>2 DEF n
  <2>2. /\ new \in Request /\ new.a = req[r].a /\ new.id = req[r].id
        /\ new.text = req[r].text /\ new.st = "ok" /\ new.seq = n
    BY <1>1 DEF Request, ReqStates, n
  <2> HIDE DEF new
  <2> QED BY <1>1, <2>1, <2>2 DEF n
<1>3. CASE req' = [req EXCEPT ![r].st = "failed"]
  <2> DEFINE new == [req[r] EXCEPT !.st = "failed"]
  <2>1. /\ new \in Request /\ new.a = req[r].a /\ new.id = req[r].id
        /\ new.text = req[r].text /\ new.st = "failed"
    BY <1>1 DEF Request, ReqStates
  <2>2. req' = [req EXCEPT ![r] = new]
    BY <1>1, <1>3
  <2> HIDE DEF new
  <2> QED BY <1>1, <2>1, <2>2
<1> QED BY <1>2, <1>3, SendStores

LEMMA MovedInv ==
  ASSUME ChatInd, NEW a \in Accounts, Moved(a)
  PROVE  OutboxInv'
<1>1. TypeOK
  BY TypesOf
<1>2. \A i \in Ids : Written(i)
  BY DEF Moved, Reports, Reported, Written
<1> QED BY <1>1, <1>2, TypesOf, WrittenInv DEF Moved, Reports, TypeOK

LEMMA ChatTypeStep ==
  ASSUME ChatInd, [ChatNext]_chatVars
  PROVE  OutboxInv' /\ ChatTypeOK'
<1>0. OutboxInv' => TypeOK'
  BY DEF OutboxInv
<1>1. ASSUME NEW r \in Requests, NEW i \in Ids, SendCommit(r, i) \/ SendInDoubt(r, i)
      PROVE  OutboxInv' /\ ChatTypeOK'
  <2>1. /\ msgs' \in Seq(Message) /\ Len(msgs') = Len(msgs) + 1
        /\ Len(msgs) + 1 <= MaxSeq
        /\ DOMAIN msgs \subseteq DOMAIN msgs'
    <3>1. Len(msgs) + 1 <= MaxSeq
      BY <1>1, SendStores
    <3>2. /\ msgs' \in Seq(Message) /\ Len(msgs') = Len(msgs) + 1
          /\ DOMAIN msgs' = 1 .. Len(msgs) + 1
      BY <1>1, SendMessages
    <3>3. Len(msgs) \in Nat /\ DOMAIN msgs = 1 .. Len(msgs)
      BY TypesOf
    <3> QED BY <3>1, <3>2, <3>3
  <2>2. cur' \in [Accounts -> CurType(Len(msgs'))] /\ req' \in [Requests -> Request]
    BY <1>1, <2>1, SendCursors, SendRequests
  <2>3. UNCHANGED <<clr, owed>> /\ OutboxInv'
    BY <1>1, SendStores
  <2>4. clr' \in [ClearCalls -> [a : Accounts \cup {NoAccount}, max : -1 .. Len(msgs')]]
    <3>1. -1 .. Len(msgs) \subseteq -1 .. Len(msgs')
      BY <2>1, TypesOf
    <3> QED BY <2>3, <3>1, TypesOf
  <2>5. owed' \in [Accounts -> SUBSET DOMAIN msgs']
    BY <2>1, <2>3, TypesOf
  <2> QED BY <1>0, <2>1, <2>2, <2>3, <2>4, <2>5 DEF ChatTypeOK, CurType
<1>2. ASSUME NEW a \in Accounts, Moved(a)
      PROVE  OutboxInv' /\ ChatTypeOK'
  <2>1. owed' \in [Accounts -> SUBSET DOMAIN msgs']
    <3>1. Ticks(a, cur[a].dlv, cur'[a].dlv) \subseteq DOMAIN msgs
      BY DEF Ticks
    <3> QED BY <1>2, <3>1, TypesOf DEF Moved
  <2>2. OutboxInv'
    BY <1>2, MovedInv
  <2> QED BY <1>0, <1>2, <2>1, <2>2, TypesOf DEF Moved, ChatTypeOK
<1>3. CASE Dispatch
  <2>1. OutboxInv'
    BY <1>3, NextInv, TypesOf DEF Dispatch, Next
  <2> QED BY <1>0, <1>3, <2>1, TypesOf DEF Dispatch, ChatTypeOK, CurType
<1>4. ASSUME NEW r \in Requests, Ask(r)
      PROVE  OutboxInv' /\ ChatTypeOK'
  <2>1. UNCHANGED <<vars, msgs, cur, clr, owed>> /\ req' \in [Requests -> Request]
    BY <1>4, AskKeeps
  <2>2. OutboxInv'
    BY <2>1, NextInv, TypesOf
  <2> QED BY <1>0, <2>1, <2>2, TypesOf DEF ChatTypeOK, CurType
<1>5. CASE Tidy
  <2>1. UNCHANGED <<ev, dispatcherVars, faults, msgs, req, owed>>
        /\ member' \subseteq Accounts
    BY <1>5, TidyKeeps
  <2>2. OutboxInv'
    <3>1. faults' \in Nat /\ ev' \in [Ids -> Row] /\ \A i \in Ids : Written(i)
      BY <2>1, TypesOf DEF TypeOK, Written
    <3> QED BY <2>1, <3>1, TypesOf, WrittenInv
  <2> QED BY <1>0, <1>5, <2>1, <2>2, TidyKeeps, TypesOf DEF ChatTypeOK, CurType
<1> QED BY <1>1, <1>2, <1>3, <1>4, <1>5, ChatSteps

-----------------------------------------------------------------------------
(* SendIdempotent and OfItsMessages, for a row and for a request.          *)
SameMessage(j) ==
  /\ ev'[j].st # "absent" /\ ev'[j].type = "message"
       <=> ev[j].st # "absent" /\ ev[j].type = "message"
  /\ ev[j].st # "absent" /\ ev[j].type = "message" => ev'[j].seq = ev[j].seq

RequestInOrder(q) ==
  /\ req[q].st # "new" => /\ req[q].a \in Accounts /\ req[q].id \in ClientIds
                          /\ req[q].text \in Contents
  /\ req[q].st \in {"clash", "ok"} => Position(req[q].a, req[q].id) # 0
  /\ req[q].st = "ok" => /\ req[q].seq = Position(req[q].a, req[q].id)
                         /\ msgs[req[q].seq].text = req[q].text

LEMMA RequestsInOrder ==
  ASSUME ChatInd, NEW q \in Requests
  PROVE  RequestInOrder(q)
BY DEF ChatInd, SendIdempotent, OfItsMessages, RequestInOrder

LEMMA SameSends ==
  ASSUME ChatInd, UNCHANGED msgs, InOrder(ev'), \A j \in Ids : SameMessage(j),
         \A q \in Requests : RequestInOrder(q)'
  PROVE  SendIdempotent' /\ OfItsMessages'
<1>1. SendIdempotent'
  <2>1. \A n \in DOMAIN msgs : \E i \in Ids : \A j \in Ids :
          ev'[j].st # "absent" /\ ev'[j].type = "message" /\ ev'[j].seq = n <=> j = i
    BY DEF ChatInd, SendIdempotent, SameMessage
  <2>2. \A m, n \in DOMAIN msgs' :
          msgs'[m].a = msgs'[n].a /\ msgs'[m].id = msgs'[n].id => m = n
    BY DEF ChatInd, SendIdempotent
  <2> QED BY <2>1, <2>2 DEF SendIdempotent, RequestInOrder
<1>2. OfItsMessages'
  <2>1. \A i \in Ids : ev'[i].st # "absent" /\ ev'[i].type = "message"
                       => ev'[i].seq \in DOMAIN msgs'
    BY DEF ChatInd, OfItsMessages, SameMessage
  <2> QED BY <2>1 DEF OfItsMessages, RequestInOrder, InOrder
<1> QED BY <1>1, <1>2

LEMMA SameRequests ==
  ASSUME ChatInd, UNCHANGED <<msgs, req>>, NEW q \in Requests
  PROVE  RequestInOrder(q)'
BY RequestsInOrder DEF RequestInOrder, Position

LEMMA CommitSends ==
  ASSUME ChatInd, NEW r \in Requests, NEW i \in Ids,
         SendCommit(r, i) \/ SendInDoubt(r, i)
  PROVE  SendIdempotent' /\ OfItsMessages'
<1> DEFINE n == Len(msgs) + 1
           new == NewMessage(r)
<1>1. /\ OneOfKey(msgs) /\ msgs \in Seq(Message) /\ DOMAIN msgs = 1 .. Len(msgs)
      /\ Len(msgs) \in Nat /\ n \in Nat /\ n \notin DOMAIN msgs
  BY TypesOf
<1>2. /\ msgs' \in Seq(Message) /\ DOMAIN msgs' = DOMAIN msgs \cup {n}
      /\ \A k \in DOMAIN msgs : msgs'[k] = msgs[k]
      /\ msgs'[n] = new
  <2>1. /\ msgs' \in Seq(Message) /\ DOMAIN msgs' = 1 .. n
        /\ \A k \in DOMAIN msgs : msgs'[k] = msgs[k]
        /\ msgs'[n] = new
    BY SendMessages
  <2> QED BY <1>1, <2>1
<1>3. new.a = req[r].a /\ new.id = req[r].id /\ new.text = req[r].text
      /\ Found(msgs, new.a, new.id) = 0
  <2>1. Position(req[r].a, req[r].id) = 0
    BY SendStores
  <2>2. Found(msgs, req[r].a, req[r].id) = 0
    BY <2>1 DEF Position, Found
  <2> QED BY <2>2 DEF NewMessage
<1> HIDE DEF n, new
<1>4. OneOfKey(msgs')
  <2>1. \A k \in DOMAIN msgs : ~(msgs[k].a = new.a /\ msgs[k].id = new.id)
    BY <1>1, <1>3, FoundIs
  <2> QED BY <1>1, <1>2, <2>1 DEF OneOfKey
<1>5. ASSUME NEW a, NEW id, Position(a, id) # 0
      PROVE  Position(a, id)' = Position(a, id) /\ Position(a, id) \in DOMAIN msgs
  <2> DEFINE k == Found(msgs, a, id)
  <2>1. k \in DOMAIN msgs /\ msgs[k].a = a /\ msgs[k].id = id
    BY <1>1, <1>5, FoundIs, PositionFound
  <2>2. Found(msgs', a, id) = k
    BY <1>2, <1>4, <2>1, FoundIs
  <2> QED BY <2>1, <2>2, PositionFound
<1>6. Found(msgs', new.a, new.id) = n
  BY <1>2, <1>4, FoundIs
<1>7. ASSUME NEW q \in Requests
      PROVE  RequestInOrder(q)'
  <2>1. CASE q = r
    <3>1. /\ req'[q].a = new.a /\ req'[q].id = new.id /\ req'[q].text = new.text
          /\ req'[q].st \in {"ok", "failed"}
          /\ req'[q].st = "ok" => req'[q].seq = n
      BY <1>3, <2>1, SendRequests DEF n
    <3>2. new \in Message
      BY SendStores DEF new
    <3>3. Position(req[q].a, req[q].id)' = n
      <4>1. Position(req[q].a, req[q].id)' = Found(msgs', req'[q].a, req'[q].id)
        BY DEF Position, Found
      <4> QED BY <1>6, <3>1, <4>1
    <3>4. new.a \in Accounts /\ new.id \in ClientIds /\ new.text \in Contents
      BY <3>2 DEF Message
    <3>5. n # 0
      BY <1>1 DEF n
    <3> QED BY <1>2, <3>1, <3>3, <3>4, <3>5 DEF RequestInOrder
  <2>2. CASE q # r
    <3>1. req'[q] = req[q] /\ RequestInOrder(q)
      BY <2>2, SendRequests, RequestsInOrder
    <3>2. Position(req[q].a, req[q].id) # 0
            => Position(req[q].a, req[q].id)' = Position(req[q].a, req[q].id)
               /\ Position(req[q].a, req[q].id) \in DOMAIN msgs
      <4>1. Position(req[q].a, req[q].id) # 0
              => /\ Found(msgs', req[q].a, req[q].id) = Position(req[q].a, req[q].id)
                 /\ Position(req[q].a, req[q].id) \in DOMAIN msgs
        BY <1>5, PositionFound
      <4>2. Position(req[q].a, req[q].id)' = Found(msgs', req'[q].a, req'[q].id)
        BY DEF Position, Found
      <4> QED BY <3>1, <4>1, <4>2
    <3> QED BY <1>2, <3>1, <3>2 DEF RequestInOrder
  <2> QED BY <2>1, <2>2
<1>8. /\ ev[i].st = "absent"
      /\ ev'[i].st = "pending" /\ ev'[i].type = "message" /\ ev'[i].seq = n
      /\ \A j \in Ids \ {i} : ev'[j] = ev[j]
      /\ InOrder(ev')
  BY SendStores DEF n
<1>9. \A j \in Ids : ev[j].st # "absent" /\ ev[j].type = "message"
                     => ev[j].seq \in DOMAIN msgs
  BY DEF ChatInd, OfItsMessages
<1>10. ASSUME NEW k \in DOMAIN msgs'
       PROVE  \E h \in Ids : \A j \in Ids :
                ev'[j].st # "absent" /\ ev'[j].type = "message" /\ ev'[j].seq = k
                  <=> j = h
  <2>1. CASE k = n
    <3>1. \A j \in Ids :
            ev'[j].st # "absent" /\ ev'[j].type = "message" /\ ev'[j].seq = k <=> j = i
      BY <1>1, <1>8, <1>9, <2>1
    <3> QED BY <3>1
  <2>2. CASE k \in DOMAIN msgs
    <3>1. PICK h \in Ids : \A j \in Ids :
            ev[j].st # "absent" /\ ev[j].type = "message" /\ ev[j].seq = k <=> j = h
      BY <2>2 DEF ChatInd, SendIdempotent
    <3>2. \A j \in Ids :
            ev'[j].st # "absent" /\ ev'[j].type = "message" /\ ev'[j].seq = k <=> j = h
      BY <1>1, <1>8, <2>2, <3>1
    <3> QED BY <3>2
  <2> QED BY <1>2, <2>1, <2>2
<1>11. \A j \in Ids : ev'[j].st # "absent" /\ ev'[j].type = "message"
                      => ev'[j].seq \in DOMAIN msgs'
  BY <1>2, <1>8, <1>9
<1> QED BY <1>4, <1>7, <1>8, <1>10, <1>11
        DEF SendIdempotent, OfItsMessages, OneOfKey, RequestInOrder, InOrder

LEMMA SendsStep ==
  ASSUME ChatInd, [ChatNext]_chatVars
  PROVE  SendIdempotent' /\ OfItsMessages'
<1>0. InOrder(ev)
  BY DEF ChatInd, OfItsMessages, InOrder
<1>1. ASSUME NEW a \in Accounts, Moved(a)
      PROVE  SendIdempotent' /\ OfItsMessages'
  <2>1. InOrder(ev') /\ UNCHANGED <<msgs, req>> /\ \A j \in Ids : Reported(j)
    BY <1>1 DEF Moved, Reports
  <2>2. \A j \in Ids : SameMessage(j)
    BY <2>1 DEF Reported, SameMessage
  <2> QED BY <2>1, <2>2, SameSends, SameRequests
<1>2. CASE Dispatch
  <2>1. \A j \in Ids : Kept(j)
    BY <1>2, DispatchKeeps, TypesOf DEF Dispatch
  <2>2. InOrder(ev')
    BY <1>0, <2>1 DEF InOrder, Kept
  <2>3. \A j \in Ids : SameMessage(j)
    BY <2>1 DEF Kept, SameMessage
  <2> QED BY <1>2, <2>2, <2>3, SameSends, SameRequests DEF Dispatch
<1>3. UNCHANGED ev => InOrder(ev') /\ \A j \in Ids : SameMessage(j)
  BY <1>0 DEF SameMessage
<1>4. CASE Tidy
  <2>1. UNCHANGED <<ev, msgs, req>>
    BY <1>4, TidyKeeps
  <2> QED BY <1>3, <2>1, SameSends, SameRequests
<1>5. ASSUME NEW r \in Requests, Ask(r)
      PROVE  SendIdempotent' /\ OfItsMessages'
  <2>1. UNCHANGED <<ev, msgs>>
    BY <1>5, AskKeeps DEF vars
  <2>2. ASSUME NEW q \in Requests
        PROVE  RequestInOrder(q)'
    <3>0. Position(req[q].a, req[q].id)' = Position(req'[q].a, req'[q].id)
      BY <2>1 DEF Position
    <3>1. CASE q = r
      <4>1. /\ req'[q].a \in Accounts /\ req'[q].id \in ClientIds
            /\ req'[q].text \in Contents
            /\ req'[q].st = "ok" =>
                 /\ Position(req'[q].a, req'[q].id) # 0
                 /\ req'[q].seq = Position(req'[q].a, req'[q].id)
                 /\ msgs[req'[q].seq].text = req'[q].text
            /\ req'[q].st = "clash" => Position(req'[q].a, req'[q].id) # 0
        BY <1>5, <3>1, AskKeeps
      <4> QED BY <2>1, <3>0, <4>1 DEF RequestInOrder
    <3>2. CASE q # r
      <4>1. req'[q] = req[q] /\ RequestInOrder(q)
        BY <1>5, <3>2, AskKeeps, RequestsInOrder
      <4> QED BY <2>1, <3>0, <4>1 DEF RequestInOrder
    <3> QED BY <3>1, <3>2
  <2> QED BY <1>3, <2>1, <2>2, SameSends
<1> QED BY <1>1, <1>2, <1>4, <1>5, ChatSteps, CommitSends

-----------------------------------------------------------------------------
(* ReadImpliesDelivered, and CursorsAdvance.                               *)
LEMMA CursorsStep ==
  ASSUME ChatInd, [ChatNext]_chatVars, NEW a \in Accounts
  PROVE  /\ cur'[a].read <= Largest(cur'[a].dlv, cur'[a].wiped)
         /\ a \in member => cur'[a].read >= cur[a].read /\ cur'[a].dlv >= cur[a].dlv
<1>1. cur[a].read <= Largest(cur[a].dlv, cur[a].wiped)
  BY DEF ChatInd, ReadImpliesDelivered
<1>2. /\ cur[a].read \in Int /\ cur[a].dlv \in Int /\ cur[a].wiped \in Int
      /\ cur'[a].read \in Int /\ cur'[a].dlv \in Int /\ cur'[a].wiped \in Int
  <2>1. cur' \in [Accounts -> CurType(Len(msgs'))] /\ Len(msgs') \in Nat
    BY ChatTypeStep DEF ChatTypeOK, CurType
  <2> QED BY <2>1, TypesOf DEF CurType
<1>3. \/ cur'[a] = NoCursor /\ a \notin member
      \/ /\ cur'[a].read >= cur[a].read /\ cur'[a].dlv >= cur[a].dlv
         /\ cur'[a].wiped >= cur[a].wiped
         /\ \/ cur'[a].read = cur[a].read
            \/ cur'[a].read <= cur'[a].dlv
            \/ cur'[a].read <= cur'[a].wiped
  <2>1. UNCHANGED cur => /\ cur'[a].read >= cur[a].read /\ cur'[a].dlv >= cur[a].dlv
                         /\ cur'[a].wiped >= cur[a].wiped
                         /\ cur'[a].read = cur[a].read
    BY <1>2
  <2>2. ASSUME NEW r \in Requests, NEW i \in Ids, SendCommit(r, i) \/ SendInDoubt(r, i)
        PROVE  /\ cur'[a].read >= cur[a].read /\ cur'[a].dlv >= cur[a].dlv
               /\ cur'[a].wiped >= cur[a].wiped
               /\ cur'[a].read = cur[a].read \/ cur'[a].read <= cur'[a].dlv
    BY <1>2, <2>2, SendCursors
  <2>3. ASSUME NEW b \in Accounts, Moved(b)
        PROVE  /\ cur'[a].read >= cur[a].read /\ cur'[a].dlv >= cur[a].dlv
               /\ cur'[a].wiped >= cur[a].wiped
               /\ cur'[a].read = cur[a].read \/ cur'[a].read <= cur'[a].dlv
    <3>1. CASE a = b
      BY <1>2, <2>3, <3>1 DEF Moved
    <3>2. CASE a # b
      <4>1. cur'[a] = cur[a]
        BY <2>3, <3>2 DEF Moved
      <4> QED BY <1>2, <4>1
    <3> QED BY <3>1, <3>2
  <2>4. CASE Dispatch \/ \E r \in Requests : Ask(r)
    <3>1. UNCHANGED cur
      BY <2>4, AskKeeps DEF Dispatch
    <3> QED BY <2>1, <3>1
  <2>5. CASE Tidy
    BY <1>2, <2>5, TidyKeeps
  <2> QED BY <2>2, <2>3, <2>4, <2>5, ChatSteps
<1> QED BY <1>1, <1>2, <1>3 DEF NoCursor, Largest

LEMMA ChatStep == ChatInd /\ [ChatNext]_chatVars => ChatInd'
<1> SUFFICES ASSUME ChatInd, [ChatNext]_chatVars PROVE ChatInd'
  OBVIOUS
<1>1. ReadImpliesDelivered'
  BY CursorsStep DEF ReadImpliesDelivered
<1> QED BY <1>1, ChatTypeStep, SendsStep DEF ChatInd

LEMMA ChatStart == ChatInit => ChatInd
<1> SUFFICES ASSUME ChatInit PROVE ChatInd
  OBVIOUS
<1>0. OutboxInv /\ MaxSeq \in Nat
  BY InitInv, ChatMessagesAssumption DEF ChatInit
<1>1. msgs = <<>> /\ msgs \in Seq(Message) /\ Len(msgs) = 0 /\ DOMAIN msgs = {}
  BY DEF ChatInit
<1>2. NoCursor \in CurType(0)
  BY DEF NoCursor, CurType
<1>3. NoReq \in Request
  <2>1. 0 \in 0 .. MaxSeq
    BY <1>0
  <2> QED BY <2>1 DEF NoReq, Request, ReqStates
<1>4. cur \in [Accounts -> CurType(0)] /\ req \in [Requests -> Request]
  BY <1>2, <1>3 DEF ChatInit
<1>5. clr \in [ClearCalls -> [a : Accounts \cup {NoAccount}, max : -1 .. 0]]
  BY DEF ChatInit
<1>6. ChatTypeOK
  BY <1>0, <1>1, <1>4, <1>5 DEF ChatTypeOK, OutboxInv, ChatInit, CurType
<1>7. \A i \in Ids : ev[i].st = "absent"
  BY DEF ChatInit, Init, Blank
<1>8. \A q \in Requests : req[q].st = "new"
  BY DEF ChatInit, NoReq
<1>9. SendIdempotent /\ OfItsMessages
  BY <1>1, <1>7, <1>8 DEF SendIdempotent, OfItsMessages
<1>10. ReadImpliesDelivered
  BY DEF ReadImpliesDelivered, ChatInit, NoCursor, Largest
<1> QED BY <1>0, <1>6, <1>9, <1>10 DEF ChatInd

(* For any number of processes, members, requests and faults: retries make *)
(* one message of a key, announced by one row; what a member has read was  *)
(* delivered or cleared; and no cursor of a membership goes back.          *)
THEOREM SendsKept == ChatSpec => []ChatInd /\ CursorsAdvance
<1>1. ChatInd /\ [ChatNext]_chatVars
        => [\A a \in member \cap member' :
              cur'[a].read >= cur[a].read /\ cur'[a].dlv >= cur[a].dlv]_chatVars
  <2> SUFFICES ASSUME ChatInd, [ChatNext]_chatVars, NEW a \in member \cap member'
               PROVE  cur'[a].read >= cur[a].read /\ cur'[a].dlv >= cur[a].dlv
    OBVIOUS
  <2>1. a \in Accounts
    BY TypesOf DEF TypeOK
  <2> QED BY <2>1, CursorsStep
<1> QED BY <1>1, ChatStart, ChatStep, PTL DEF ChatSpec, CursorsAdvance

-----------------------------------------------------------------------------
(* The ticks, with one process: what it has in hand nobody else claims.    *)
InHand(p) ==
  /\ claimed[p] # {} => step[p] = "load"
  /\ \A i \in claimed[p] : ev[i].st = "processing"
  /\ \A i \in Ids : copy[p][i].att # 0 =>
       /\ ev[i].st \notin {"absent", "pending"}
       /\ copy[p][i].seq = ev[i].seq /\ copy[p][i].start = ev[i].start

ToldBy(p) ==
  /\ \A i \in Ids : ev[i].st = "published" => RangeTold(i, ev[i])
  /\ \A i \in Ids : step[p] = "mark" /\ Current(p, i) => RangeTold(i, copy[p][i])

LEMMA OneHand ==
  ASSUME NEW p, Procs = {p}
  PROVE  /\ RowsInHand /\ RangesTold <=> InHand(p) /\ ToldBy(p)
         /\ RowsInHand' /\ RangesTold' <=> InHand(p)' /\ ToldBy(p)'
BY DEF RowsInHand, RangesTold, InHand, ToldBy, Batch

LEMMA SameHand ==
  ASSUME NEW p, InHand(p), ToldBy(p), UNCHANGED <<claimed, copy, step>>,
         emitted \subseteq emitted', dropped \subseteq dropped', claimed[p] \subseteq Ids,
         \A j \in Ids : Kept(j) /\ ev'[j].st = ev[j].st
  PROVE  InHand(p)' /\ ToldBy(p)'
<1>1. InHand(p)'
  BY DEF InHand, Kept
<1>2. ASSUME NEW i \in Ids, ev'[i].st = "published"
      PROVE  RangeTold(i, ev[i])' /\ RangeTold(i, ev[i])
  BY <1>2 DEF ToldBy, RangeTold, Kept
<1>3. ASSUME NEW i \in Ids, step'[p] = "mark", Current(p, i)'
      PROVE  RangeTold(i, copy[p][i])'
  BY <1>3 DEF ToldBy, RangeTold, Current, Batch
<1> QED BY <1>1, <1>2, <1>3 DEF ToldBy

LEMMA DispatchHand ==
  ASSUME ChatInd, NEW p, Procs = {p}, InHand(p), ToldBy(p), DispatchStep(p)
  PROVE  InHand(p)' /\ ToldBy(p)'
<1>0. /\ ev \in [Ids -> Row] /\ claimed \in [Procs -> SUBSET Ids] /\ p \in Procs
      /\ step \in [Procs -> {"idle", "load", "emit", "mark", "fail"}]
      /\ copy \in [Procs -> [Ids -> Copy]] /\ claimed[p] \subseteq Ids
      /\ \A i \in Ids : ev[i] \in Row
  BY TypesOf DEF TypeOK
<1>1. \A j \in Ids : Kept(j)
  <2>1. DispatcherNext
    BY <1>0 DEF DispatcherNext
  <2> QED BY <2>1, DispatchKeeps, TypesOf
<1>2. CASE Claim(p)
  <2>1. /\ claimed'[p] = {i \in Ids : Claimable(i)} /\ step'[p] = "load"
        /\ UNCHANGED <<copy, emitted, dropped>>
    BY <1>0, <1>2 DEF Claim
  <2>2. \A i \in Ids : IF Claimable(i) THEN ev'[i].st = "processing"
                       ELSE ev'[i] = ev[i]
    BY <1>0, <1>2 DEF Claim, Row
  <2>3. InHand(p)'
    BY <1>1, <2>1, <2>2 DEF InHand, Kept
  <2> QED BY <2>1, <2>2, <2>3 DEF ToldBy, RangeTold
<1>3. CASE Load(p)
  <2> DEFINE found == {i \in claimed[p] : ev[i].st # "deleted"}
  <2>1. /\ claimed'[p] = {} /\ step'[p] \in {"idle", "emit"}
        /\ UNCHANGED <<ev, emitted, dropped>>
        /\ \A i \in Ids : copy'[p][i] =
             IF i \in found
             THEN [att |-> ev[i].att, seq |-> ev[i].seq, start |-> ev[i].start]
             ELSE NoCopy
    BY <1>0, <1>3 DEF Load
  <2>2. InHand(p)'
    <3> SUFFICES ASSUME NEW i \in Ids, copy'[p][i].att # 0
                 PROVE  /\ ev'[i].st \notin {"absent", "pending"}
                        /\ copy'[p][i].seq = ev'[i].seq
                        /\ copy'[p][i].start = ev'[i].start
      BY <2>1 DEF InHand
    <3> HIDE DEF found
    <3>0. NoCopy.att = 0
      BY DEF NoCopy
    <3>1. i \in found
      BY <2>1, <3>0
    <3>2. ev[i].st = "processing"
      BY <3>1 DEF InHand, found
    <3>3. copy'[p][i] = [att |-> ev[i].att, seq |-> ev[i].seq, start |-> ev[i].start]
      BY <2>1, <3>1
    <3> QED BY <2>1, <3>2, <3>3
  <2> QED BY <2>1, <2>2 DEF ToldBy, RangeTold
<1>4. CASE LoadFails(p) \/ EmitFails(p) \/ NotReady(p)
  <2>1. /\ claimed'[p] = {} /\ step'[p] \in {"idle", "fail"}
        /\ UNCHANGED <<ev, copy, emitted, dropped>>
    BY <1>0, <1>4 DEF LoadFails, EmitFails, NotReady, InHand
  <2> QED BY <2>1 DEF InHand, ToldBy, RangeTold
<1>5. ASSUME NEW i \in Ids, Emit(p, i) \/ Drop(p, i)
      PROVE  InHand(p)' /\ ToldBy(p)'
  <2>1. /\ claimed' = claimed /\ claimed[p] = {} /\ UNCHANGED <<ev, copy>>
        /\ emitted \subseteq emitted' /\ dropped \subseteq dropped'
        /\ Current(p, i)
    BY <1>5 DEF Emit, Drop, InHand
  <2>2. RangeTold(i, copy[p][i])'
    BY <1>5, <2>1 DEF Emit, Drop, RangeTold
  <2>3. \A j \in Ids : Current(p, j)' => j = i
    BY <2>1 DEF Current, Batch, Ids
  <2> QED BY <2>1, <2>2, <2>3 DEF InHand, ToldBy, RangeTold
<1>6. ASSUME NEW i \in Ids, MarkPublished(p, i) \/ MarkPublishedThrows(p, i)
      PROVE  InHand(p)' /\ ToldBy(p)'
  <2>1. /\ step[p] = "mark" /\ Current(p, i) /\ claimed' = claimed /\ claimed[p] = {}
        /\ UNCHANGED <<emitted, dropped>> /\ step'[p] # "mark"
        /\ Published(i) \/ UNCHANGED ev
        /\ \A j \in Ids : copy'[p][j] \in {copy[p][j], NoCopy}
    BY <1>0, <1>6 DEF MarkPublished, MarkPublishedThrows, Advance, InHand
  <2>2. /\ \A j \in Ids \ {i} : ev'[j] = ev[j]
        /\ ev'[i].st \in {ev[i].st, "published"}
    BY <1>0, <2>1 DEF Published, Row
  <2>3. RangeTold(i, ev[i])
    BY <2>1 DEF Current, Batch, InHand, ToldBy, RangeTold
  <2>4. InHand(p)'
    BY <1>1, <2>1, <2>2 DEF InHand, Kept, NoCopy
  <2> QED BY <1>1, <2>1, <2>2, <2>3, <2>4 DEF ToldBy, RangeTold, Kept
<1>7. ASSUME NEW i \in Ids, MarkFailed(p, i) \/ MarkFailedThrows(p, i)
      PROVE  InHand(p)' /\ ToldBy(p)'
  <2>1. /\ claimed' = claimed /\ claimed[p] = {}
        /\ UNCHANGED <<emitted, dropped>> /\ step'[p] # "mark"
        /\ FailedRow(p, i) \/ UNCHANGED ev
        /\ copy'[p][i] = NoCopy
        /\ \A j \in Ids : copy'[p][j] \in {copy[p][j], NoCopy}
    BY <1>0, <1>7 DEF MarkFailed, MarkFailedThrows, Advance, InHand
  <2>2. /\ \A j \in Ids \ {i} : ev'[j] = ev[j]
        /\ ev'[i].st \in {ev[i].st, "dead", "pending"}
    <3>1. CASE UNCHANGED ev
      BY <3>1
    <3>2. CASE FailedRow(p, i)
      <4>1. \A j \in Ids \ {i} : ev'[j] = ev[j]
        BY <1>0, <3>2 DEF FailedRow
      <4>2. ev'[i].st \in {ev[i].st, "dead", "pending"}
        BY <1>0, <3>2 DEF FailedRow, Row
      <4> QED BY <4>1, <4>2
    <3> QED BY <2>1, <3>1, <3>2
  <2>3. InHand(p)'
    BY <1>1, <2>1, <2>2 DEF InHand, Kept, NoCopy
  <2> QED BY <1>1, <2>1, <2>2, <2>3 DEF ToldBy, RangeTold, Kept
<1>8. ASSUME NEW i \in Ids, Cleanup(p, i)
      PROVE  InHand(p)' /\ ToldBy(p)'
  <2>1. /\ UNCHANGED <<claimed, copy, step, emitted, dropped>>
        /\ ev[i].st \in {"published", "dead"}
        /\ \A j \in Ids \ {i} : ev'[j] = ev[j]
        /\ ev'[i].st = "deleted"
    BY <1>0, <1>8 DEF Cleanup, Row
  <2>2. InHand(p)'
    BY <1>0, <1>1, <2>1 DEF InHand, Kept
  <2> QED BY <2>1, <2>2 DEF ToldBy, RangeTold, Current, Batch
<1> QED BY <1>2, <1>3, <1>4, <1>5, <1>6, <1>7, <1>8 DEF DispatchStep

LEMMA DispatcherHand ==
  ASSUME ChatInd, NEW p, Procs = {p}, InHand(p), ToldBy(p), DispatcherNext
  PROVE  InHand(p)' /\ ToldBy(p)'
<1>0. /\ ev \in [Ids -> Row] /\ claimed[p] \subseteq Ids /\ TypeOK
      /\ \A i \in Ids : ev[i] \in Row
  BY TypesOf DEF TypeOK
<1>1. \A j \in Ids : Kept(j)
  BY DispatchKeeps, TypesOf
<1>2. UNCHANGED <<claimed, copy, step, emitted, dropped>>
        /\ (\A j \in Ids : ev'[j].st = ev[j].st)
      => InHand(p)' /\ ToldBy(p)'
  BY <1>0, <1>1, SameHand
<1>3. CASE IntentStep(p)
  <2>1. UNCHANGED <<claimed, copy, step, emitted, dropped>>
    BY <1>3 DEF IntentStep, IntentClaim, MaterializeFails, Materialize,
                MaterializeInDoubt, IntentMarkFailed, IntentMarkFailedThrows
  <2>2. CASE IntentClaim(p)
    BY <1>0, <1>2, <2>1, <2>2 DEF IntentClaim, Row
  <2>3. CASE MaterializeFails(p)
    BY <1>2, <2>1, <2>3 DEF MaterializeFails
  <2>4. ASSUME NEW i \in Ids,
               \/ Materialize(p, i) \/ MaterializeInDoubt(p, i)
               \/ IntentMarkFailed(p, i) \/ IntentMarkFailedThrows(p, i)
        PROVE  InHand(p)' /\ ToldBy(p)'
    <3>1. Materialized(p, i) \/ IntentFailedRow(p, i) \/ UNCHANGED ev
      BY <2>4 DEF Materialize, MaterializeInDoubt, IntentMarkFailed,
                  IntentMarkFailedThrows
    <3> QED BY <1>0, <1>2, <2>1, <3>1, IntentKept
  <2> QED BY <1>3, <2>2, <2>3, <2>4 DEF IntentStep
<1>4. CASE Deactivate(p)
  BY <1>2, <1>4 DEF Deactivate
<1>5. CASE Restart(p)
  <2>1. /\ claimed'[p] = {} /\ step'[p] = "idle" /\ UNCHANGED <<ev, emitted, dropped>>
        /\ \A j \in Ids : copy'[p][j] = NoCopy
    BY <1>0, <1>5 DEF Restart, TypeOK
  <2> QED BY <2>1 DEF InHand, ToldBy, RangeTold, NoCopy
<1>6. ASSUME NEW i \in Ids, Ripen(i)
      PROVE  InHand(p)' /\ ToldBy(p)'
  BY <1>0, <1>2, <1>6 DEF Ripen, Row
<1> QED BY <1>3, <1>4, <1>5, <1>6, DispatchHand DEF DispatcherNext

-----------------------------------------------------------------------------
(* A changed tick keeps its row, whatever is done to the row.              *)
Tells(i, a, n) ==
  /\ ev[i].st # "absent" /\ ev[i].type = "delivered" /\ ev[i].actor = a
  /\ Covers(ev[i].start, ev[i].seq, n)

LEMMA StillTells ==
  ASSUME TypeOK, TypeOK', NEW i \in Ids, NEW a, NEW n \in Int, Tells(i, a, n),
         Kept(i) \/ Reported(i) \/ ev'[i] = ev[i]
  PROVE  Tells(i, a, n)'
<1>1. /\ ev[i].seq \in Nat /\ ev[i].start \in Nat
      /\ ev'[i].seq \in Nat /\ ev'[i].start \in Nat
  BY DEF TypeOK, Row
<1>2. /\ ev'[i].st # "absent" /\ ev'[i].type = "delivered" /\ ev'[i].actor = a
      /\ ev'[i].seq >= ev[i].seq /\ ev'[i].start <= ev[i].start
  BY <1>1 DEF Tells, Kept, Reported
<1> QED BY <1>1, <1>2 DEF Tells, Covers

LEMMA OwedStep ==
  ASSUME ChatInd, OwedHaveRows, [ChatNext]_chatVars
  PROVE  OwedHaveRows'
<1> SUFFICES ASSUME NEW a \in Accounts, NEW n \in owed'[a]
             PROVE  \E i \in Ids : Tells(i, a, n)'
  BY DEF OwedHaveRows, Tells
<1>0. TypeOK /\ TypeOK'
  BY TypesOf, ChatTypeStep DEF OutboxInv
<1>1. ASSUME n \in owed[a], \A j \in Ids : Kept(j) \/ Reported(j) \/ ev'[j] = ev[j]
      PROVE  \E i \in Ids : Tells(i, a, n)'
  <2>1. n \in Int
    <3>1. owed[a] \subseteq 1 .. Len(msgs)
      BY TypesOf
    <3> QED BY <1>1, <3>1
  <2>2. PICK i \in Ids : Tells(i, a, n)
    BY <1>1 DEF OwedHaveRows, Tells
  <2> QED BY <1>0, <1>1, <2>1, <2>2, StillTells
<1>2. ASSUME NEW r \in Requests, NEW i \in Ids, SendCommit(r, i) \/ SendInDoubt(r, i)
      PROVE  \E j \in Ids : Tells(j, a, n)'
  <2>1. /\ owed' = owed /\ ev[i].st = "absent"
        /\ \A j \in Ids \ {i} : ev'[j] = ev[j]
    BY <1>2, SendStores
  <2>2. PICK j \in Ids : Tells(j, a, n)
    BY <2>1 DEF OwedHaveRows, Tells
  <2>3. j # i
    BY <2>1, <2>2 DEF Tells
  <2> QED BY <2>1, <2>2, <2>3 DEF Tells
<1>3. ASSUME NEW b \in Accounts, Moved(b)
      PROVE  \E i \in Ids : Tells(i, a, n)'
  <2>1. /\ owed' = [owed EXCEPT ![b] = @ \cup Ticks(b, cur[b].dlv, cur'[b].dlv)]
        /\ \A j \in Ids : Reported(j)
        /\ Announced(b, cur[b].dlv, cur'[b].dlv)
    BY <1>3 DEF Moved, Reports
  <2>2. CASE n \in owed[a]
    BY <1>1, <2>1, <2>2
  <2>3. CASE n \notin owed[a]
    <3>1. b = a /\ n \in Ticks(a, cur[a].dlv, cur'[a].dlv)
      BY <2>1, <2>3, TypesOf
    <3>2. PICK j \in Ids :
            /\ ev'[j].st = "pending" /\ ev'[j].type = "delivered" /\ ev'[j].actor = a
            /\ Covers(ev'[j].start, ev'[j].seq, n)
      BY <2>1, <3>1 DEF Announced
    <3> QED BY <3>2 DEF Tells
  <2> QED BY <2>2, <2>3
<1>4. CASE Dispatch
  <2>1. owed' = owed /\ \A j \in Ids : Kept(j)
    BY <1>0, <1>4, DispatchKeeps DEF Dispatch
  <2> QED BY <1>1, <2>1
<1>5. CASE (\E r \in Requests : Ask(r)) \/ Tidy
  <2>1. UNCHANGED <<owed, ev>>
    BY <1>5, AskKeeps, TidyKeeps DEF vars
  <2> QED BY <1>1, <2>1
<1> QED BY <1>2, <1>3, <1>4, <1>5, ChatSteps

(* No member's transaction touches a row in hand.                          *)
LEMMA MemberHand ==
  ASSUME NEW p \in Procs, InHand(p), ToldBy(p), HandlesRows, claimed[p] \subseteq Ids,
         UNCHANGED <<claimed, copy, step, emitted, dropped>>,
         \A j \in Ids : \/ ev'[j] = ev[j]
                        \/ ev[j].st \in {"absent", "pending"} /\ ev'[j].st = "pending"
  PROVE  InHand(p)' /\ ToldBy(p)'
<1>1. InHand(p)'
  BY DEF InHand
<1>2. ToldBy(p)'
  BY DEF ToldBy, RangeTold, Current, Batch
<1> QED BY <1>1, <1>2

LEMMA HandStep ==
  ASSUME ChatInd, NEW p, Procs = {p}, InHand(p), ToldBy(p), [ChatNext]_chatVars
  PROVE  InHand(p)' /\ ToldBy(p)'
<1>0. HandlesRows /\ claimed[p] \subseteq Ids
  BY TypesOf DEF OutboxInv, TypeOK
<1>1. ASSUME NEW r \in Requests, NEW i \in Ids, SendCommit(r, i) \/ SendInDoubt(r, i)
      PROVE  InHand(p)' /\ ToldBy(p)'
  <2>1. /\ UNCHANGED dispatcherVars /\ ev[i].st = "absent" /\ ev'[i].st = "pending"
        /\ \A j \in Ids \ {i} : ev'[j] = ev[j]
    BY <1>1, SendStores
  <2> QED BY <1>0, <2>1, MemberHand DEF dispatcherVars
<1>2. ASSUME NEW a \in Accounts, Moved(a)
      PROVE  InHand(p)' /\ ToldBy(p)'
  <2>1. UNCHANGED dispatcherVars /\ \A j \in Ids : Reported(j)
    BY <1>2 DEF Moved, Reports
  <2>2. \A j \in Ids :
          \/ ev'[j] = ev[j]
          \/ ev[j].st \in {"absent", "pending"} /\ ev'[j].st = "pending"
    BY <2>1 DEF Reported
  <2> QED BY <1>0, <2>1, <2>2, MemberHand DEF dispatcherVars
<1>3. CASE (\E r \in Requests : Ask(r)) \/ Tidy
  <2>1. UNCHANGED <<ev, claimed, copy, step, emitted, dropped>>
    BY <1>3, AskKeeps, TidyKeeps DEF vars, dispatcherVars
  <2> QED BY <1>0, <2>1, MemberHand
<1> QED BY <1>1, <1>2, <1>3, ChatSteps, DispatcherHand DEF Dispatch

LEMMA TicksStep ==
  ASSUME NEW process, Procs = {process}
  PROVE  ChatInd /\ TicksInd /\ [ChatNext]_chatVars => TicksInd'
BY OneHand, HandStep, OwedStep DEF TicksInd

LEMMA TicksStart == ChatInit => TicksInd
BY DEF ChatInit, Init, TicksInd, RowsInHand, RangesTold, OwedHaveRows, Batch,
       NoCopy, Blank

LEMMA TicksTold == ChatInd /\ TicksInd => TicksCovered
<1> SUFFICES ASSUME ChatInd, TicksInd, NEW a \in Accounts, NEW n \in owed[a]
             PROVE  \E i \in Ids :
                      /\ ev[i].type = "delivered" /\ ev[i].actor = a
                      /\ Covers(ev[i].start, ev[i].seq, n)
                      /\ \/ ev[i].st \in {"pending", "processing", "dead", "deleted"}
                         \/ i \in dropped
                         \/ \E e \in emitted : e.id = i /\ Covers(e.start, e.seq, n)
  BY DEF TicksCovered
<1>1. PICK i \in Ids : Tells(i, a, n)
  BY DEF TicksInd, OwedHaveRows, Tells
<1>2. ev[i].st \in Statuses \ {"absent"}
  BY <1>1, TypesOf DEF TypeOK, Row, Tells
<1>3. CASE ev[i].st = "published"
  <2>1. RangeTold(i, ev[i])
    BY <1>3 DEF TicksInd, RangesTold
  <2> DEFINE e == [id |-> i, seq |-> ev[i].seq, start |-> ev[i].start]
  <2>2. i \in dropped \/ e \in emitted
    BY <2>1 DEF RangeTold
  <2>3. e.id = i /\ Covers(e.start, e.seq, n)
    BY <1>1 DEF Tells
  <2> HIDE DEF e
  <2> QED BY <1>1, <2>2, <2>3 DEF Tells
<1>4. CASE ev[i].st # "published"
  BY <1>1, <1>2, <1>4 DEF Statuses, Tells
<1> QED BY <1>3, <1>4

(* With one process, which the singleton guard is there for, the chat      *)
(* keeps its promise: what it emits covers every tick a cursor changed,    *)
(* however often a row was extended, claimed and failed on the way.        *)
THEOREM ChatKept ==
  ASSUME NEW process, Procs = {process}
  PROVE  ChatSpec => ChatPromise
BY SendsKept, TicksStep, TicksStart, TicksTold, PTL DEF ChatPromise, ChatSpec
=============================================================================
