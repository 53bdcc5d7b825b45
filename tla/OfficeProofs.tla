---------------------------- MODULE OfficeProofs ----------------------------
(***************************************************************************)
(* The office of a store: theorems about the job lock (CronLock), about    *)
(* the payslips (Payroll), what follows one (PayrollFollowUps) and the     *)
(* versions of a fine (PayrollRules).                                      *)
(***************************************************************************)
EXTENDS CronLock, PayrollFollowUps, Payroll, PayrollRules,
        FiniteSetTheorems, WellFoundedInduction, TLAPS

(***************************************************************************)
(* The distributed lock: of two instances that run one job at the same     *)
(* time, one lost the session of its lock, for any pool, any number of     *)
(* instances and overlapping fires.                                        *)
(***************************************************************************)

(* All the levels the fires of a covered instance count on are held by one *)
(* of its sessions, and one session at most holds the key: the invariant   *)
(* that NoRunInTwoInstances needs to be inductive.  A failed statement, or *)
(* an unlock that meets another session, leaves more levels than fires.    *)
Covers(s, i) == Inst(s) = i /\ Cardinality(Holding(i)) <= depth[s]
LevelsCover == \A i \in Instances \ exposed : \E s \in Sessions : Covers(s, i)
OneHolder == \A s, t \in Sessions : depth[s] > 0 /\ depth[t] > 0 => s = t
LockInv == TypeOK /\ LevelsCover /\ OneHolder

\* The fires that hold the lock are counted by a number.
LEMMA HoldingFinite ==
  ASSUME NEW i
  PROVE  /\ IsFiniteSet(Holding(i)) /\ Cardinality(Holding(i)) \in Nat
         /\ Cardinality(Holding(i)) = 0 <=> Holding(i) = {}
<1>1. IsFiniteSet(Fires)
  BY CronLockAssumption, FS_Product DEF Fires
<1>2. Holding(i) \subseteq Fires
  BY DEF Holding
<1>. QED
  BY <1>1, <1>2, FS_Subset, FS_CardinalityType, FS_EmptySet

(* The invariant gives the promise: a fire that runs is a level held.      *)
LEMMA InvariantGivesPromise ==
  ASSUME LockInv PROVE LockPromise
<1>. SUFFICES ASSUME NEW f \in Fires, NEW g \in Fires, InJob(f), InJob(g),
                     Inst(f) \notin exposed, Inst(g) \notin exposed
              PROVE Inst(f) = Inst(g)
  BY DEF LockPromise, NoRunInTwoInstances, LockInv
<1>1. ASSUME NEW h \in Fires, InJob(h), Inst(h) \notin exposed
      PROVE \E s \in Sessions : Inst(s) = Inst(h) /\ depth[s] > 0
  <2>1. Inst(h) \in Instances
    BY DEF Fires, Inst
  <2>2. PICK s \in Sessions : Covers(s, Inst(h))
    BY <1>1, <2>1 DEF LockInv, LevelsCover
  <2>3. Cardinality(Holding(Inst(h))) \in Nat /\ Cardinality(Holding(Inst(h))) # 0
    BY <1>1, HoldingFinite DEF Holding, InJob
  <2>4. depth[s] \in Nat
    BY CronLockAssumption DEF LockInv, TypeOK
  <2>. QED
    BY <2>2, <2>3, <2>4 DEF Covers
<1>. QED
  BY <1>1 DEF LockInv, OneHolder

\* Nobody holds the lock at first.
LEMMA InitInvariant ==
  ASSUME Init PROVE LockInv
<1>1. TypeOK
  BY CronLockAssumption DEF Init, TypeOK, Phases
<1>2. ASSUME NEW i \in Instances PROVE Covers(<<i, 1>>, i) /\ <<i, 1>> \in Sessions
  <2>1. Holding(i) = {}
    BY DEF Init, Holding
  <2>2. <<i, 1>> \in Sessions
    BY CronLockAssumption DEF Sessions
  <2>. QED
    BY <2>1, <2>2, HoldingFinite DEF Covers, Inst, Init
<1>3. OneHolder
  BY DEF OneHolder, Init
<1>. QED
  BY <1>1, <1>2, <1>3 DEF LockInv, LevelsCover

(* A step leaves the instances covered whose fires and levels it leaves    *)
(* alone, those it leaves no fire between lock and unlock, and those it    *)
(* covers itself.                                                          *)
LEMMA CoverStep ==
  ASSUME LockInv, TypeOK', OneHolder', NEW X, exposed \subseteq X, Exposes(X),
         \A i \in Instances \ X :
           \/ /\ Holding(i)' \subseteq Holding(i)
              /\ \A s \in Sessions : Inst(s) = i => depth'[s] = depth[s]
           \/ \E s \in Sessions : Covers(s, i)'
  PROVE  LockInv'
<1>. SUFFICES ASSUME NEW i \in Instances \ exposed'
              PROVE  \E s \in Sessions : Covers(s, i)'
  BY DEF LockInv, LevelsCover
<1>1. CASE Holding(i)' = {}
  <2>1. <<i, 1>> \in Sessions /\ Inst(<<i, 1>>) = i
    BY CronLockAssumption DEF Sessions, Inst
  <2>2. depth'[<<i, 1>>] \in Nat
    BY <2>1, CronLockAssumption DEF TypeOK
  <2>. QED
    BY <1>1, <2>1, <2>2, FS_EmptySet DEF Covers
<1>2. CASE Holding(i)' # {}
  <2>1. i \notin X
    BY <1>2 DEF Exposes
  <2>2. CASE /\ Holding(i)' \subseteq Holding(i)
             /\ \A s \in Sessions : Inst(s) = i => depth'[s] = depth[s]
    <3>1. PICK s \in Sessions : Covers(s, i)
      BY <2>1 DEF LockInv, LevelsCover
    <3>2. /\ Cardinality(Holding(i)') <= Cardinality(Holding(i))
          /\ Cardinality(Holding(i)') \in Nat /\ Cardinality(Holding(i)) \in Nat
      BY <2>2, HoldingFinite, FS_Subset, FS_CardinalityType
    <3>3. depth[s] \in Nat
      BY CronLockAssumption DEF LockInv, TypeOK
    <3>. QED
      BY <2>2, <3>1, <3>2, <3>3 DEF Covers
  <2>. QED
    BY <2>1, <2>2
<1>. QED
  BY <1>1, <1>2

\* A lock granted counts its fire.
LEMMA TryLockStep ==
  ASSUME LockInv, NEW f \in Fires, TryLock(f) PROVE LockInv'
<1>1. PICK s \in Sessions : /\ Inst(s) = Inst(f)
                            /\ phase[f] = "idle"
                            /\ Grantable(s)
                            /\ depth[s] < MaxDepth
                            /\ depth' = [depth EXCEPT ![s] = @ + 1]
                            /\ phase' = [phase EXCEPT ![f] = "tracking"]
                            /\ Exposes(exposed)
                            /\ row' = row
  BY DEF TryLock
<1>2. depth[s] \in Nat /\ \A t \in Sessions : depth[t] \in Nat
  BY CronLockAssumption DEF LockInv, TypeOK
<1>3. TypeOK'
  <2>1. depth' \in [Sessions -> 0 .. MaxDepth]
    BY <1>1, <1>2, CronLockAssumption DEF LockInv, TypeOK
  <2>2. phase' \in [Fires -> Phases]
    BY <1>1 DEF LockInv, TypeOK, Phases
  <2>. QED
    BY <1>1, <2>1, <2>2 DEF LockInv, TypeOK, Exposes
<1>4. ASSUME Inst(f) \notin exposed PROVE Covers(s, Inst(f))'
  <2>. DEFINE i == Inst(f)
  <2>1. PICK t \in Sessions : Covers(t, i)
    BY <1>4 DEF LockInv, LevelsCover, Fires, Inst
  <2>2. Cardinality(Holding(i)) <= depth[s]
    BY <1>1, <1>2, <2>1, HoldingFinite DEF Covers, Grantable
  <2>3. f \notin Holding(i) /\ Holding(i)' = Holding(i) \cup {f}
    BY <1>1 DEF Holding, LockInv, TypeOK
  <2>4. Cardinality(Holding(i)') = Cardinality(Holding(i)) + 1
    BY <2>3, HoldingFinite, FS_AddElement
  <2>5. depth'[s] = depth[s] + 1
    BY <1>1 DEF LockInv, TypeOK
  <2>. QED
    BY <1>1, <1>2, <2>2, <2>4, <2>5, HoldingFinite DEF Covers
<1>5. ASSUME NEW i \in Instances, i # Inst(f)
      PROVE  /\ Holding(i)' \subseteq Holding(i)
             /\ \A t \in Sessions : Inst(t) = i => depth'[t] = depth[t]
  BY <1>1, <1>5 DEF Holding, LockInv, TypeOK
<1>6. OneHolder'
  <2>1. \A t \in Sessions \ {s} : depth'[t] = 0
    BY <1>1 DEF Grantable, LockInv, TypeOK
  <2>. QED
    BY <2>1 DEF OneHolder
<1>. QED
  BY <1>1, <1>3, <1>4, <1>5, <1>6, CoverStep

(* A step that moves a fire to another phase without giving a level back:  *)
(* nothing the invariant counts grows.                                     *)
LEMMA PhaseStep ==
  ASSUME LockInv, NEW f \in Fires, NEW p \in Phases,
         phase' = [phase EXCEPT ![f] = p],
         phase[f] \in {"tracking", "running", "unlocking"}
           \/ p \in {"idle", "cleaning"},
         depth' = depth, Exposes(exposed),
         row' \in SUBSET Fires, \A g, h \in row' : g = h
  PROVE  LockInv'
<1>1. TypeOK' /\ OneHolder'
  BY DEF LockInv, TypeOK, OneHolder, Exposes
<1>2. \A i \in Instances : Holding(i)' \subseteq Holding(i)
  BY DEF Holding, LockInv, TypeOK
<1>. QED
  BY <1>1, <1>2, CoverStep

(* The unlock gives back the level of its fire where it meets the session  *)
(* that holds the lock, and nothing elsewhere.                             *)
LEMMA UnlockStep ==
  ASSUME LockInv, NEW f \in Fires, Unlock(f) PROVE LockInv'
<1>1. PICK s \in Sessions : /\ Inst(s) = Inst(f)
                            /\ phase[f] = "unlocking"
                            /\ depth' = UnlockIn(s)
                            /\ phase' = [phase EXCEPT ![f] = "cleaning"]
                            /\ Exposes(exposed)
                            /\ row' = row
  BY DEF Unlock
<1>2. \A t \in Sessions : depth[t] \in 0 .. MaxDepth
  BY DEF LockInv, TypeOK
<1>3. /\ depth' \in [Sessions -> 0 .. MaxDepth]
      /\ \A t \in Sessions \ {s} : depth'[t] = depth[t]
      /\ depth'[s] = IF depth[s] = 0 THEN 0 ELSE depth[s] - 1
  BY <1>1, <1>2, CronLockAssumption DEF UnlockIn, LockInv, TypeOK
<1>4. TypeOK'
  BY <1>1, <1>3 DEF LockInv, TypeOK, Phases, Exposes
<1>5. ASSUME Inst(f) \notin exposed PROVE \E t \in Sessions : Covers(t, Inst(f))'
  <2>. DEFINE i == Inst(f)
  <2>1. PICK t \in Sessions : Covers(t, i)
    BY <1>5 DEF LockInv, LevelsCover, Fires, Inst
  <2>2. f \in Holding(i) /\ Holding(i)' = Holding(i) \ {f}
    BY <1>1 DEF Holding, LockInv, TypeOK
  <2>3. /\ Cardinality(Holding(i)') = Cardinality(Holding(i)) - 1
        /\ Cardinality(Holding(i)) \in Nat /\ Cardinality(Holding(i)) > 0
    <3>1. Cardinality(Holding(i) \ {f}) = Cardinality(Holding(i)) - 1
      BY <2>2, HoldingFinite, FS_RemoveElement
    <3>. QED
      BY <2>2, <3>1, HoldingFinite
  <2>4. depth[t] \in Nat /\ depth[t] > 0 /\ depth'[t] >= depth[t] - 1
    BY <1>2, <1>3, <2>1, <2>3, CronLockAssumption DEF Covers
  <2>. QED
    BY <1>2, <1>3, <2>1, <2>3, <2>4, CronLockAssumption DEF Covers
<1>6. ASSUME NEW i \in Instances, i # Inst(f)
      PROVE  /\ Holding(i)' \subseteq Holding(i)
             /\ \A t \in Sessions : Inst(t) = i => depth'[t] = depth[t]
  BY <1>1, <1>3, <1>6 DEF Holding, LockInv, TypeOK
<1>7. OneHolder'
  <2>1. \A t \in Sessions : depth'[t] > 0 => depth[t] > 0
    BY <1>2, <1>3, CronLockAssumption
  <2>. QED
    BY <2>1 DEF LockInv, OneHolder
<1>. QED
  BY <1>1, <1>4, <1>5, <1>6, <1>7, CoverStep

(* Where sessions of instance i end, i is exposed or has no fire between   *)
(* lock and unlock.                                                        *)
LEMMA SessionsEnd ==
  ASSUME LockInv, TypeOK', NEW i \in Instances,
         \/ Exposes(exposed \cup {i})
         \/ Exposes(exposed) /\ Holding(i)' = {},
         \A k \in Instances \ {i} : Holding(k)' \subseteq Holding(k),
         \A t \in Sessions : depth'[t] = depth[t] \/ depth'[t] = 0,
         \A t \in Sessions : Inst(t) # i => depth'[t] = depth[t]
  PROVE  LockInv'
<1>1. OneHolder'
  <2>1. \A t \in Sessions : depth'[t] > 0 => depth[t] > 0
    OBVIOUS
  <2>. QED
    BY <2>1 DEF LockInv, OneHolder
<1>2. Exposes(exposed \cup {i})
  BY DEF Exposes
<1>. QED
  BY <1>1, <1>2, CoverStep

\* A session that ends under a fire exposes its instance.
LEMMA SessionClosesStep ==
  ASSUME LockInv, NEW s \in Sessions, SessionCloses(s) PROVE LockInv'
<1>1. Inst(s) \in Instances
  BY DEF Sessions, Inst
<1>2. TypeOK'
  BY <1>1, CronLockAssumption DEF SessionCloses, LockInv, TypeOK, Exposes
<1>3. \A k \in Instances : Holding(k)' = Holding(k)
  BY DEF SessionCloses, Holding
<1>4. \A t \in Sessions : /\ depth'[t] = depth[t] \/ depth'[t] = 0
                          /\ Inst(t) # Inst(s) => depth'[t] = depth[t]
  BY DEF SessionCloses, LockInv, TypeOK
<1>. QED
  BY <1>1, <1>2, <1>3, <1>4, SessionsEnd DEF SessionCloses

\* A crash takes the sessions and the fires of its instance.
LEMMA CrashStep ==
  ASSUME LockInv, NEW i \in Instances, Crash(i) PROVE LockInv'
<1>1. TypeOK'
  <2>1. depth' \in [Sessions -> 0 .. MaxDepth]
    BY CronLockAssumption DEF Crash, LockInv, TypeOK
  <2>2. phase' \in [Fires -> Phases]
    BY DEF Crash, LockInv, TypeOK, Phases
  <2>. QED
    BY <2>1, <2>2 DEF Crash, LockInv, TypeOK, Exposes
<1>2. Holding(i)' = {}
  BY DEF Crash, Holding
<1>3. \A k \in Instances \ {i} : Holding(k)' \subseteq Holding(k)
  BY DEF Crash, Holding
<1>4. \A t \in Sessions : /\ depth'[t] = depth[t] \/ depth'[t] = 0
                          /\ Inst(t) # i => depth'[t] = depth[t]
  BY DEF Crash
<1>. QED
  BY <1>1, <1>2, <1>3, <1>4, SessionsEnd DEF Crash

\* What a fire does with the lock keeps it counted until it ends.
LEMMA WithLockSteps ==
  ASSUME LockInv, NEW f \in Fires, WithLockStep(f) PROVE LockInv'
<1>1. CASE Track(f)
  BY <1>1, PhaseStep DEF Track, Phases
<1>2. CASE TrackFails(f)
  BY <1>2, PhaseStep DEF TrackFails, Phases, LockInv, TypeOK
<1>3. CASE JobEnds(f)
  BY <1>3, PhaseStep DEF JobEnds, Phases, LockInv, TypeOK
<1>4. CASE Unlock(f)
  BY <1>4, UnlockStep
<1>5. CASE CleanRow(f)
  BY <1>5, PhaseStep DEF CleanRow, Phases
<1>6. CASE ReleaseFails(f)
  BY <1>6, PhaseStep DEF ReleaseFails, Phases, LockInv, TypeOK
<1>. QED
  BY <1>1, <1>2, <1>3, <1>4, <1>5, <1>6 DEF WithLockStep

\* Every step keeps the lock with one holder.
LEMMA NextInvariant ==
  ASSUME LockInv, [Next]_vars PROVE LockInv'
<1>1. CASE \E f \in Fires : TryLock(f)
  BY <1>1, TryLockStep
<1>2. CASE \E f \in Fires : WithLockStep(f)
  BY <1>2, WithLockSteps
<1>3. CASE \E s \in Sessions : SessionCloses(s)
  BY <1>3, SessionClosesStep
<1>4. CASE \E i \in Instances : Crash(i)
  BY <1>4, CrashStep
<1>5. CASE UNCHANGED vars
  BY <1>5 DEF vars, LockInv, TypeOK, LevelsCover, Covers, OneHolder, Holding
<1>. QED
  BY <1>1, <1>2, <1>3, <1>4, <1>5 DEF Next

(* withLock under any pool: of two instances that run a job at the same    *)
(* time one lost the session of its lock under a fire, for any number of   *)
(* instances, sessions, overlapping fires, crashes and failed statements.  *)
THEOREM LockKeepsPromise == Spec => []LockPromise
<1>1. Init => LockInv
  BY InitInvariant
<1>2. LockInv /\ [Next]_vars => LockInv'
  BY NextInvariant
<1>3. LockInv => LockPromise
  BY InvariantGivesPromise
<1>. QED
  BY <1>1, <1>2, <1>3, PTL DEF Spec

-----------------------------------------------------------------------------
(* What follows a payslip.                                                 *)

\* The shifts done and the late ones are counted by numbers.
LEMMA CountsAreNat ==
  ASSUME FollowUpsTypeOK
  PROVE  /\ Cardinality(Completed) \in Nat /\ Cardinality(lateShifts) \in Nat
         /\ Cardinality(lateShifts) = 0 <=> lateShifts = {}
         /\ MonthFigures \in Figures
<1>1. IsFiniteSet(Completed)
  BY FollowUpsAssumption, FS_Subset DEF Completed
<1>2. IsFiniteSet(lateShifts)
  BY FollowUpsAssumption, FS_Subset DEF FollowUpsTypeOK
<1>3. Cardinality(Completed) \in Nat /\ Cardinality(lateShifts) \in Nat
  BY <1>1, <1>2, FS_CardinalityType
<1>4. Cardinality(lateShifts) = 0 <=> lateShifts = {}
  BY <1>2, FS_EmptySet
<1>5. QED
  BY <1>3, <1>4 DEF MonthFigures, Figures

\* A product of numbers is one.
LEMMA ProductIsNat == ASSUME NEW x \in Nat, NEW y \in Nat PROVE x * y \in Nat
OBVIOUS

\* The lines of a payslip are a snapshot.
LEMMA LinesAreNat ==
  ASSUME FollowUpsTypeOK
  PROVE  /\ EffectiveLines \in AdjustmentSnapshot
         /\ EffectiveLines.count = 0 => EffectiveLines.amount = 0
<1>1. Cardinality(lateShifts) \in Nat /\ finePrice \in Nat
  BY CountsAreNat, FollowUpsAssumption DEF FollowUpsTypeOK
<1>2. finePrice * Cardinality(lateShifts) \in Nat
  BY <1>1, ProductIsNat
<1>3. Cardinality(lateShifts) = 0 => finePrice * Cardinality(lateShifts) = 0
  BY <1>1
<1>4. QED
  BY <1>1, <1>2, <1>3 DEF EffectiveLines, AdjustmentSnapshot

\* A share of the shifts, in per cent and rounded, is a score.
LEMMA RoundedShare ==
  ASSUME NEW n \in Nat \ {0}, NEW k \in 0..n
  PROVE  (200 * k + n) \div (2 * n) \in 0..100
<1> DEFINE q == (200 * k + n) \div (2 * n)
           b == 2 * n
           a == 200 * k + n
<1>1. a \in Nat /\ b \in Nat \ {0} /\ a <= 201 * n /\ 201 * n < 101 * b
  OBVIOUS
<1>2. q \in Int /\ b * q <= a /\ a < b * q + b
  BY <1>1
<1>3. q >= 0
  <2>1. ASSUME q <= -1 PROVE b * q <= -b
    BY <1>1, <1>2, <2>1
  <2>2. QED
    BY <1>1, <1>2, <2>1
<1>4. q <= 100
  <2>1. ASSUME q >= 101 PROVE b * q >= 101 * b
    BY <1>1, <1>2, <2>1
  <2>2. QED
    BY <1>1, <1>2, <2>1
<1>5. QED
  BY <1>2, <1>3, <1>4

\* What is written as a summary is one.
LEMMA SummaryTyped ==
  ASSUME NEW f \in Figures PROVE SummaryOf(f) \in EmployeeMonthlySummary
<1>1. Score(f.completed, f.late) \in 0..100
  <2> DEFINE n == f.completed
             k == IF n > f.late THEN n - f.late ELSE 0
  <2>1. n \in Nat /\ k \in 0..n
    BY DEF Figures
  <2>2. CASE n = 0
    BY <2>2 DEF Score
  <2>3. CASE n # 0
    <3>1. (200 * k + n) \div (2 * n) \in 0..100
      BY <2>1, <2>3, RoundedShare
    <3>2. QED
      BY <2>3, <3>1 DEF Score
  <2>4. QED
    BY <2>2, <2>3
<1>2. QED
  BY <1>1 DEF SummaryOf, EmployeeMonthlySummary, Figures

(* The ledger of a snapshot, whoever records it.                           *)
LEMMA SnapshotKeeps ==
  ASSUME FollowUpsTypeOK, NoticesAddUp, EmptySnapshotIsFree, NEW teller \in BOOLEAN,
         RecordAdjustmentSnapshot(teller) \/ NothingRecorded
  PROVE  /\ snapshot' \in AdjustmentSnapshot \cup {NoSnapshot}
         /\ firstAmount' \in Nat /\ silent' \in Int
         /\ announced' \in [count : Nat, sum : Int]
         /\ NoticesAddUp' /\ EmptySnapshotIsFree'
         /\ \/ announced' = announced
            \/ announced'.count = announced.count + 1
         /\ announced' # announced => snapshot'.count # snapshot.count
<1>1. CASE NothingRecorded
  BY <1>1 DEF NothingRecorded, FollowUpsTypeOK, NoticesAddUp, EmptySnapshotIsFree
<1>2. CASE RecordAdjustmentSnapshot(teller)
  <2> DEFINE L == EffectiveLines
  <2>1. L \in [amount : Nat, count : Nat] /\ (L.count = 0 => L.amount = 0) /\ L # NoSnapshot
    BY LinesAreNat, FollowUpsAssumption DEF AdjustmentSnapshot
  <2> HIDE DEF L
  <2>2. /\ snapshot' = L
        /\ firstAmount' = IF snapshot = NoSnapshot THEN L.amount ELSE firstAmount
        /\ announced' = IF teller /\ Announces
                        THEN [count |-> announced.count + 1, sum |-> announced.sum + Delta]
                        ELSE announced
        /\ silent' = IF teller /\ Announces THEN silent ELSE silent + Delta
    BY <1>2 DEF RecordAdjustmentSnapshot, L
  <2>3. /\ announced \in [count : Nat, sum : Int] /\ silent \in Int /\ firstAmount \in Nat
        /\ snapshot # NoSnapshot => snapshot \in [amount : Nat, count : Nat]
    BY DEF FollowUpsTypeOK, AdjustmentSnapshot
  <2>4. /\ Delta \in Int
        /\ snapshot = NoSnapshot => Delta = 0
        /\ snapshot # NoSnapshot => Delta = L.amount - snapshot.amount
    BY <2>1, <2>3 DEF Delta, L
  <2>5. Announces => snapshot # NoSnapshot /\ L.count # snapshot.count
    <3> SUFFICES ASSUME Announces, snapshot # NoSnapshot PROVE L.count # snapshot.count
      BY <2>4 DEF Announces
    <3>1. L.amount # snapshot.amount
      BY <2>1, <2>3, <2>4 DEF Announces
    <3>2. L.count = 0 \/ snapshot.count = 0 \/ L.count # snapshot.count
      BY DEF Announces, OccurrenceChanged, L
    <3>3. snapshot.count = 0 => snapshot.amount = 0
      BY DEF EmptySnapshotIsFree
    <3>4. QED
      BY <2>1, <3>1, <3>2, <3>3
  <2>6. NoticesAddUp'
    <3>1. CASE snapshot = NoSnapshot
      <4>1. announced.sum + silent = 0
        BY <3>1 DEF NoticesAddUp
      <4>2. /\ announced' = announced /\ silent' = silent + Delta /\ Delta = 0
            /\ firstAmount' = L.amount /\ snapshot' = L
        BY <3>1, <2>2, <2>4, <2>5
      <4>3. announced'.sum + silent' = snapshot'.amount - firstAmount'
        BY <4>1, <4>2, <2>1, <2>3
      <4>4. QED
        BY <4>2, <4>3, <2>1 DEF NoticesAddUp
    <3>2. CASE snapshot # NoSnapshot
      <4>1. announced.sum + silent = snapshot.amount - firstAmount
        BY <3>2 DEF NoticesAddUp
      <4>2. /\ firstAmount' = firstAmount /\ snapshot'.amount = L.amount
            /\ \/ /\ announced'.sum = announced.sum + (L.amount - snapshot.amount)
                  /\ silent' = silent
               \/ /\ announced'.sum = announced.sum
                  /\ silent' = silent + (L.amount - snapshot.amount)
        BY <3>2, <2>2, <2>4
      <4>3. announced.sum \in Int /\ snapshot.amount \in Nat /\ L.amount \in Nat
        BY <3>2, <2>1, <2>3
      <4>4. announced'.sum + silent' = snapshot'.amount - firstAmount'
        BY <4>1, <4>2, <4>3, <2>3
      <4>5. QED
        BY <4>4, <2>1, <2>2 DEF NoticesAddUp
    <3>3. QED
      BY <3>1, <3>2
  <2>7. EmptySnapshotIsFree'
    BY <2>1, <2>2 DEF EmptySnapshotIsFree
  <2>8. /\ announced' \in [count : Nat, sum : Int]
        /\ \/ announced' = announced
           \/ announced'.count = announced.count + 1
    BY <2>2, <2>3, <2>4
  <2>9. announced' # announced => snapshot'.count # snapshot.count
    BY <2>2, <2>5
  <2>10. QED
    BY <2>1, <2>2, <2>3, <2>4, <2>6, <2>7, <2>8, <2>9 DEF AdjustmentSnapshot
<1>3. QED
  BY <1>1, <1>2

(* Messages that leave a desk are sent or lost; no other notice moves.      *)
LEMMA NoticesDelivered ==
  ASSUME FollowUpsTypeOK, NoticesInHand, NEW d \in FollowDesks, NEW W \in SUBSET Addressees,
         announced' = announced,
         \A e \in FollowDesks : e # d => followDesk'[e] = followDesk[e],
         W \subseteq followDesk[d].left,
         followDesk'[d].left = followDesk[d].left \ W,
         followDesk'[d].left # {} => followDesk'[d].notice = followDesk[d].notice,
         followDesk'[d].at = "notify" <=> followDesk'[d].left # {},
         \A w \in Addressees \ W : sentTo'[w] = sentTo[w] /\ lostFor'[w] = lostFor[w],
         \A w \in W :
           \/ /\ sentTo'[w] = sentTo[w] \cup {followDesk[d].notice}
              /\ lostFor'[w] = lostFor[w]
           \/ /\ lostFor'[w] = lostFor[w] \cup {followDesk[d].notice}
              /\ sentTo'[w] = sentTo[w]
  PROVE  NoticesInHand'
<1> DEFINE Met(w) == sentTo[w] \cup lostFor[w]
           MetNow(w) == sentTo'[w] \cup lostFor'[w]
<1>1. ASSUME NEW w \in Addressees
      PROVE  /\ sentTo'[w] \cap lostFor'[w] = {}
             /\ MetNow(w) = Met(w) \cup (IF w \in W THEN {followDesk[d].notice} ELSE {})
  BY <1>1 DEF NoticesInHand
<1> HIDE DEF Met, MetNow
<1>2. ASSUME NEW w \in Addressees PROVE MetNow(w) \subseteq 1..announced'.count
  BY <1>1, <1>2 DEF NoticesInHand, Met
<1>3. ASSUME NEW w \in Addressees, NEW n \in 1..announced'.count \ MetNow(w)
      PROVE  \E e \in FollowDesks : w \in followDesk'[e].left /\ followDesk'[e].notice = n
  <2>1. n \in 1..announced.count \ Met(w)
    BY <1>1, <1>3
  <2>2. PICK e \in FollowDesks : w \in followDesk[e].left /\ followDesk[e].notice = n
    BY <2>1 DEF NoticesInHand, Met
  <2>3. CASE e = d
    BY <1>1, <1>3, <2>2, <2>3
  <2>4. CASE e # d
    BY <2>2, <2>4
  <2>5. QED
    BY <2>3, <2>4
<1>4. ASSUME NEW w \in Addressees, NEW e \in FollowDesks, w \in followDesk'[e].left
      PROVE  followDesk'[e].notice \in 1..announced'.count \ MetNow(w)
  <2>1. w \in followDesk[e].left /\ followDesk'[e].notice = followDesk[e].notice
    BY <1>4
  <2>2. followDesk[e].notice \in 1..announced.count \ Met(w)
    BY <2>1 DEF NoticesInHand, Met
  <2>3. w \in W => e # d /\ followDesk[e].notice # followDesk[d].notice
    BY <1>4, <2>1 DEF NoticesInHand
  <2>4. QED
    BY <1>1, <2>1, <2>2, <2>3
<1>5. ASSUME NEW w \in Addressees, NEW e \in FollowDesks, NEW f \in FollowDesks,
             w \in followDesk'[e].left, w \in followDesk'[f].left,
             followDesk'[e].notice = followDesk'[f].notice
      PROVE  e = f
  <2>1. /\ w \in followDesk[e].left /\ followDesk'[e].notice = followDesk[e].notice
        /\ w \in followDesk[f].left /\ followDesk'[f].notice = followDesk[f].notice
    BY <1>5
  <2>2. followDesk[e].notice = followDesk[f].notice
    BY <1>5, <2>1
  <2>3. QED
    BY <2>1, <2>2 DEF NoticesInHand
<1>6. ASSUME NEW e \in FollowDesks
      PROVE  followDesk'[e].at = "notify" <=> followDesk'[e].left # {}
  BY <1>6 DEF NoticesInHand
<1>7. QED
  BY <1>1, <1>2, <1>3, <1>4, <1>5, <1>6 DEF NoticesInHand, MetNow

(* A desk without messages moves: no notice does.                           *)
LEMMA NoticesRest ==
  ASSUME FollowUpsTypeOK, NoticesInHand, NEW d \in FollowDesks,
         announced' = announced, sentTo' = sentTo, lostFor' = lostFor,
         \A e \in FollowDesks : e # d => followDesk'[e] = followDesk[e],
         followDesk[d].left = {}, followDesk'[d].left = {}, followDesk'[d].at # "notify"
  PROVE  NoticesInHand'
<1> DEFINE W == {}
<1>1. /\ W \in SUBSET Addressees /\ W \subseteq followDesk[d].left
      /\ followDesk'[d].left = followDesk[d].left \ W
      /\ \A w \in W : FALSE
  OBVIOUS
<1> HIDE DEF W
<1>2. QED
  BY <1>1, NoticesDelivered

(* A change that is announced is a new notice, for everyone.                *)
LEMMA NoticeAnnounced ==
  ASSUME FollowUpsTypeOK, NoticesInHand, NEW d \in FollowDesks,
         announced'.count = announced.count + 1,
         \A e \in FollowDesks : e # d => followDesk'[e] = followDesk[e],
         followDesk[d].left = {}, followDesk'[d].left = Addressees,
         followDesk'[d].notice = announced'.count, followDesk'[d].at = "notify",
         UNCHANGED noticeVars
  PROVE  NoticesInHand'
<1> DEFINE k == announced.count
           Met(w) == sentTo[w] \cup lostFor[w]
<1>1. k \in Nat /\ announced'.count = k + 1
  BY DEF FollowUpsTypeOK
<1>2. sentTo' = sentTo /\ lostFor' = lostFor
  BY DEF noticeVars
<1>3. \A w \in Addressees : Met(w) \subseteq 1..k /\ sentTo[w] \cap lostFor[w] = {}
  BY DEF NoticesInHand
<1>4. ASSUME NEW w \in Addressees, NEW n \in 1..(k + 1) \ Met(w)
      PROVE  \E e \in FollowDesks : w \in followDesk'[e].left /\ followDesk'[e].notice = n
  <2>1. CASE n = k + 1
    BY <2>1, <1>1
  <2>2. CASE n # k + 1
    <3>1. n \in 1..k \ Met(w)
      BY <1>1, <2>2, <1>4
    <3>2. PICK e \in FollowDesks : w \in followDesk[e].left /\ followDesk[e].notice = n
      BY <3>1 DEF NoticesInHand
    <3>3. QED
      BY <3>2
  <2>3. QED
    BY <2>1, <2>2
<1>5. ASSUME NEW w \in Addressees, NEW e \in FollowDesks, w \in followDesk'[e].left
      PROVE  /\ followDesk'[e].notice \in 1..(k + 1) \ Met(w)
             /\ e # d => w \in followDesk[e].left /\ followDesk'[e].notice \in 1..k
  <2>1. CASE e = d
    BY <2>1, <1>1, <1>3
  <2>2. CASE e # d
    <3>1. w \in followDesk[e].left /\ followDesk'[e].notice = followDesk[e].notice
      BY <2>2, <1>5
    <3>2. followDesk[e].notice \in 1..k \ Met(w)
      BY <3>1 DEF NoticesInHand
    <3>3. QED
      BY <3>1, <3>2, <2>2, <1>1
  <2>3. QED
    BY <2>1, <2>2
<1>6. ASSUME NEW w \in Addressees, NEW e \in FollowDesks, NEW f \in FollowDesks,
             w \in followDesk'[e].left, w \in followDesk'[f].left,
             followDesk'[e].notice = followDesk'[f].notice
      PROVE  e = f
  <2>1. CASE e # d /\ f # d
    BY <2>1, <1>6 DEF NoticesInHand
  <2>2. CASE e = d \/ f = d
    BY <2>2, <1>5, <1>6, <1>1
  <2>3. QED
    BY <2>1, <2>2
<1>7. ASSUME NEW e \in FollowDesks
      PROVE  followDesk'[e].at = "notify" <=> followDesk'[e].left # {}
  BY <1>7 DEF NoticesInHand, Addressees
<1>8. QED
  <2>1. \A w \in Addressees : Met(w) \subseteq 1..(k + 1)
    BY <1>1, <1>3
  <2>2. QED
    BY <1>1, <1>2, <1>3, <2>1, <1>4, <1>5, <1>6, <1>7 DEF NoticesInHand

(* One desk moved: the tasks of the others stand.                           *)
LEMMA TaskMoved ==
  ASSUME TasksRepair, NEW d \in FollowDesks,
         \A e \in FollowDesks : e # d => followDesk'[e] = followDesk[e],
         Completed \subseteq Completed', TaskInOrder(followDesk[d])',
         disturbed => disturbed',
         ~disturbed' =>
           /\ \A e \in FollowDesks : e # d => followDesk[e] = IdleFollow
           /\ Repairs(followDesk[d])'
           /\ followDesk'[d] = IdleFollow => EarningsRightBut({})' /\ SummaryRight'
  PROVE  TasksRepair'
<1>1. \A e \in FollowDesks : TaskInOrder(followDesk[e])'
  BY DEF TasksRepair, TaskInOrder
<1>2. ASSUME ~disturbed', NEW e \in FollowDesks PROVE Repairs(followDesk[e])'
  <2>1. e # d => followDesk'[e] = IdleFollow
    BY <1>2
  <2>2. CASE e # d
    BY <2>1, <2>2 DEF Repairs, IdleFollow
  <2>3. QED
    BY <2>2, <1>2
<1>3. ~disturbed' => \A e, f \in FollowDesks :
        followDesk'[e] # IdleFollow /\ followDesk'[f] # IdleFollow => e = f
  OBVIOUS
<1>4. ~disturbed' /\ Quiet' => EarningsRightBut({})' /\ SummaryRight'
  BY DEF Quiet
<1>5. QED
  BY <1>1, <1>2, <1>3, <1>4 DEF TasksRepair

\* The resting desk is a desk, and has nothing to tell.
LEMMA IdleFollowTyped ==
  /\ IdleFollow \in FollowTask
  /\ IdleFollow.at = "idle" /\ IdleFollow.shift = NoShift /\ IdleFollow.left = {}
  /\ IdleFollow.notice = 0
BY DEF IdleFollow, FollowTask, Figures

(* Every move of a desk, as far as types and the other desks go.            *)
LEMMA DeskWritten ==
  ASSUME FollowUpsTypeOK, NEW d \in FollowDesks, NEW t, FollowGoes(d, t)
  PROVE  /\ followDesk'[d] = t
         /\ \A e \in FollowDesks : e # d => followDesk'[e] = followDesk[e]
         /\ t \in FollowTask => followDesk' \in [FollowDesks -> FollowTask]
BY DEF FollowGoes, FollowUpsTypeOK

\* Where no payslip is written the ledger stands.
LEMMA LedgerUnchanged ==
  ASSUME FollowUpsInd, UNCHANGED slipVars
  PROVE  NoticesAddUp' /\ EmptySnapshotIsFree'
BY DEF FollowUpsInd, slipVars, NoticesAddUp, EmptySnapshotIsFree

\* A task starts at a resting desk; if it is the only one, nothing is owed.
LEMMA TaskStarted ==
  ASSUME FollowUpsInd, NEW d \in FollowDesks,
         NEW stage \in {"price", "recompute", "rebuild", "reprice"},
         NEW shift \in MonthShifts \cup {NoShift}, NEW tries \in Nat,
         StartsTask(d, stage, shift, tries), UNCHANGED <<slipVars, noticeVars>>
  PROVE  /\ followDesk' \in [FollowDesks -> FollowTask] /\ disturbed' \in BOOLEAN
         /\ followDesk'[d] = [IdleFollow EXCEPT !.at = stage, !.shift = shift, !.tries = tries]
         /\ followDesk'[d] # IdleFollow
         /\ followDesk'[d].at = stage /\ followDesk'[d].shift = shift
         /\ \A e \in FollowDesks : e # d => followDesk'[e] = followDesk[e]
         /\ disturbed => disturbed'
         /\ ~disturbed' => /\ \A e \in FollowDesks : followDesk[e] = IdleFollow
                           /\ EarningsRightBut({}) /\ SummaryRight
         /\ NoticesInHand'
<1> DEFINE t == [IdleFollow EXCEPT !.at = stage, !.shift = shift, !.tries = tries]
<1>1. /\ t \in FollowTask /\ t.at = stage /\ t.shift = shift /\ t.left = {}
      /\ t # IdleFollow
  BY DEF IdleFollow, FollowTask, Figures
<1> HIDE DEF t
<1>2. followDesk[d] = IdleFollow /\ FollowGoes(d, t) /\ disturbed' = (disturbed \/ ~Quiet)
  BY DEF StartsTask, t
<1>3. /\ followDesk'[d] = t
      /\ \A e \in FollowDesks : e # d => followDesk'[e] = followDesk[e]
      /\ followDesk' \in [FollowDesks -> FollowTask]
  BY <1>1, <1>2, DeskWritten DEF FollowUpsInd
<1>4. disturbed \in BOOLEAN
  BY DEF FollowUpsInd, FollowUpsTypeOK
<1>5. ~disturbed' => /\ \A e \in FollowDesks : followDesk[e] = IdleFollow
                     /\ EarningsRightBut({}) /\ SummaryRight
  BY <1>2 DEF FollowUpsInd, TasksRepair, Quiet
<1>6. NoticesInHand'
  <2>1. /\ announced' = announced /\ sentTo' = sentTo /\ lostFor' = lostFor
        /\ followDesk[d].left = {}
    BY <1>2, IdleFollowTyped DEF slipVars, noticeVars
  <2>2. QED
    BY <1>1, <1>3, <2>1, NoticesRest DEF FollowUpsInd
<1>7. disturbed' \in BOOLEAN /\ (disturbed => disturbed')
  BY <1>2, <1>4
<1>8. QED
  BY <1>1, <1>3, <1>5, <1>6, <1>7 DEF t

\* Each step keeps the invariant: a check-in ...
LEMMA CheckInKeeps ==
  ASSUME FollowUpsInd, NEW d \in FollowDesks, NEW s \in MonthShifts, NEW tardy \in BOOLEAN,
         CheckIn(d, s, tardy)
  PROVE  FollowUpsInd'
<1>1. /\ StartsTask(d, "recompute", NoShift, 1) /\ UNCHANGED slipVars /\ UNCHANGED noticeVars
      /\ work' = [work EXCEPT ![s] = "in"] /\ work[s] = "rostered"
      /\ lateShifts' = IF tardy THEN lateShifts \cup {s} ELSE lateShifts
      /\ UNCHANGED <<finePrice, wageRate, shiftEarnings, summary>>
  BY DEF CheckIn
<1>2. /\ followDesk' \in [FollowDesks -> FollowTask] /\ disturbed' \in BOOLEAN
      /\ followDesk'[d] # IdleFollow
      /\ followDesk'[d].at = "recompute" /\ followDesk'[d].shift = NoShift
      /\ \A e \in FollowDesks : e # d => followDesk'[e] = followDesk[e]
      /\ disturbed => disturbed'
      /\ ~disturbed' => /\ \A e \in FollowDesks : followDesk[e] = IdleFollow
                        /\ EarningsRightBut({}) /\ SummaryRight
      /\ NoticesInHand'
  BY <1>1, TaskStarted
<1>3. FollowUpsTypeOK'
  BY <1>1, <1>2 DEF FollowUpsInd, FollowUpsTypeOK, slipVars, noticeVars
<1>4. Completed' = Completed
  BY <1>1 DEF Completed, FollowUpsInd, FollowUpsTypeOK
<1>5. TasksRepair'
  <2>1. TaskInOrder(followDesk[d])'
    BY <1>2, IdleFollowTyped DEF TaskInOrder
  <2>2. EarningsRightBut({}) => EarningsRightBut({})'
    BY <1>1, <1>4 DEF EarningsRightBut
  <2>3. ~disturbed' => Repairs(followDesk[d])'
    BY <1>2, <2>2 DEF Repairs
  <2>4. QED
    BY <1>2, <1>4, <2>1, <2>3, TaskMoved DEF FollowUpsInd
<1>6. QED
  BY <1>1, <1>2, <1>3, <1>5, LedgerUnchanged DEF FollowUpsInd

\* ... a check-out ...
LEMMA CheckOutKeeps ==
  ASSUME FollowUpsInd, NEW d \in FollowDesks, NEW s \in MonthShifts, CheckOut(d, s)
  PROVE  FollowUpsInd'
<1>1. /\ StartsTask(d, "price", s, 1) \/ (disturbed' = TRUE /\ UNCHANGED followDesk)
      /\ UNCHANGED slipVars /\ UNCHANGED noticeVars
      /\ work' = [work EXCEPT ![s] = "done"] /\ work[s] = "in"
      /\ UNCHANGED <<lateShifts, finePrice, wageRate, shiftEarnings, summary>>
  BY DEF CheckOut
<1>2. Completed' = Completed \cup {s} /\ s # NoShift
  BY <1>1, FollowUpsAssumption DEF Completed, FollowUpsInd, FollowUpsTypeOK
<1>3. CASE StartsTask(d, "price", s, 1)
  <2>1. /\ followDesk' \in [FollowDesks -> FollowTask] /\ disturbed' \in BOOLEAN
        /\ followDesk'[d] # IdleFollow
        /\ followDesk'[d].at = "price" /\ followDesk'[d].shift = s
        /\ \A e \in FollowDesks : e # d => followDesk'[e] = followDesk[e]
        /\ disturbed => disturbed'
        /\ ~disturbed' => /\ \A e \in FollowDesks : followDesk[e] = IdleFollow
                          /\ EarningsRightBut({}) /\ SummaryRight
        /\ NoticesInHand'
    BY <1>1, <1>3, TaskStarted
  <2>2. FollowUpsTypeOK'
    BY <1>1, <2>1 DEF FollowUpsInd, FollowUpsTypeOK, slipVars, noticeVars
  <2>3. TasksRepair'
    <3>1. TaskInOrder(followDesk[d])'
      BY <1>2, <2>1, IdleFollowTyped DEF TaskInOrder
    <3>2. EarningsRightBut({}) => EarningsRightBut({s})'
      BY <1>1, <1>2 DEF EarningsRightBut
    <3>3. ~disturbed' => Repairs(followDesk[d])'
      BY <2>1, <3>2 DEF Repairs
    <3>4. QED
      BY <2>1, <1>2, <3>1, <3>3, TaskMoved DEF FollowUpsInd
  <2>4. QED
    BY <1>1, <2>1, <2>2, <2>3, LedgerUnchanged DEF FollowUpsInd
<1>4. CASE disturbed' = TRUE /\ UNCHANGED followDesk
  <2>1. FollowUpsTypeOK'
    BY <1>1, <1>4 DEF FollowUpsInd, FollowUpsTypeOK, slipVars, noticeVars
  <2>2. NoticesInHand'
    BY <1>1, <1>4 DEF FollowUpsInd, NoticesInHand, slipVars, noticeVars
  <2>3. TasksRepair'
    BY <1>2, <1>4 DEF FollowUpsInd, TasksRepair, TaskInOrder
  <2>4. QED
    BY <1>1, <2>1, <2>2, <2>3, LedgerUnchanged DEF FollowUpsInd
<1>5. QED
  BY <1>1, <1>3, <1>4

\* ... late minutes taken away ...
LEMMA ApproveLateKeeps ==
  ASSUME FollowUpsInd, NEW d \in FollowDesks, NEW s \in MonthShifts, ApproveLate(d, s)
  PROVE  FollowUpsInd'
<1>1. /\ StartsTask(d, "price", s, MaxTries) /\ UNCHANGED slipVars /\ UNCHANGED noticeVars
      /\ s \in Completed /\ lateShifts' = lateShifts \ {s} /\ MaxTries \in Nat /\ s # NoShift
      /\ UNCHANGED <<work, finePrice, wageRate, shiftEarnings, summary>>
  BY FollowUpsAssumption DEF ApproveLate
<1>2. /\ followDesk' \in [FollowDesks -> FollowTask] /\ disturbed' \in BOOLEAN
      /\ followDesk'[d] # IdleFollow
      /\ followDesk'[d].at = "price" /\ followDesk'[d].shift = s
      /\ \A e \in FollowDesks : e # d => followDesk'[e] = followDesk[e]
      /\ disturbed => disturbed'
      /\ ~disturbed' => /\ \A e \in FollowDesks : followDesk[e] = IdleFollow
                        /\ EarningsRightBut({}) /\ SummaryRight
      /\ NoticesInHand'
  BY <1>1, TaskStarted
<1>3. FollowUpsTypeOK'
  BY <1>1, <1>2 DEF FollowUpsInd, FollowUpsTypeOK, slipVars, noticeVars
<1>4. Completed' = Completed
  BY <1>1 DEF Completed
<1>5. TasksRepair'
  <2>1. TaskInOrder(followDesk[d])'
    BY <1>1, <1>2, <1>4, IdleFollowTyped DEF TaskInOrder
  <2>2. EarningsRightBut({}) => EarningsRightBut({s})'
    BY <1>1, <1>4 DEF EarningsRightBut
  <2>3. ~disturbed' => Repairs(followDesk[d])'
    BY <1>2, <2>2 DEF Repairs
  <2>4. QED
    BY <1>2, <1>4, <2>1, <2>3, TaskMoved DEF FollowUpsInd
<1>6. QED
  BY <1>1, <1>2, <1>3, <1>5, LedgerUnchanged DEF FollowUpsInd

\* ... a new price of the fine ...
LEMMA SaveFineRuleKeeps ==
  ASSUME FollowUpsInd, NEW d \in FollowDesks, NEW price \in FinePrices, SaveFineRule(d, price)
  PROVE  FollowUpsInd'
<1>1. /\ StartsTask(d, "rebuild", NoShift, 1) /\ UNCHANGED slipVars /\ UNCHANGED noticeVars
      /\ finePrice' = price
      /\ UNCHANGED <<work, lateShifts, wageRate, shiftEarnings, summary>>
  BY DEF SaveFineRule
<1>2. /\ followDesk' \in [FollowDesks -> FollowTask] /\ disturbed' \in BOOLEAN
      /\ followDesk'[d] # IdleFollow
      /\ followDesk'[d].at = "rebuild" /\ followDesk'[d].shift = NoShift
      /\ \A e \in FollowDesks : e # d => followDesk'[e] = followDesk[e]
      /\ disturbed => disturbed'
      /\ ~disturbed' => /\ \A e \in FollowDesks : followDesk[e] = IdleFollow
                        /\ EarningsRightBut({}) /\ SummaryRight
      /\ NoticesInHand'
  BY <1>1, TaskStarted
<1>3. FollowUpsTypeOK'
  BY <1>1, <1>2 DEF FollowUpsInd, FollowUpsTypeOK, slipVars, noticeVars
<1>4. Completed' = Completed /\ MonthFigures' = MonthFigures
  BY <1>1 DEF Completed, MonthFigures
<1>5. TasksRepair'
  <2>1. TaskInOrder(followDesk[d])'
    BY <1>2, IdleFollowTyped DEF TaskInOrder
  <2>2. /\ EarningsRightBut({}) => EarningsRightBut({})'
        /\ SummaryRight => SummaryRight'
    BY <1>1, <1>4 DEF EarningsRightBut, SummaryRight
  <2>3. ~disturbed' => Repairs(followDesk[d])'
    BY <1>2, <2>2 DEF Repairs
  <2>4. QED
    BY <1>2, <1>4, <2>1, <2>3, TaskMoved DEF FollowUpsInd
<1>6. QED
  BY <1>1, <1>2, <1>3, <1>5, LedgerUnchanged DEF FollowUpsInd

\* ... new wage rates ...
LEMMA SaveWageRatesKeeps ==
  ASSUME FollowUpsInd, NEW d \in FollowDesks, NEW wage \in WageRates, SaveWageRates(d, wage)
  PROVE  FollowUpsInd'
<1>1. /\ StartsTask(d, "reprice", NoShift, 1) /\ UNCHANGED slipVars /\ UNCHANGED noticeVars
      /\ wageRate' = wage
      /\ UNCHANGED <<work, lateShifts, finePrice, shiftEarnings, summary>>
  BY DEF SaveWageRates
<1>2. /\ followDesk' \in [FollowDesks -> FollowTask] /\ disturbed' \in BOOLEAN
      /\ followDesk'[d] # IdleFollow
      /\ followDesk'[d].at = "reprice" /\ followDesk'[d].shift = NoShift
      /\ \A e \in FollowDesks : e # d => followDesk'[e] = followDesk[e]
      /\ disturbed => disturbed'
      /\ ~disturbed' => /\ \A e \in FollowDesks : followDesk[e] = IdleFollow
                        /\ EarningsRightBut({}) /\ SummaryRight
      /\ NoticesInHand'
  BY <1>1, TaskStarted
<1>3. FollowUpsTypeOK'
  BY <1>1, <1>2 DEF FollowUpsInd, FollowUpsTypeOK, slipVars, noticeVars
<1>4. Completed' = Completed /\ MonthFigures' = MonthFigures
  BY <1>1 DEF Completed, MonthFigures
<1>5. TasksRepair'
  <2>1. TaskInOrder(followDesk[d])'
    BY <1>2, IdleFollowTyped DEF TaskInOrder
  <2>2. wageRate \in Nat /\ NoFigure \notin Nat
    BY FollowUpsAssumption DEF FollowUpsInd, FollowUpsTypeOK
  <2>3. /\ EarningsRightBut({}) => \A s \in Completed' : shiftEarnings'[s] # NoFigure
        /\ SummaryRight => SummaryRight'
    BY <1>1, <1>4, <2>2 DEF EarningsRightBut, SummaryRight
  <2>4. ~disturbed' => Repairs(followDesk[d])'
    BY <1>2, <2>3 DEF Repairs
  <2>5. QED
    BY <1>2, <1>4, <2>1, <2>4, TaskMoved DEF FollowUpsInd
<1>6. QED
  BY <1>1, <1>2, <1>3, <1>5, LedgerUnchanged DEF FollowUpsInd

\* ... the payment ...
LEMMA PaySalaryKeeps ==
  ASSUME FollowUpsInd, PaySalary PROVE FollowUpsInd'
<1>1. /\ payslipStatus' = "final"
      /\ UNCHANGED <<work, lateShifts, finePrice, wageRate, shiftEarnings, snapshot,
                     firstAmount, announced, silent, summary, followDesk, sentTo, lostFor,
                     disturbed>>
  BY DEF PaySalary, factVars, noticeVars
<1>2. FollowUpsTypeOK'
  BY <1>1 DEF FollowUpsInd, FollowUpsTypeOK
<1>3. NoticesAddUp' /\ EmptySnapshotIsFree'
  BY <1>1 DEF FollowUpsInd, NoticesAddUp, EmptySnapshotIsFree
<1>4. NoticesInHand'
  BY <1>1 DEF FollowUpsInd, NoticesInHand
<1>5. TasksRepair'
  BY <1>1 DEF FollowUpsInd, TasksRepair, TaskInOrder, Repairs, EarningsRightBut,
              SummaryRight, MonthFigures, Completed, Quiet
<1>6. QED
  BY <1>2, <1>3, <1>4, <1>5 DEF FollowUpsInd

(* The transaction of a payslip, up to where its task goes on.              *)
LEMMA PayslipWritten ==
  ASSUME FollowUpsInd, NEW d \in FollowDesks, NEW next \in {"refresh", "write"},
         followDesk[d].at \in {"price", "recompute"}, SlipWritten,
         RecordAdjustmentSnapshot(TRUE) \/ NothingRecorded, GoesOn(d, next),
         UNCHANGED <<factVars, noticeVars>>
  PROVE  /\ followDesk' \in [FollowDesks -> FollowTask]
         /\ followDesk'[d].at \in {next, "notify"} /\ followDesk'[d].next = next
         /\ followDesk'[d].shift = followDesk[d].shift
         /\ followDesk'[d].figures = MonthFigures
         /\ \A e \in FollowDesks : e # d => followDesk'[e] = followDesk[e]
         /\ NoticesInHand' /\ NoticesAddUp' /\ EmptySnapshotIsFree'
         /\ payslipStatus' \in {"none", "open", "final"}
         /\ snapshot' \in AdjustmentSnapshot \cup {NoSnapshot}
         /\ firstAmount' \in Nat /\ silent' \in Int
         /\ announced' \in [count : Nat, sum : Int]
<1> DEFINE t == [followDesk[d] EXCEPT
                   !.at = IF announced' = announced THEN next ELSE "notify",
                   !.next = next,
                   !.notice = announced'.count,
                   !.left = IF announced' = announced THEN {} ELSE Addressees,
                   !.figures = MonthFigures]
<1>1. followDesk[d] \in FollowTask /\ MonthFigures \in Figures
  BY CountsAreNat DEF FollowUpsInd, FollowUpsTypeOK
<1>2. /\ snapshot' \in AdjustmentSnapshot \cup {NoSnapshot}
      /\ firstAmount' \in Nat /\ silent' \in Int
      /\ announced' \in [count : Nat, sum : Int]
      /\ NoticesAddUp' /\ EmptySnapshotIsFree'
      /\ \/ announced' = announced
         \/ announced'.count = announced.count + 1
  BY SnapshotKeeps DEF FollowUpsInd
<1>3. /\ t \in FollowTask /\ t.next = next /\ t.notice = announced'.count
      /\ t.shift = followDesk[d].shift /\ t.figures = MonthFigures
      /\ announced' = announced => t.at = next /\ t.left = {}
      /\ announced' # announced => t.at = "notify" /\ t.left = Addressees
  BY <1>1, <1>2 DEF FollowTask
<1> HIDE DEF t
<1>4. /\ followDesk'[d] = t
      /\ \A e \in FollowDesks : e # d => followDesk'[e] = followDesk[e]
      /\ followDesk' \in [FollowDesks -> FollowTask]
  BY <1>3, DeskWritten DEF FollowUpsInd, GoesOn, t
<1>5. followDesk[d].left = {}
  BY DEF FollowUpsInd, NoticesInHand
<1>6. NoticesInHand'
  <2>1. sentTo' = sentTo /\ lostFor' = lostFor
    BY DEF noticeVars
  <2>2. CASE announced' = announced
    BY <1>3, <1>4, <1>5, <2>1, <2>2, NoticesRest DEF FollowUpsInd
  <2>3. CASE announced' # announced
    BY <1>2, <1>3, <1>4, <1>5, <2>3, NoticeAnnounced DEF FollowUpsInd
  <2>4. QED
    BY <2>2, <2>3
<1>7. payslipStatus' \in {"none", "open", "final"}
  BY DEF SlipWritten, FollowUpsInd, FollowUpsTypeOK
<1>8. QED
  BY <1>2, <1>3, <1>4, <1>6, <1>7

\* An undisturbed task is the only one, and owes what its stage says.
LEMMA OnlyTask ==
  ASSUME FollowUpsInd, NEW d \in FollowDesks, followDesk[d].at # "idle"
  PROVE  /\ followDesk[d] \in FollowTask /\ followDesk[d] # IdleFollow
         /\ TaskInOrder(followDesk[d])
         /\ ~disturbed => /\ \A e \in FollowDesks : e # d => followDesk[e] = IdleFollow
                          /\ Repairs(followDesk[d])
<1>1. followDesk[d] \in FollowTask
  BY DEF FollowUpsInd, FollowUpsTypeOK
<1>2. followDesk[d] # IdleFollow
  BY IdleFollowTyped
<1>3. QED
  BY <1>1, <1>2 DEF FollowUpsInd, TasksRepair

\* The payslip of a check-out ...
LEMMA PriceCheckoutKeeps ==
  ASSUME FollowUpsInd, NEW d \in FollowDesks, PriceCheckout(d)
  PROVE  FollowUpsInd' /\ PriceAloneIsSilent
<1>1. /\ followDesk[d].at = "price" /\ SlipWritten
      /\ RecordAdjustmentSnapshot(TRUE) \/ NothingRecorded
      /\ GoesOn(d, "write") /\ UNCHANGED <<factVars, noticeVars>>
      /\ shiftEarnings' = [s \in MonthShifts |->
           IF s \in Completed /\ DateOf[s] = DateOf[followDesk[d].shift] THEN wageRate
           ELSE shiftEarnings[s]]
      /\ UNCHANGED <<work, lateShifts, finePrice, wageRate, summary, sentTo, lostFor, disturbed>>
  BY DEF PriceCheckout, factVars, noticeVars
<1>2. /\ followDesk' \in [FollowDesks -> FollowTask]
      /\ followDesk'[d].at \in {"write", "notify"} /\ followDesk'[d].next = "write"
      /\ followDesk'[d].shift = followDesk[d].shift
      /\ followDesk'[d].figures = MonthFigures
      /\ \A e \in FollowDesks : e # d => followDesk'[e] = followDesk[e]
      /\ NoticesInHand' /\ NoticesAddUp' /\ EmptySnapshotIsFree'
      /\ payslipStatus' \in {"none", "open", "final"}
      /\ snapshot' \in AdjustmentSnapshot \cup {NoSnapshot}
      /\ firstAmount' \in Nat /\ silent' \in Int
      /\ announced' \in [count : Nat, sum : Int]
  BY <1>1, PayslipWritten
<1>3. wageRate \in Nat
  BY FollowUpsAssumption DEF FollowUpsInd, FollowUpsTypeOK
<1>4. FollowUpsTypeOK'
  BY <1>1, <1>2, <1>3 DEF FollowUpsInd, FollowUpsTypeOK
<1>5. Completed' = Completed /\ MonthFigures' = MonthFigures
  BY <1>1 DEF Completed, MonthFigures
<1>6. TasksRepair'
  <2>1. followDesk[d].at # "idle"
    BY <1>1
  <2>2. /\ followDesk[d].shift \in Completed
        /\ ~disturbed => /\ \A e \in FollowDesks : e # d => followDesk[e] = IdleFollow
                         /\ EarningsRightBut({followDesk[d].shift})
    BY <1>1, <2>1, OnlyTask DEF TaskInOrder, Repairs
  <2>3. TaskInOrder(followDesk[d])'
    BY <1>2, <1>5, <2>2, IdleFollowTyped DEF TaskInOrder
  <2>4. ~disturbed => EarningsRightBut({})'
    BY <1>1, <1>5, <2>2 DEF EarningsRightBut, Completed
  <2>5. ~disturbed' => Repairs(followDesk[d])' /\ followDesk'[d] # IdleFollow
    BY <1>1, <1>2, <1>5, <2>4, IdleFollowTyped DEF Repairs
  <2>6. QED
    BY <1>1, <1>2, <1>5, <2>2, <2>3, <2>5, TaskMoved DEF FollowUpsInd
<1>7. PriceAloneIsSilent
  BY <1>1, SnapshotKeeps DEF PriceAloneIsSilent, FollowUpsInd
<1>8. QED
  BY <1>2, <1>4, <1>6, <1>7 DEF FollowUpsInd

\* ... and of a check-in.
LEMMA RecomputePayslipKeeps ==
  ASSUME FollowUpsInd, NEW d \in FollowDesks, RecomputePayslip(d)
  PROVE  FollowUpsInd' /\ PriceAloneIsSilent
<1>1. /\ followDesk[d].at = "recompute" /\ SlipWritten
      /\ RecordAdjustmentSnapshot(TRUE) \/ NothingRecorded
      /\ GoesOn(d, "refresh") /\ UNCHANGED <<factVars, noticeVars>>
      /\ UNCHANGED <<work, lateShifts, finePrice, wageRate, shiftEarnings, summary, sentTo,
                     lostFor, disturbed>>
  BY DEF RecomputePayslip, factVars, noticeVars
<1>2. /\ followDesk' \in [FollowDesks -> FollowTask]
      /\ followDesk'[d].at \in {"refresh", "notify"} /\ followDesk'[d].next = "refresh"
      /\ followDesk'[d].shift = followDesk[d].shift
      /\ \A e \in FollowDesks : e # d => followDesk'[e] = followDesk[e]
      /\ NoticesInHand' /\ NoticesAddUp' /\ EmptySnapshotIsFree'
      /\ payslipStatus' \in {"none", "open", "final"}
      /\ snapshot' \in AdjustmentSnapshot \cup {NoSnapshot}
      /\ firstAmount' \in Nat /\ silent' \in Int
      /\ announced' \in [count : Nat, sum : Int]
  BY <1>1, PayslipWritten
<1>3. FollowUpsTypeOK'
  BY <1>1, <1>2 DEF FollowUpsInd, FollowUpsTypeOK
<1>4. Completed' = Completed
  BY <1>1 DEF Completed
<1>5. TasksRepair'
  <2>1. followDesk[d].at # "idle"
    BY <1>1
  <2>2. /\ followDesk[d].shift = NoShift
        /\ ~disturbed => /\ \A e \in FollowDesks : e # d => followDesk[e] = IdleFollow
                         /\ EarningsRightBut({})
    BY <1>1, <2>1, OnlyTask DEF TaskInOrder, Repairs
  <2>3. TaskInOrder(followDesk[d])'
    BY <1>2, <1>4, <2>2, IdleFollowTyped DEF TaskInOrder
  <2>4. EarningsRightBut({}) => EarningsRightBut({})'
    BY <1>1, <1>4 DEF EarningsRightBut
  <2>5. ~disturbed' => Repairs(followDesk[d])' /\ followDesk'[d] # IdleFollow
    BY <1>1, <1>2, <2>2, <2>4, IdleFollowTyped DEF Repairs
  <2>6. QED
    BY <1>1, <1>2, <1>4, <2>2, <2>3, <2>5, TaskMoved DEF FollowUpsInd
<1>6. PriceAloneIsSilent
  BY <1>1, SnapshotKeeps DEF PriceAloneIsSilent, FollowUpsInd
<1>7. QED
  BY <1>2, <1>3, <1>5, <1>6 DEF FollowUpsInd

(* A desk without messages goes on, and the month stays as it is.           *)
LEMMA DeskGoesOn ==
  ASSUME FollowUpsInd, NEW d \in FollowDesks, NEW t \in FollowTask, FollowGoes(d, t),
         followDesk[d].left = {}, t.left = {}, t.at # "notify",
         UNCHANGED <<slipVars, noticeVars, factVars>>,
         shiftEarnings' \in [MonthShifts -> Nat \cup {NoFigure}],
         summary' \in EmployeeMonthlySummary, disturbed' \in BOOLEAN,
         followDesk[d].at # "idle", disturbed => disturbed', TaskInOrder(t),
         ~disturbed' => /\ Repairs(followDesk[d])'
                        /\ t = IdleFollow => EarningsRightBut({})' /\ SummaryRight'
  PROVE  FollowUpsInd' /\ PriceAloneIsSilent
<1>1. UNCHANGED <<work, lateShifts, finePrice, wageRate, payslipStatus, snapshot, firstAmount,
                  announced, silent, sentTo, lostFor>>
  BY DEF slipVars, noticeVars, factVars
<1>2. /\ followDesk'[d] = t
      /\ \A e \in FollowDesks : e # d => followDesk'[e] = followDesk[e]
      /\ followDesk' \in [FollowDesks -> FollowTask]
  BY DeskWritten DEF FollowUpsInd
<1>3. FollowUpsTypeOK'
  BY <1>1, <1>2 DEF FollowUpsInd, FollowUpsTypeOK
<1>4. NoticesInHand'
  BY <1>1, <1>2, NoticesRest DEF FollowUpsInd
<1>5. Completed' = Completed
  BY <1>1 DEF Completed
<1>6. TasksRepair'
  <2>1. ~disturbed' => \A e \in FollowDesks : e # d => followDesk[e] = IdleFollow
    BY OnlyTask
  <2>2. TaskInOrder(followDesk[d])'
    BY <1>2, <1>5 DEF TaskInOrder
  <2>3. QED
    BY <1>2, <1>5, <2>1, <2>2, TaskMoved DEF FollowUpsInd
<1>7. QED
  BY <1>1, <1>3, <1>4, <1>6, LedgerUnchanged DEF FollowUpsInd, PriceAloneIsSilent

\* A failed recomputation goes on to the summary ...
LEMMA RecomputeFailsKeeps ==
  ASSUME FollowUpsInd, NEW d \in FollowDesks, RecomputeFails(d)
  PROVE  FollowUpsInd' /\ PriceAloneIsSilent
<1> DEFINE t == [followDesk[d] EXCEPT !.at = "refresh"]
<1>1. followDesk[d].at = "recompute" /\ followDesk[d] \in FollowTask
  BY DEF RecomputeFails, FollowUpsInd, FollowUpsTypeOK
<1>2. followDesk[d].left = {}
  BY <1>1 DEF FollowUpsInd, NoticesInHand
<1>3. /\ followDesk[d].shift = NoShift
      /\ ~disturbed => EarningsRightBut({})
  BY <1>1, OnlyTask DEF TaskInOrder, Repairs
<1>4. /\ t \in FollowTask /\ t.at = "refresh" /\ t.left = {} /\ t.shift = NoShift
      /\ t # IdleFollow
  BY <1>1, <1>2, <1>3, IdleFollowTyped DEF FollowTask
<1> HIDE DEF t
<1>5. /\ FollowGoes(d, t)
      /\ UNCHANGED <<factVars, shiftEarnings, slipVars, summary, noticeVars, disturbed>>
  BY DEF RecomputeFails, t
<1>6. followDesk'[d] = t
  BY <1>5, DeskWritten DEF FollowUpsInd
<1>7. TaskInOrder(t)
  BY <1>4, IdleFollowTyped DEF TaskInOrder
<1>8. EarningsRightBut({}) => EarningsRightBut({})'
  BY <1>5 DEF EarningsRightBut, Completed, factVars
<1>9. ~disturbed' => Repairs(followDesk[d])'
  BY <1>3, <1>4, <1>5, <1>6, <1>8 DEF Repairs
<1>10. /\ shiftEarnings' \in [MonthShifts -> Nat \cup {NoFigure}]
       /\ summary' \in EmployeeMonthlySummary /\ disturbed' \in BOOLEAN
  BY <1>5 DEF FollowUpsInd, FollowUpsTypeOK
<1>11. QED
  BY <1>1, <1>2, <1>4, <1>5, <1>7, <1>9, <1>10, DeskGoesOn

\* ... which is computed anew ...
LEMMA RefreshKeeps ==
  ASSUME FollowUpsInd, NEW d \in FollowDesks, RefreshEmployeeMonthlySummary(d)
  PROVE  FollowUpsInd' /\ PriceAloneIsSilent
<1> DEFINE t == [followDesk[d] EXCEPT !.at = "write", !.figures = MonthFigures]
<1>1. followDesk[d].at = "refresh" /\ followDesk[d] \in FollowTask /\ MonthFigures \in Figures
  BY CountsAreNat DEF RefreshEmployeeMonthlySummary, FollowUpsInd, FollowUpsTypeOK
<1>2. followDesk[d].left = {}
  BY <1>1 DEF FollowUpsInd, NoticesInHand
<1>3. /\ followDesk[d].shift = NoShift
      /\ ~disturbed => EarningsRightBut({})
  BY <1>1, OnlyTask DEF TaskInOrder, Repairs
<1>4. /\ t \in FollowTask /\ t.at = "write" /\ t.left = {} /\ t.shift = NoShift
      /\ t # IdleFollow /\ t.figures = MonthFigures
  BY <1>1, <1>2, <1>3, IdleFollowTyped DEF FollowTask
<1> HIDE DEF t
<1>5. /\ FollowGoes(d, t)
      /\ UNCHANGED <<factVars, shiftEarnings, slipVars, summary, noticeVars, disturbed>>
  BY DEF RefreshEmployeeMonthlySummary, t
<1>6. followDesk'[d] = t
  BY <1>5, DeskWritten DEF FollowUpsInd
<1>7. TaskInOrder(t)
  BY <1>4, IdleFollowTyped DEF TaskInOrder
<1>8. /\ EarningsRightBut({}) => EarningsRightBut({})'
      /\ MonthFigures' = MonthFigures
  BY <1>5 DEF EarningsRightBut, Completed, factVars, MonthFigures
<1>9. ~disturbed' => Repairs(followDesk[d])'
  BY <1>3, <1>4, <1>5, <1>6, <1>8 DEF Repairs
<1>10. /\ shiftEarnings' \in [MonthShifts -> Nat \cup {NoFigure}]
       /\ summary' \in EmployeeMonthlySummary /\ disturbed' \in BOOLEAN
  BY <1>5 DEF FollowUpsInd, FollowUpsTypeOK
<1>11. QED
  BY <1>1, <1>2, <1>4, <1>5, <1>7, <1>9, <1>10, DeskGoesOn

\* ... and written.
LEMMA WriteSummaryKeeps ==
  ASSUME FollowUpsInd, NEW d \in FollowDesks, WriteEmployeeMonthlySummary(d)
  PROVE  FollowUpsInd' /\ PriceAloneIsSilent
<1>1. /\ followDesk[d].at = "write" /\ followDesk[d] \in FollowTask
      /\ summary' = SummaryOf(followDesk[d].figures) /\ FollowGoes(d, IdleFollow)
      /\ UNCHANGED <<factVars, shiftEarnings, slipVars, noticeVars, disturbed>>
  BY DEF WriteEmployeeMonthlySummary, FollowUpsInd, FollowUpsTypeOK
<1>2. followDesk[d].left = {}
  BY <1>1 DEF FollowUpsInd, NoticesInHand
<1>3. ~disturbed => EarningsRightBut({}) /\ followDesk[d].figures = MonthFigures
  BY <1>1, OnlyTask DEF Repairs
<1>4. /\ shiftEarnings' \in [MonthShifts -> Nat \cup {NoFigure}]
      /\ summary' \in EmployeeMonthlySummary /\ disturbed' \in BOOLEAN
  <2>1. followDesk[d].figures \in Figures
    BY <1>1 DEF FollowTask
  <2>2. QED
    BY <1>1, <2>1, SummaryTyped DEF FollowUpsInd, FollowUpsTypeOK
<1>5. followDesk'[d] = IdleFollow
  BY <1>1, DeskWritten DEF FollowUpsInd
<1>6. TaskInOrder(IdleFollow)
  BY IdleFollowTyped DEF TaskInOrder
<1>7. /\ EarningsRightBut({}) => EarningsRightBut({})'
      /\ MonthFigures' = MonthFigures
  BY <1>1 DEF EarningsRightBut, Completed, factVars, MonthFigures
<1>8. ~disturbed' => EarningsRightBut({})' /\ SummaryRight'
  BY <1>1, <1>3, <1>7 DEF SummaryRight
<1>9. Repairs(followDesk[d])'
  BY <1>5, IdleFollowTyped DEF Repairs
<1>10. QED
  BY <1>1, <1>2, <1>4, <1>6, <1>8, <1>9, IdleFollowTyped, DeskGoesOn

\* New rates: the shifts are read ...
LEMMA ReadStoredShiftsKeeps ==
  ASSUME FollowUpsInd, NEW d \in FollowDesks, ReadStoredShifts(d)
  PROVE  FollowUpsInd' /\ PriceAloneIsSilent
<1> DEFINE R == {s \in Completed : shiftEarnings[s] # NoFigure}
           t == [followDesk[d] EXCEPT !.at = "store", !.amount = wageRate, !.rows = R]
<1>1. followDesk[d].at = "reprice" /\ followDesk[d] \in FollowTask /\ wageRate \in Nat
  BY FollowUpsAssumption DEF ReadStoredShifts, FollowUpsInd, FollowUpsTypeOK
<1>2. followDesk[d].left = {} /\ R \subseteq MonthShifts
  BY <1>1 DEF FollowUpsInd, NoticesInHand, Completed
<1>3. /\ followDesk[d].shift = NoShift
      /\ ~disturbed => SummaryRight /\ R = Completed
  BY <1>1, OnlyTask DEF TaskInOrder, Repairs
<1> HIDE DEF R
<1>4. /\ t \in FollowTask /\ t.at = "store" /\ t.left = {} /\ t.shift = NoShift
      /\ t # IdleFollow /\ t.amount = wageRate /\ t.rows = R
  BY <1>1, <1>2, <1>3, IdleFollowTyped DEF FollowTask
<1> HIDE DEF t
<1>5. /\ FollowGoes(d, t)
      /\ UNCHANGED <<factVars, shiftEarnings, slipVars, summary, noticeVars, disturbed>>
  BY DEF ReadStoredShifts, t, R
<1>6. followDesk'[d] = t
  BY <1>5, DeskWritten DEF FollowUpsInd
<1>7. TaskInOrder(t)
  BY <1>4, IdleFollowTyped DEF TaskInOrder
<1>8. /\ Completed' = Completed /\ MonthFigures' = MonthFigures /\ wageRate' = wageRate
      /\ SummaryRight => SummaryRight'
  BY <1>5 DEF Completed, factVars, MonthFigures, SummaryRight
<1>9. ~disturbed' => \A x \in Completed' \ t.rows : shiftEarnings'[x] = wageRate'
  BY <1>3, <1>4, <1>5, <1>8
<1>10. ~disturbed' => Repairs(followDesk[d])'
  BY <1>3, <1>4, <1>5, <1>6, <1>8, <1>9 DEF Repairs, EarningsRightBut
<1>11. /\ shiftEarnings' \in [MonthShifts -> Nat \cup {NoFigure}]
       /\ summary' \in EmployeeMonthlySummary /\ disturbed' \in BOOLEAN
  BY <1>5 DEF FollowUpsInd, FollowUpsTypeOK
<1>12. QED
  BY <1>1, <1>2, <1>4, <1>5, <1>7, <1>10, <1>11, DeskGoesOn

\* ... repriced one by one ...
LEMMA RepriceKeeps ==
  ASSUME FollowUpsInd, NEW d \in FollowDesks, NEW s \in MonthShifts,
         RepriceStoredShiftEarnings(d, s)
  PROVE  FollowUpsInd' /\ PriceAloneIsSilent
<1> DEFINE t == [followDesk[d] EXCEPT !.rows = @ \ {s}]
<1>1. /\ followDesk[d].at = "store" /\ followDesk[d] \in FollowTask
      /\ shiftEarnings' = [shiftEarnings EXCEPT ![s] = followDesk[d].amount]
      /\ shiftEarnings \in [MonthShifts -> Nat \cup {NoFigure}]
  BY DEF RepriceStoredShiftEarnings, FollowUpsInd, FollowUpsTypeOK
<1>2. followDesk[d].left = {}
  BY <1>1 DEF FollowUpsInd, NoticesInHand
<1>3. /\ followDesk[d].shift = NoShift
      /\ ~disturbed => /\ SummaryRight /\ followDesk[d].amount = wageRate
                       /\ EarningsRightBut(followDesk[d].rows)
  BY <1>1, OnlyTask DEF TaskInOrder, Repairs
<1>4. /\ t \in FollowTask /\ t.at = "store" /\ t.left = {} /\ t.shift = NoShift
      /\ t # IdleFollow /\ t.amount = followDesk[d].amount
      /\ t.rows = followDesk[d].rows \ {s} /\ followDesk[d].amount \in Nat
  BY <1>1, <1>2, <1>3, IdleFollowTyped DEF FollowTask
<1> HIDE DEF t
<1>5. /\ FollowGoes(d, t)
      /\ UNCHANGED <<factVars, slipVars, summary, noticeVars, disturbed>>
  BY DEF RepriceStoredShiftEarnings, t
<1>6. followDesk'[d] = t
  BY <1>5, DeskWritten DEF FollowUpsInd
<1>7. TaskInOrder(t)
  BY <1>4, IdleFollowTyped DEF TaskInOrder
<1>8. /\ Completed' = Completed /\ MonthFigures' = MonthFigures /\ wageRate' = wageRate
      /\ SummaryRight => SummaryRight'
  BY <1>5 DEF Completed, factVars, MonthFigures, SummaryRight
<1>9. ~disturbed' => \A x \in Completed' \ t.rows : shiftEarnings'[x] = wageRate'
  <2>1. Completed \subseteq MonthShifts
    BY DEF Completed
  <2>2. QED
    BY <1>1, <1>3, <1>4, <1>5, <1>8, <2>1 DEF EarningsRightBut
<1>10. ~disturbed' => Repairs(followDesk[d])'
  BY <1>3, <1>4, <1>5, <1>6, <1>8, <1>9 DEF Repairs, EarningsRightBut
<1>11. /\ shiftEarnings' \in [MonthShifts -> Nat \cup {NoFigure}]
       /\ summary' \in EmployeeMonthlySummary /\ disturbed' \in BOOLEAN
  BY <1>1, <1>4, <1>5 DEF FollowUpsInd, FollowUpsTypeOK
<1>12. QED
  BY <1>1, <1>2, <1>4, <1>5, <1>7, <1>10, <1>11, DeskGoesOn

\* ... and then the payslips are rebuilt ...
LEMMA RepricingEndsKeeps ==
  ASSUME FollowUpsInd, NEW d \in FollowDesks, RepricingEnds(d)
  PROVE  FollowUpsInd' /\ PriceAloneIsSilent
<1> DEFINE t == [IdleFollow EXCEPT !.at = "rebuild"]
<1>1. /\ followDesk[d].at \in {"reprice", "store"}
      /\ disturbed' = (disturbed \/ followDesk[d].at = "reprice" \/ followDesk[d].rows # {})
      /\ disturbed \in BOOLEAN
  BY DEF RepricingEnds, FollowUpsInd, FollowUpsTypeOK
<1>2. followDesk[d].left = {}
  BY <1>1 DEF FollowUpsInd, NoticesInHand
<1>3. ~disturbed' => ~disturbed /\ SummaryRight /\ EarningsRightBut({})
  BY <1>1, OnlyTask DEF Repairs
<1>4. /\ t \in FollowTask /\ t.at = "rebuild" /\ t.left = {} /\ t.shift = NoShift
      /\ t # IdleFollow
  BY IdleFollowTyped DEF FollowTask, IdleFollow, Figures
<1> HIDE DEF t
<1>5. /\ FollowGoes(d, t)
      /\ UNCHANGED <<factVars, shiftEarnings, slipVars, summary, noticeVars>>
  BY DEF RepricingEnds, t
<1>6. followDesk'[d] = t
  BY <1>5, DeskWritten DEF FollowUpsInd
<1>7. TaskInOrder(t)
  BY <1>4, IdleFollowTyped DEF TaskInOrder
<1>8. /\ EarningsRightBut({}) => EarningsRightBut({})'
      /\ SummaryRight => SummaryRight'
  BY <1>5 DEF EarningsRightBut, Completed, factVars, MonthFigures, SummaryRight
<1>9. ~disturbed' => Repairs(followDesk[d])'
  BY <1>3, <1>4, <1>6, <1>8 DEF Repairs
<1>10. /\ shiftEarnings' \in [MonthShifts -> Nat \cup {NoFigure}]
       /\ summary' \in EmployeeMonthlySummary /\ disturbed' \in BOOLEAN
       /\ disturbed => disturbed' /\ followDesk[d].at # "idle"
  BY <1>1, <1>5 DEF FollowUpsInd, FollowUpsTypeOK
<1>11. QED
  BY <1>1, <1>2, <1>4, <1>5, <1>7, <1>9, <1>10, DeskGoesOn

\* ... which tells nobody.
LEMMA RebuildPayrollKeeps ==
  ASSUME FollowUpsInd, NEW d \in FollowDesks, RebuildPayroll(d)
  PROVE  FollowUpsInd' /\ PriceAloneIsSilent
<1>1. /\ followDesk[d].at = "rebuild" /\ FollowGoes(d, IdleFollow)
      /\ \/ SlipWritten /\ (RecordAdjustmentSnapshot(FALSE) \/ NothingRecorded)
         \/ UNCHANGED slipVars
      /\ UNCHANGED <<work, lateShifts, finePrice, wageRate, shiftEarnings, summary, sentTo,
                     lostFor, disturbed>>
  BY DEF RebuildPayroll, factVars, noticeVars
<1>2. /\ snapshot' \in AdjustmentSnapshot \cup {NoSnapshot}
      /\ firstAmount' \in Nat /\ silent' \in Int
      /\ announced' \in [count : Nat, sum : Int]
      /\ payslipStatus' \in {"none", "open", "final"}
      /\ NoticesAddUp' /\ EmptySnapshotIsFree' /\ announced' = announced
  <2>1. CASE SlipWritten /\ (RecordAdjustmentSnapshot(FALSE) \/ NothingRecorded)
    <3>1. announced' = announced
      BY <2>1 DEF RecordAdjustmentSnapshot, NothingRecorded
    <3>2. payslipStatus' \in {"none", "open", "final"}
      BY <2>1 DEF SlipWritten, FollowUpsInd, FollowUpsTypeOK
    <3>3. QED
      BY <2>1, <3>1, <3>2, SnapshotKeeps DEF FollowUpsInd
  <2>2. CASE UNCHANGED slipVars
    BY <2>2, LedgerUnchanged DEF slipVars, FollowUpsInd, FollowUpsTypeOK
  <2>3. QED
    BY <1>1, <2>1, <2>2
<1>3. /\ followDesk'[d] = IdleFollow
      /\ \A e \in FollowDesks : e # d => followDesk'[e] = followDesk[e]
      /\ followDesk' \in [FollowDesks -> FollowTask]
  BY <1>1, DeskWritten, IdleFollowTyped DEF FollowUpsInd
<1>4. followDesk[d].left = {}
  BY <1>1 DEF FollowUpsInd, NoticesInHand
<1>5. FollowUpsTypeOK'
  BY <1>1, <1>2, <1>3 DEF FollowUpsInd, FollowUpsTypeOK
<1>6. NoticesInHand'
  BY <1>1, <1>2, <1>3, <1>4, IdleFollowTyped, NoticesRest DEF FollowUpsInd
<1>7. Completed' = Completed /\ MonthFigures' = MonthFigures
  BY <1>1 DEF Completed, MonthFigures
<1>8. TasksRepair'
  <2>1. ~disturbed => /\ \A e \in FollowDesks : e # d => followDesk[e] = IdleFollow
                      /\ EarningsRightBut({}) /\ SummaryRight
    BY <1>1, OnlyTask DEF Repairs
  <2>2. TaskInOrder(followDesk[d])'
    BY <1>3, IdleFollowTyped DEF TaskInOrder
  <2>3. /\ EarningsRightBut({}) => EarningsRightBut({})'
        /\ SummaryRight => SummaryRight'
    BY <1>1, <1>7 DEF EarningsRightBut, SummaryRight
  <2>4. Repairs(followDesk[d])'
    BY <1>3, IdleFollowTyped DEF Repairs
  <2>5. QED
    BY <1>1, <1>3, <1>7, <2>1, <2>2, <2>3, <2>4, TaskMoved DEF FollowUpsInd
<1>9. QED
  BY <1>2, <1>5, <1>6, <1>8 DEF FollowUpsInd, PriceAloneIsSilent

\* A notice is sent, or lost.
LEMMA NotifyKeeps ==
  ASSUME FollowUpsInd, NEW d \in FollowDesks, NEW who \in Addressees,
         NotifyAdjustmentChanges(d, who)
  PROVE  FollowUpsInd' /\ PriceAloneIsSilent
<1> DEFINE rest == followDesk[d].left \ {who}
           t == [followDesk[d] EXCEPT !.left = rest,
                   !.at = IF rest = {} THEN followDesk[d].next ELSE "notify"]
<1>1. /\ followDesk[d].at = "notify" /\ who \in followDesk[d].left
      /\ followDesk[d] \in FollowTask
      /\ \/ sentTo' = [sentTo EXCEPT ![who] = @ \cup {followDesk[d].notice}] /\ UNCHANGED lostFor
         \/ lostFor' = [lostFor EXCEPT ![who] = @ \cup {followDesk[d].notice}] /\ UNCHANGED sentTo
      /\ UNCHANGED <<work, lateShifts, finePrice, wageRate, shiftEarnings, summary, payslipStatus,
                     snapshot, firstAmount, announced, silent, disturbed>>
  BY DEF NotifyAdjustmentChanges, factVars, slipVars, FollowUpsInd, FollowUpsTypeOK
<1>2. followDesk[d].next \in {"refresh", "write"} /\ followDesk[d].notice \in Nat
  BY <1>1 DEF FollowTask
<1>3. /\ t \in FollowTask /\ t.left = rest /\ t.notice = followDesk[d].notice
      /\ t.at \in {"notify", "refresh", "write"} /\ (t.at = "notify" <=> rest # {})
      /\ t.at # "notify" => t.at = followDesk[d].next
      /\ t.shift = followDesk[d].shift /\ t.figures = followDesk[d].figures
      /\ t.next = followDesk[d].next
  BY <1>1, <1>2 DEF FollowTask
<1> HIDE DEF t
<1>4. /\ followDesk'[d] = t
      /\ \A e \in FollowDesks : e # d => followDesk'[e] = followDesk[e]
      /\ followDesk' \in [FollowDesks -> FollowTask]
  <2>1. FollowGoes(d, t)
    BY DEF NotifyAdjustmentChanges, t
  <2>2. QED
    BY <1>3, <2>1, DeskWritten DEF FollowUpsInd
<1>5. FollowUpsTypeOK'
  BY <1>1, <1>2, <1>4 DEF FollowUpsInd, FollowUpsTypeOK
<1>6. NoticesInHand'
  <2> DEFINE W == {who}
  <2>1. /\ W \in SUBSET Addressees /\ W \subseteq followDesk[d].left
        /\ followDesk'[d].left = followDesk[d].left \ W
    BY <1>1, <1>3, <1>4
  <2>2. \A w \in Addressees \ W : sentTo'[w] = sentTo[w] /\ lostFor'[w] = lostFor[w]
    BY <1>1 DEF FollowUpsInd, FollowUpsTypeOK
  <2>3. \A w \in W :
           \/ /\ sentTo'[w] = sentTo[w] \cup {followDesk[d].notice}
              /\ lostFor'[w] = lostFor[w]
           \/ /\ lostFor'[w] = lostFor[w] \cup {followDesk[d].notice}
              /\ sentTo'[w] = sentTo[w]
    BY <1>1 DEF FollowUpsInd, FollowUpsTypeOK
  <2>4. /\ followDesk'[d].left # {} => followDesk'[d].notice = followDesk[d].notice
        /\ followDesk'[d].at = "notify" <=> followDesk'[d].left # {}
    BY <1>3, <1>4
  <2> HIDE DEF W
  <2>5. QED
    BY <1>1, <1>4, <2>1, <2>2, <2>3, <2>4, NoticesDelivered DEF FollowUpsInd
<1>7. Completed' = Completed /\ MonthFigures' = MonthFigures
  BY <1>1 DEF Completed, MonthFigures
<1>8. TasksRepair'
  <2>1. /\ TaskInOrder(followDesk[d])
        /\ ~disturbed => /\ \A e \in FollowDesks : e # d => followDesk[e] = IdleFollow
                         /\ EarningsRightBut({})
                         /\ followDesk[d].next = "write" => followDesk[d].figures = MonthFigures
    BY <1>1, OnlyTask DEF Repairs
  <2>2. TaskInOrder(followDesk[d])'
    <3>1. /\ followDesk[d].shift # NoShift => followDesk[d].shift \in Completed
          /\ followDesk[d].next = "refresh" => followDesk[d].shift = NoShift
      BY <1>1, <2>1 DEF TaskInOrder
    <3>2. t # IdleFollow /\ (t.at = "refresh" => t.next = "refresh")
      BY <1>3, IdleFollowTyped
    <3>3. QED
      BY <1>3, <1>4, <1>7, <3>1, <3>2 DEF TaskInOrder
  <2>3. EarningsRightBut({}) => EarningsRightBut({})'
    BY <1>1, <1>7 DEF EarningsRightBut
  <2>4. followDesk'[d] # IdleFollow
    BY <1>3, <1>4, IdleFollowTyped
  <2>5. ~disturbed' => Repairs(followDesk[d])'
    <3>1. ~disturbed' => /\ EarningsRightBut({})'
                         /\ t.next = "write" => t.figures = MonthFigures'
      <4>1. ~disturbed' => ~disturbed
        BY <1>1
      <4>2. ~disturbed' => EarningsRightBut({})'
        BY <4>1, <2>1, <2>3
      <4>3. t.next = followDesk[d].next /\ t.figures = followDesk[d].figures
        BY <1>3
      <4>4. QED
        BY <4>1, <4>2, <4>3, <1>7, <2>1
    <3>2. t.at = "write" => t.next = "write"
      BY <1>3
    <3>3. QED
      BY <1>3, <1>4, <3>1, <3>2 DEF Repairs
  <2>6. /\ Completed \subseteq Completed' /\ disturbed' = disturbed
        /\ ~disturbed => \A e \in FollowDesks : e # d => followDesk[e] = IdleFollow
    <3>1. disturbed' = disturbed
      BY <1>1
    <3>2. QED
      BY <3>1, <1>7, <2>1
  <2>7. QED
    BY <1>4, <2>2, <2>4, <2>5, <2>6, TaskMoved DEF FollowUpsInd
<1>9. NoticesAddUp' /\ EmptySnapshotIsFree'
  BY <1>1 DEF FollowUpsInd, NoticesAddUp, EmptySnapshotIsFree
<1>10. QED
  BY <1>1, <1>5, <1>6, <1>8, <1>9 DEF FollowUpsInd, PriceAloneIsSilent

\* A task breaks: a check-out's job starts again, another is lost.
LEMMA TaskBreaksKeeps ==
  ASSUME FollowUpsInd, NEW d \in FollowDesks, TaskBreaks(d)
  PROVE  FollowUpsInd' /\ PriceAloneIsSilent
<1> DEFINE again == followDesk[d].shift # NoShift /\ followDesk[d].tries < MaxTries
           t == IF again THEN [IdleFollow EXCEPT !.at = "price", !.shift = followDesk[d].shift,
                                                 !.tries = followDesk[d].tries + 1]
                ELSE IdleFollow
<1>1. /\ followDesk[d] # IdleFollow /\ followDesk[d] \in FollowTask
      /\ lostFor' = [w \in Addressees |->
           IF w \in followDesk[d].left THEN lostFor[w] \cup {followDesk[d].notice}
           ELSE lostFor[w]]
      /\ disturbed' = (disturbed \/ ~again) /\ disturbed \in BOOLEAN
      /\ UNCHANGED <<work, lateShifts, finePrice, wageRate, shiftEarnings, summary, payslipStatus,
                     snapshot, firstAmount, announced, silent, sentTo>>
  BY DEF TaskBreaks, factVars, slipVars, FollowUpsInd, FollowUpsTypeOK
<1>2. /\ followDesk[d].at # "idle" /\ followDesk[d].notice \in Nat
      /\ followDesk[d].left \in SUBSET Addressees /\ TaskInOrder(followDesk[d])
      /\ ~disturbed => /\ \A e \in FollowDesks : e # d => followDesk[e] = IdleFollow
                       /\ Repairs(followDesk[d])
  <2>1. TaskInOrder(followDesk[d])
    BY DEF FollowUpsInd, TasksRepair
  <2>2. QED
    BY <1>1, <2>1, OnlyTask DEF TaskInOrder, FollowTask
<1>3. /\ t \in FollowTask /\ t.left = {} /\ t.at # "notify"
      /\ again => t.at = "price" /\ t.shift = followDesk[d].shift /\ t # IdleFollow
      /\ ~again => t = IdleFollow
  <2>1. CASE again
    <3>1. followDesk[d].shift \in MonthShifts \cup {NoShift} /\ followDesk[d].tries + 1 \in Nat
      BY <1>1 DEF FollowTask
    <3>2. t = [IdleFollow EXCEPT !.at = "price", !.shift = followDesk[d].shift,
                                 !.tries = followDesk[d].tries + 1]
      BY <2>1
    <3> HIDE DEF t, again
    <3>3. t \in FollowTask /\ t.left = {} /\ t.at = "price" /\ t.shift = followDesk[d].shift
      BY <3>1, <3>2 DEF FollowTask, IdleFollow, Figures
    <3>4. QED
      BY <2>1, <3>3, IdleFollowTyped
  <2>2. CASE ~again
    BY <2>2, IdleFollowTyped
  <2>3. QED
    BY <2>1, <2>2
<1>4. /\ followDesk'[d] = t
      /\ \A e \in FollowDesks : e # d => followDesk'[e] = followDesk[e]
      /\ followDesk' \in [FollowDesks -> FollowTask]
  <2>1. FollowGoes(d, t)
    BY DEF TaskBreaks
  <2> HIDE DEF t
  <2>2. QED
    BY <1>3, <2>1, DeskWritten DEF FollowUpsInd
<1> HIDE DEF t
<1>5. disturbed' \in BOOLEAN /\ (disturbed => disturbed') /\ (~disturbed' => again)
  BY <1>1
<1> HIDE DEF again
<1>6. FollowUpsTypeOK'
  BY <1>1, <1>2, <1>4, <1>5 DEF FollowUpsInd, FollowUpsTypeOK
<1>7. NoticesInHand'
  <2>1. PICK W \in SUBSET Addressees : W = followDesk[d].left
    BY <1>2
  <2>2. /\ \A w \in Addressees \ W : sentTo'[w] = sentTo[w] /\ lostFor'[w] = lostFor[w]
        /\ \A w \in W : /\ lostFor'[w] = lostFor[w] \cup {followDesk[d].notice}
                        /\ sentTo'[w] = sentTo[w]
    BY <1>1, <2>1
  <2>3. /\ followDesk'[d].left = followDesk[d].left \ W /\ followDesk'[d].left = {}
        /\ followDesk'[d].at # "notify"
    BY <1>3, <1>4, <2>1
  <2>4. QED
    BY <1>1, <1>4, <2>1, <2>2, <2>3, NoticesDelivered DEF FollowUpsInd
<1>8. Completed' = Completed
  BY <1>1 DEF Completed
<1>9. TasksRepair'
  <2>1. again => /\ followDesk[d].shift \in Completed /\ followDesk[d].shift # NoShift
                 /\ followDesk[d].at \in {"price", "notify", "write"}
    BY <1>1, <1>2 DEF TaskInOrder, FollowTask, again
  <2>2. TaskInOrder(followDesk[d])'
    BY <1>3, <1>4, <1>8, <2>1, IdleFollowTyped DEF TaskInOrder
  <2>3. ~disturbed' => EarningsRightBut({followDesk[d].shift})
    BY <1>2, <1>5, <2>1 DEF Repairs, EarningsRightBut
  <2>4. ~disturbed' => \A x \in Completed' \ {followDesk'[d].shift} : shiftEarnings'[x] = wageRate'
    BY <1>1, <1>3, <1>4, <1>5, <1>8, <2>3 DEF EarningsRightBut
  <2>5. ~disturbed' => Repairs(followDesk[d])' /\ followDesk'[d] # IdleFollow
    BY <1>3, <1>4, <1>5, <2>4 DEF Repairs, EarningsRightBut
  <2>6. QED
    BY <1>2, <1>4, <1>5, <1>8, <2>2, <2>5, TaskMoved DEF FollowUpsInd
<1>10. NoticesAddUp' /\ EmptySnapshotIsFree'
  BY <1>1 DEF FollowUpsInd, NoticesAddUp, EmptySnapshotIsFree
<1>11. QED
  BY <1>1, <1>6, <1>7, <1>9, <1>10 DEF FollowUpsInd, PriceAloneIsSilent

\* At first nothing was told and nothing is owed.
LEMMA FollowUpsStart == FollowUpsInit => FollowUpsInd
<1> SUFFICES ASSUME FollowUpsInit PROVE FollowUpsInd
  OBVIOUS
<1>1. /\ Completed = {} /\ lateShifts = {} /\ Quiet
      /\ \A d \in FollowDesks : followDesk[d] = IdleFollow
      /\ snapshot = NoSnapshot /\ announced = [count |-> 0, sum |-> 0] /\ silent = 0
      /\ \A w \in Addressees : sentTo[w] = {} /\ lostFor[w] = {}
  BY DEF FollowUpsInit, Completed, Quiet
<1>2. MonthFigures = [completed |-> 0, late |-> 0]
  BY <1>1, FS_EmptySet DEF MonthFigures
<1>3. FollowUpsTypeOK
  <2>1. [completed |-> 0, late |-> 0] \in Figures
    BY DEF Figures
  <2>2. summary \in EmployeeMonthlySummary
    BY <2>1, SummaryTyped DEF FollowUpsInit
  <2>3. followDesk \in [FollowDesks -> FollowTask]
    BY IdleFollowTyped DEF FollowUpsInit
  <2>4. /\ work \in [MonthShifts -> {"rostered", "in", "done"}]
        /\ shiftEarnings \in [MonthShifts -> Nat \cup {NoFigure}]
        /\ sentTo \in [Addressees -> SUBSET Nat] /\ lostFor \in [Addressees -> SUBSET Nat]
    BY DEF FollowUpsInit
  <2>5. /\ lateShifts \subseteq MonthShifts /\ finePrice \in FinePrices /\ wageRate \in WageRates
        /\ payslipStatus \in {"none", "open", "final"}
        /\ snapshot \in AdjustmentSnapshot \cup {NoSnapshot}
    BY DEF FollowUpsInit
  <2>6. firstAmount \in Nat /\ disturbed \in BOOLEAN
    BY DEF FollowUpsInit
  <2>7. [count |-> 0, sum |-> 0] \in [count : Nat, sum : Int]
    OBVIOUS
  <2>8. silent \in Int /\ announced \in [count : Nat, sum : Int]
    BY <1>1, <2>7
  <2>9. QED
    BY <2>2, <2>3, <2>4, <2>5, <2>6, <2>8 DEF FollowUpsTypeOK
<1>4. NoticesAddUp /\ EmptySnapshotIsFree
  BY <1>1 DEF NoticesAddUp, EmptySnapshotIsFree
<1>5. NoticesInHand
  BY <1>1, IdleFollowTyped DEF NoticesInHand
<1>6. TasksRepair
  <2>1. EarningsRightBut({}) /\ SummaryRight
    BY <1>1, <1>2 DEF EarningsRightBut, SummaryRight, FollowUpsInit
  <2>2. \A d \in FollowDesks : TaskInOrder(followDesk[d]) /\ Repairs(followDesk[d])
    BY <1>1, IdleFollowTyped DEF TaskInOrder, Repairs
  <2>3. QED
    BY <1>1, <2>1, <2>2 DEF TasksRepair
<1>7. QED
  BY <1>3, <1>4, <1>5, <1>6 DEF FollowUpsInd

\* Nothing is announced but in the transaction of a payslip.
LEMMA AnnouncesOnlyInTransactions ==
  ASSUME UNCHANGED announced PROVE PriceAloneIsSilent
BY DEF PriceAloneIsSilent

\* Every step keeps the invariant and is silent about the price alone.
LEMMA FollowUpsStep ==
  ASSUME FollowUpsInd, [FollowUpsNext]_followVars
  PROVE  FollowUpsInd' /\ PriceAloneIsSilent
<1>1. CASE PaySalary
  BY <1>1, PaySalaryKeeps, AnnouncesOnlyInTransactions DEF PaySalary
<1>2. ASSUME NEW d \in FollowDesks, NEW s \in MonthShifts, NEW tardy \in BOOLEAN,
             CheckIn(d, s, tardy)
      PROVE  FollowUpsInd' /\ PriceAloneIsSilent
  BY <1>2, CheckInKeeps, AnnouncesOnlyInTransactions DEF CheckIn, slipVars
<1>3. ASSUME NEW d \in FollowDesks, NEW s \in MonthShifts, CheckOut(d, s) \/ ApproveLate(d, s)
      PROVE  FollowUpsInd' /\ PriceAloneIsSilent
  BY <1>3, CheckOutKeeps, ApproveLateKeeps, AnnouncesOnlyInTransactions
     DEF CheckOut, ApproveLate, slipVars
<1>4. ASSUME NEW d \in FollowDesks, NEW price \in FinePrices, SaveFineRule(d, price)
      PROVE  FollowUpsInd' /\ PriceAloneIsSilent
  BY <1>4, SaveFineRuleKeeps, AnnouncesOnlyInTransactions DEF SaveFineRule, slipVars
<1>5. ASSUME NEW d \in FollowDesks, NEW wage \in WageRates, SaveWageRates(d, wage)
      PROVE  FollowUpsInd' /\ PriceAloneIsSilent
  BY <1>5, SaveWageRatesKeeps, AnnouncesOnlyInTransactions DEF SaveWageRates, slipVars
<1>6. ASSUME NEW d \in FollowDesks, FollowDeskStep(d)
      PROVE  FollowUpsInd' /\ PriceAloneIsSilent
  <2>1. CASE PriceCheckout(d)
    BY <2>1, PriceCheckoutKeeps
  <2>2. CASE RecomputePayslip(d)
    BY <2>2, RecomputePayslipKeeps
  <2>3. CASE RecomputeFails(d)
    BY <2>3, RecomputeFailsKeeps
  <2>4. CASE RebuildPayroll(d)
    BY <2>4, RebuildPayrollKeeps
  <2>5. ASSUME NEW who \in Addressees, NotifyAdjustmentChanges(d, who)
        PROVE  FollowUpsInd' /\ PriceAloneIsSilent
    BY <2>5, NotifyKeeps
  <2>6. CASE RefreshEmployeeMonthlySummary(d)
    BY <2>6, RefreshKeeps
  <2>7. CASE WriteEmployeeMonthlySummary(d)
    BY <2>7, WriteSummaryKeeps
  <2>8. CASE ReadStoredShifts(d)
    BY <2>8, ReadStoredShiftsKeeps
  <2>9. CASE RepricingEnds(d)
    BY <2>9, RepricingEndsKeeps
  <2>10. CASE TaskBreaks(d)
    BY <2>10, TaskBreaksKeeps
  <2>11. ASSUME NEW s \in MonthShifts, RepriceStoredShiftEarnings(d, s)
         PROVE  FollowUpsInd' /\ PriceAloneIsSilent
    BY <2>11, RepriceKeeps
  <2>12. QED
    BY <1>6, <2>1, <2>2, <2>3, <2>4, <2>5, <2>6, <2>7, <2>8, <2>9, <2>10, <2>11
       DEF FollowDeskStep
<1>7. CASE UNCHANGED followVars
  <2>1. UNCHANGED <<work, lateShifts, finePrice, wageRate, shiftEarnings, payslipStatus, snapshot,
                    firstAmount, announced, silent, summary, followDesk, sentTo, lostFor,
                    disturbed>>
    BY <1>7 DEF followVars, factVars, slipVars, noticeVars
  <2>2. FollowUpsTypeOK'
    BY <2>1 DEF FollowUpsInd, FollowUpsTypeOK
  <2>3. NoticesAddUp' /\ EmptySnapshotIsFree'
    BY <2>1 DEF FollowUpsInd, NoticesAddUp, EmptySnapshotIsFree
  <2>4. NoticesInHand'
    BY <2>1 DEF FollowUpsInd, NoticesInHand
  <2>5. TasksRepair'
    BY <2>1 DEF FollowUpsInd, TasksRepair, TaskInOrder, Repairs, EarningsRightBut,
                SummaryRight, MonthFigures, Completed, Quiet
  <2>6. QED
    BY <2>1, <2>2, <2>3, <2>4, <2>5, AnnouncesOnlyInTransactions DEF FollowUpsInd
<1>8. QED
  BY <1>1, <1>2, <1>3, <1>4, <1>5, <1>6, <1>7 DEF FollowUpsNext

\* The invariant gives what is promised of quiet times.
LEMMA FollowUpsConsequences ==
  ASSUME FollowUpsInd PROVE AnnouncedWasHandled /\ FiguresSettle
<1>1. AnnouncedWasHandled
  <2>1. ASSUME NEW w \in Addressees, Quiet
        PROVE  sentTo[w] \cup lostFor[w] = 1..announced.count
    <3>1. \A d \in FollowDesks : followDesk[d].left = {}
      BY <2>1, IdleFollowTyped DEF Quiet
    <3>2. QED
      BY <3>1 DEF FollowUpsInd, NoticesInHand
  <2>2. QED
    BY <2>1 DEF AnnouncedWasHandled, FollowUpsInd, NoticesInHand
<1>2. FiguresSettle
  BY DEF FiguresSettle, FollowUpsInd, TasksRepair, EarningsRightBut, SummaryRight
<1>3. QED
  BY <1>1, <1>2

(* What follows a payslip: every change of a fine is announced once, each   *)
(* notice reaches each addressee or is lost, a change of price alone is     *)
(* silent, and tasks that did not overlap settle the figures - for every    *)
(* number of shifts, dates, tasks, prices, rates and attempts.              *)
THEOREM FollowUpsKept == FollowUpsSpec => FollowUpsPromise
<1>1. FollowUpsInit => FollowUpsInd
  BY FollowUpsStart
<1>2. FollowUpsInd /\ [FollowUpsNext]_followVars => FollowUpsInd' /\ PriceAloneIsSilent
  BY FollowUpsStep
<1>3. FollowUpsInd => AnnouncedWasHandled /\ FiguresSettle
  BY FollowUpsConsequences
<1>4. QED
  BY <1>1, <1>2, <1>3, PTL DEF FollowUpsSpec, FollowUpsPromise

-----------------------------------------------------------------------------
(* Payroll.                                                                *)

\* A row of quantity n is n pieces.
LEMMA PiecesOfOne ==
  ASSUME NEW x, NEW n \in Nat
  PROVE  IsFiniteSet({x} \X (1 .. n)) /\ Cardinality({x} \X (1 .. n)) = n
<1>1. IsFiniteSet(1 .. n) /\ Cardinality(1 .. n) = n
  BY FS_Interval
<1>2. IsFiniteSet({x}) /\ Cardinality({x}) = 1
  BY FS_Singleton
<1>3. IsFiniteSet({x} \X (1 .. n)) /\ Cardinality({x} \X (1 .. n)) = 1 * n
  BY <1>1, <1>2, FS_Product
<1>4. QED
  BY <1>3

\* Sets that do not meet count together.
LEMMA ApartTogether ==
  ASSUME NEW S, NEW T, IsFiniteSet(S), IsFiniteSet(T), S \cap T = {}
  PROVE  Cardinality(S \cup T) = Cardinality(S) + Cardinality(T)
<1>1. Cardinality(S \cup T) = Cardinality(S) + Cardinality(T) - Cardinality(S \cap T)
  BY FS_Union
<1>2. Cardinality(S \cap T) = 0
  BY FS_EmptySet
<1>3. Cardinality(S) \in Nat /\ Cardinality(T) \in Nat
  BY FS_CardinalityType
<1>4. QED
  BY <1>1, <1>2, <1>3

\* The units of finitely many amounts are finitely many.
LEMMA UnitsFinite ==
  ASSUME NEW amount, NEW rows, IsFiniteSet(rows), \A k \in rows : amount[k] \in Nat
  PROVE  IsFiniteSet(Units(amount, rows)) /\ Sum(amount, rows) \in Nat
<1> DEFINE Part(k) == {k} \X (1 .. amount[k])
<1> DEFINE Parts == {Part(k) : k \in rows}
<1> DEFINE f == [k \in rows |-> Part(k)]
<1>1. f \in Surjection(rows, Parts)
  BY DEF Surjection
<1>2. IsFiniteSet(Parts)
  BY <1>1, FS_Surjection
<1>3. ASSUME NEW k \in rows PROVE IsFiniteSet(Part(k))
  BY PiecesOfOne
<1>30. \A P \in Parts : IsFiniteSet(P)
  BY <1>3
<1>4. IsFiniteSet(UNION Parts)
  BY <1>2, <1>30, FS_UNION
<1>5. QED
  BY <1>4, FS_CardinalityType DEF Units, Sum

\* Fewer or smaller amounts come to no more.
LEMMA SumAtMost ==
  ASSUME NEW f, NEW g, NEW A, NEW B, IsFiniteSet(B), A \subseteq B,
         \A k \in A : f[k] \in Nat /\ f[k] <= g[k], \A k \in B : g[k] \in Nat
  PROVE  Sum(f, A) <= Sum(g, B)
<1>1. IsFiniteSet(Units(g, B))
  BY UnitsFinite
<1>2. Units(f, A) \subseteq Units(g, B)
  BY DEF Units
<1>3. QED
  BY <1>1, <1>2, FS_Subset DEF Sum

\* One more row adds its amount.
LEMMA SumOneMore ==
  ASSUME NEW f, NEW rows, IsFiniteSet(rows), NEW x, x \notin rows,
         \A k \in rows \cup {x} : f[k] \in Nat
  PROVE  Sum(f, rows \cup {x}) = Sum(f, rows) + f[x]
<1> DEFINE own == {x} \X (1 .. f[x])
<1>1. IsFiniteSet(own) /\ Cardinality(own) = f[x]
  BY PiecesOfOne
<1>2. IsFiniteSet(Units(f, rows))
  BY UnitsFinite
<1>3. Units(f, rows \cup {x}) = Units(f, rows) \cup own /\ Units(f, rows) \cap own = {}
  BY DEF Units
<1>4. QED
  BY <1>1, <1>2, <1>3, ApartTogether DEF Sum

\* The same amounts come to the same.
LEMMA SumSame ==
  ASSUME NEW f, NEW g, NEW rows, \A k \in rows : f[k] = g[k]
  PROVE  Sum(f, rows) = Sum(g, rows)
BY DEF Sum, Units

\* An advance that was not approved and is not now counts for nothing.
LEMMA ApprovedSame ==
  ASSUME NEW t, NEW u, NEW e,
         \A a \in Advances :
           (t[a].status = "APPROVED" /\ t[a].who = e)
             \/ (u[a].status = "APPROVED" /\ u[a].who = e) => u[a] = t[a]
  PROVE  SumApprovedAdvances(e, u) = SumApprovedAdvances(e, t)
<1> DEFINE K(v) == {a \in Advances : v[a].who = e /\ v[a].status = "APPROVED"}
<1> DEFINE f(v) == [a \in Advances |-> v[a].approved]
<1>1. K(u) = K(t)
  OBVIOUS
<1>2. \A a \in K(u) : f(u)[a] = f(t)[a]
  OBVIOUS
<1>3. Sum(f(u), K(u)) = Sum(f(t), K(u))
  BY <1>2, SumSame
<1>4. QED
  BY <1>1, <1>3 DEF SumApprovedAdvances

\* What is approved is a number.
LEMMA ApprovedCounted ==
  ASSUME NEW t \in [Advances -> SalaryAdvanceRequest], NEW e
  PROVE  SumApprovedAdvances(e, t) \in Nat
<1> DEFINE K == {a \in Advances : t[a].who = e /\ t[a].status = "APPROVED"}
<1> DEFINE f == [a \in Advances |-> t[a].approved]
<1>1. IsFiniteSet(K)
  BY PayrollAssumption, FS_Subset
<1>2. \A a \in K : f[a] \in Nat
  BY DEF SalaryAdvanceRequest
<1>3. Sum(f, K) \in Nat
  BY <1>1, <1>2, UnitsFinite
<1>4. QED
  BY <1>3 DEF SumApprovedAdvances

\* What is approved fits in what was claimed and the sum now approved.
LEMMA ApprovalFits ==
  ASSUME PayrollTypeOK, NEW a \in Advances, advance[a].status = "PENDING", NEW sum \in Nat,
         NEW u \in [Advances -> SalaryAdvanceRequest], NEW e, e = advance[a].who,
         u[a].who = e, u[a].status = "APPROVED", u[a].approved = sum,
         \A b \in Advances : b # a => u[b] = advance[b]
  PROVE  /\ SumApprovedAdvances(e, u) <= TotalAdvanced(e, {a}) + sum
         /\ SumApprovedAdvances(e, u) \in Nat /\ TotalAdvanced(e, {a}) \in Nat
<1> DEFINE K == {b \in Advances : u[b].who = e /\ u[b].status = "APPROVED"}
<1> DEFINE f == [b \in Advances |-> u[b].approved]
<1> DEFINE g == [b \in Advances |-> Claimed(b)]
<1> DEFINE rest == K \ {a}
<1> DEFINE B == OfSlip(e, {"PENDING", "APPROVED"}) \ {a}
<1>1. IsFiniteSet(rest) /\ IsFiniteSet(B) /\ a \in K /\ K = rest \cup {a}
  BY PayrollAssumption, FS_Subset DEF OfSlip
<1>20. \A b \in Advances : /\ u[b].approved \in Nat /\ advance[b].approved \in Nat
                            /\ advance[b].asked \in Nat
  BY DEF PayrollTypeOK, SalaryAdvanceRequest
<1>2. \A b \in Advances : f[b] \in Nat /\ g[b] \in Nat
  BY <1>20 DEF Claimed
<1>3. rest \subseteq B /\ \A b \in rest : f[b] <= g[b]
  <2>1. SUFFICES ASSUME NEW b \in rest PROVE b \in B /\ f[b] <= g[b]
    OBVIOUS
  <2>2. b \in Advances /\ b # a /\ u[b] = advance[b]
    OBVIOUS
  <2>3. b \in B
    BY <2>2 DEF OfSlip
  <2>4. f[b] = advance[b].approved /\ g[b] = Claimed(b) /\ advance[b].status = "APPROVED"
    BY <2>2
  <2>5. advance[b].approved <= Claimed(b)
    BY <1>20, <2>2, <2>4 DEF Claimed
  <2>6. QED
    BY <2>3, <2>4, <2>5
<1>4. f[a] = sum /\ rest \subseteq Advances /\ B \subseteq Advances /\ a \notin rest
  BY DEF OfSlip
<1>5. SumApprovedAdvances(e, u) = Sum(f, K) /\ TotalAdvanced(e, {a}) = Sum(g, B)
  BY DEF SumApprovedAdvances, TotalAdvanced
<1> HIDE DEF K, f, g, rest, B
<1>6. Sum(f, K) = Sum(f, rest) + sum
  <2>1. Sum(f, rest \cup {a}) = Sum(f, rest) + f[a]
    BY <1>1, <1>2, <1>4, SumOneMore
  <2>2. QED
    BY <1>1, <1>4, <2>1
<1>7. Sum(f, rest) <= Sum(g, B)
  BY <1>1, <1>2, <1>3, <1>4, SumAtMost
<1>8. Sum(f, rest) \in Nat /\ Sum(g, B) \in Nat
  BY <1>1, <1>2, <1>4, UnitsFinite
<1>9. QED
  BY <1>2, <1>5, <1>6, <1>7, <1>8

-----------------------------------------------------------------------------
\* A free cashier holds nothing.
LEMMA FreeCashierShape ==
  /\ FreeCashier \in CashierState /\ FreeCashier.pc = "free"
  /\ FreeCashier.who = NoOne /\ FreeCashier.row = NoOne
BY PayrollAssumption DEF FreeCashier, CashierState

\* A step of one cashier leaves the others where they are.
LEMMA CashierMoves ==
  ASSUME PayrollTypeOK, NEW w \in Cashiers, NEW o \in CashierState,
         cashier' = [cashier EXCEPT ![w] = o]
  PROVE  /\ cashier' \in [Cashiers -> CashierState] /\ cashier'[w] = o
         /\ \A v \in Cashiers : v # w => cashier'[v] = cashier[v]
BY DEF PayrollTypeOK

\* What a payslip comes to is a payslip.
LEMMA ComputedShape ==
  ASSUME PayrollTypeOK, NEW e \in Workers
  PROVE  LET p == ComputeEmployeePayslip(e) IN
         /\ p \in EmployeeSalary /\ p.status = "PENDING" /\ p.gen = payslip[e].gen
         /\ p.net <= p.income
         /\ p.income = rate[e] * worked[e] /\ p.penalty = Cardinality(LiveRecords(e))
         /\ p.adv = SumApprovedAdvances(e, advance)
         /\ p.net = ComputeNet(p.income, p.penalty, p.adv)
<1> DEFINE income == rate[e] * worked[e]
<1> DEFINE penalty == Cardinality(LiveRecords(e))
<1> DEFINE adv == SumApprovedAdvances(e, advance)
<1>1. income \in Nat
  <2>1. rate[e] \in Nat /\ worked[e] \in Nat
    BY PayrollAssumption DEF PayrollTypeOK
  <2>2. QED
    BY <2>1
<1>2. penalty \in Nat
  BY PayrollAssumption, FS_Subset, FS_CardinalityType DEF LiveRecords
<1>3. adv \in Nat
  BY ApprovedCounted DEF PayrollTypeOK
<1>4. payslip[e].gen \in 0 .. MaxDeletions
  BY DEF PayrollTypeOK, EmployeeSalary
<1>5. ComputeEmployeePayslip(e) =
        [status |-> "PENDING", gen |-> payslip[e].gen, income |-> income,
         penalty |-> penalty, adv |-> adv, net |-> ComputeNet(income, penalty, adv)]
  BY DEF ComputeEmployeePayslip
<1> HIDE DEF income, penalty, adv
<1>6. ComputeNet(income, penalty, adv) \in Nat /\ ComputeNet(income, penalty, adv) <= income
  BY <1>1, <1>2, <1>3 DEF ComputeNet
<1>7. QED
  BY <1>1, <1>2, <1>3, <1>4, <1>5, <1>6 DEF EmployeeSalary, income, penalty, adv

\* The rows in hand stay where nobody else writes them.
LEMMA HandsKept ==
  ASSUME RowsInHand, NEW w \in Cashiers, NEW o, cashier'[w] = o,
         \A v \in Cashiers : v # w => cashier'[v] = cashier[v],
         o.pc \notin {"free", "rebuild"} => o.who \in Workers,
         o.pc = "record" =>
           /\ o.row \in Records /\ record'[o.row] = NoRecord
           /\ \A v \in Cashiers \ {w} : cashier[v].pc = "record" => cashier[v].row # o.row,
         o.pc = "unrecord" => o.row \in Records /\ record'[o.row].who = o.who,
         o.pc = "advance" =>
           /\ o.row \in Advances /\ advance'[o.row] = NoAdvance
           /\ \A v \in Cashiers \ {w} : cashier[v].pc = "advance" => cashier[v].row # o.row,
         o.pc = "adjust" => o.sum \in 1 .. MaxRate,
         \A v \in Cashiers \ {w} :
           /\ cashier[v].pc = "record" => record'[cashier[v].row] = record[cashier[v].row]
           /\ cashier[v].pc = "unrecord" =>
                record'[cashier[v].row].who = record[cashier[v].row].who
           /\ cashier[v].pc = "advance" => advance'[cashier[v].row] = advance[cashier[v].row],
         \A r \in Records : record'[r].state = "LIVE" => record'[r].who \in Workers,
         \A a \in Advances : advance'[a].status = "PENDING" => advance'[a].who \in Workers
  PROVE  RowsInHand'
<1> SUFFICES ASSUME NEW v \in Cashiers PROVE
    LET p == cashier'[v] IN
    /\ p.pc \notin {"free", "rebuild"} => p.who \in Workers
    /\ p.pc = "record" =>
         /\ p.row \in Records /\ record'[p.row] = NoRecord
         /\ \A u \in Cashiers \ {v} : cashier'[u].pc = "record" => cashier'[u].row # p.row
    /\ p.pc = "unrecord" => p.row \in Records /\ record'[p.row].who = p.who
    /\ p.pc = "advance" =>
         /\ p.row \in Advances /\ advance'[p.row] = NoAdvance
         /\ \A u \in Cashiers \ {v} : cashier'[u].pc = "advance" => cashier'[u].row # p.row
    /\ p.pc = "adjust" => p.sum \in 1 .. MaxRate
  BY DEF RowsInHand
<1>1. CASE v = w
  BY <1>1
<1>2. CASE v # w
  <2>1. cashier'[v] = cashier[v]
    BY <1>2
  <2> DEFINE p == cashier[v]
  <2>2. p.pc = "record" =>
          /\ p.row \in Records /\ record'[p.row] = NoRecord
          /\ \A u \in Cashiers \ {v} : cashier'[u].pc = "record" => cashier'[u].row # p.row
    BY <1>2 DEF RowsInHand
  <2>3. p.pc = "unrecord" => p.row \in Records /\ record'[p.row].who = p.who
    BY <1>2 DEF RowsInHand
  <2>4. p.pc = "advance" =>
          /\ p.row \in Advances /\ advance'[p.row] = NoAdvance
          /\ \A u \in Cashiers \ {v} : cashier'[u].pc = "advance" => cashier'[u].row # p.row
    BY <1>2 DEF RowsInHand
  <2>5. QED
    BY <2>1, <2>2, <2>3, <2>4 DEF RowsInHand
<1>3. QED
  BY <1>1, <1>2

\* What a payslip comes to depends on these alone.
LEMMA ComputedSame ==
  ASSUME NEW e, rate'[e] = rate[e], worked'[e] = worked[e], LiveRecords(e)' = LiveRecords(e),
         SumApprovedAdvances(e, advance)' = SumApprovedAdvances(e, advance),
         payslip'[e].gen = payslip[e].gen
  PROVE  ComputeEmployeePayslip(e)' = ComputeEmployeePayslip(e)
BY DEF ComputeEmployeePayslip

\* A recomputation under way stays under way until its cashier ends it.
LEMMA DueKept ==
  ASSUME NEW w \in Cashiers, NEW e, RecomputeDue(e),
         \A v \in Cashiers : v # w => cashier'[v] = cashier[v],
         \/ cashier'[w] = cashier[w]
         \/ cashier[w].pc # "rebuild"
            /\ (cashier[w].pc \in {"price", "recompute"} => cashier[w].who # e)
  PROVE  RecomputeDue(e)'
BY DEF RecomputeDue

\* A payslip nobody touched stays as current as it was.
LEMMA CurrentKept ==
  ASSUME NEW e, SlipIsCurrent(e), payslip'[e] = payslip[e], onStaff'[e] => onStaff[e],
         RecomputeDue(e) => RecomputeDue(e)',
         ComputeEmployeePayslip(e)' = ComputeEmployeePayslip(e) \/ RecomputeDue(e)'
  PROVE  SlipIsCurrent(e)'
BY DEF SlipIsCurrent

\* A request that only reads, whatever it holds from now on.
LEMMA BeginKeeps ==
  ASSUME PayrollInd, NEW w \in Cashiers, NEW o \in CashierState, Begin(w, o),
         o.pc \notin {"free", "rebuild"} => o.who \in Workers,
         o.pc = "record" =>
           /\ o.row \in Records /\ record[o.row] = NoRecord
           /\ \A v \in Cashiers \ {w} : cashier[v].pc = "record" => cashier[v].row # o.row,
         o.pc = "unrecord" => o.row \in Records /\ record[o.row].who = o.who,
         o.pc = "advance" =>
           /\ o.row \in Advances /\ advance[o.row] = NoAdvance
           /\ \A v \in Cashiers \ {w} : cashier[v].pc = "advance" => cashier[v].row # o.row,
         o.pc = "adjust" => o.sum \in 1 .. MaxRate,
         worked' \in [Workers -> 0 .. MaxWorked],
         \A e \in Workers : worked'[e] = worked[e] \/ (o.pc = "price" /\ o.who = e),
         UNCHANGED <<onStaff, rate, book, payslip, advance, record, payments, stale, wiped>>
  PROVE  PayrollInd'
<1>1. /\ PayrollTypeOK /\ RowsInHand /\ cashier[w] = FreeCashier
      /\ cashier' = [cashier EXCEPT ![w] = o] /\ writes < MaxWrites /\ writes' = writes + 1
  BY DEF PayrollInd, Begin
<1>2. /\ cashier' \in [Cashiers -> CashierState] /\ cashier'[w] = o
      /\ \A v \in Cashiers : v # w => cashier'[v] = cashier[v]
  BY <1>1, CashierMoves
<1>3. /\ onStaff' = onStaff /\ rate' = rate /\ book' = book /\ payslip' = payslip
      /\ advance' = advance /\ record' = record /\ payments' = payments /\ stale' = stale
      /\ wiped' = wiped
  OBVIOUS
<1>4. PayrollTypeOK'
  <2>1. writes' \in 0 .. MaxWrites
    BY <1>1, PayrollAssumption DEF PayrollTypeOK
  <2>2. QED
    BY <1>1, <1>2, <1>3, <2>1 DEF PayrollTypeOK
<1>5. RowsInHand'
  <2>1. /\ \A r \in Records : record'[r].state = "LIVE" => record'[r].who \in Workers
        /\ \A a \in Advances : advance'[a].status = "PENDING" => advance'[a].who \in Workers
    BY <1>1, <1>3 DEF RowsInHand
  <2>2. QED
    BY <1>1, <1>2, <1>3, <2>1, HandsKept
<1>6. PaidAsRecorded'
  BY <1>3 DEF PayrollInd, PaidAsRecorded
<1>7. SlipsAreCurrent'
  <2> SUFFICES ASSUME NEW e \in Workers \ stale PROVE SlipIsCurrent(e)'
    BY <1>3 DEF SlipsAreCurrent
  <2>1. SlipIsCurrent(e)
    BY DEF PayrollInd, SlipsAreCurrent
  <2>2. RecomputeDue(e) => RecomputeDue(e)'
    BY <1>1, <1>2, FreeCashierShape, DueKept
  <2>3. CASE worked'[e] = worked[e]
    <3>1. ComputeEmployeePayslip(e)' = ComputeEmployeePayslip(e)
      BY <1>3, <2>3, ComputedSame DEF LiveRecords
    <3>2. QED
      BY <1>3, <2>1, <2>2, <3>1, CurrentKept
  <2>4. CASE o.pc = "price" /\ o.who = e
    <3>1. RecomputeDue(e)'
      BY <1>2, <2>4 DEF RecomputeDue
    <3>2. QED
      BY <1>3, <2>1, <3>1, CurrentKept
  <2>5. QED
    BY <2>3, <2>4
<1>8. QED
  BY <1>4, <1>5, <1>6, <1>7 DEF PayrollInd

\* The desk of a request about one employee.
LEMMA ForShape ==
  ASSUME PayrollTypeOK, NEW pc \in {"price", "recompute", "record", "unrecord", "advance", "pay",
                                    "adjust"},
         NEW e \in Workers, NEW k \in Advances \cup Records \cup {NoOne}, NEW sum \in Nat,
         NEW o, o = [pc |-> pc, who |-> e, row |-> k, sum |-> sum, gen |-> payslip[e].gen]
  PROVE  /\ o \in CashierState /\ o.pc = pc /\ o.who = e /\ o.row = k /\ o.sum = sum
         /\ o.gen = payslip[e].gen
<1>1. payslip[e].gen \in 0 .. MaxDeletions
  BY DEF PayrollTypeOK, EmployeeSalary
<1>2. QED
  BY <1>1 DEF CashierState

\* A check-out leaves the payslip to the price of the shift ...
LEMMA CheckOutShiftKeeps ==
  ASSUME PayrollInd, NEW w \in Cashiers, NEW e \in Workers, CheckOutShift(w, e)
  PROVE  PayrollInd'
<1>1. /\ worked[e] < MaxWorked /\ worked' = [worked EXCEPT ![e] = @ + 1]
      /\ Begin(w, For("price", e)) /\ PayrollTypeOK
      /\ UNCHANGED <<onStaff, rate, book, payslip, advance, record, payments, stale, wiped>>
  BY DEF CheckOutShift, PayrollInd
<1>2. PICK o : o = For("price", e)
  OBVIOUS
<1>3. o = [pc |-> "price", who |-> e, row |-> NoOne, sum |-> 0, gen |-> payslip[e].gen]
  BY <1>2 DEF For, FreeCashier
<1>4. o \in CashierState /\ o.pc = "price" /\ o.who = e
  BY <1>1, <1>3, ForShape
<1>5. /\ worked' \in [Workers -> 0 .. MaxWorked]
      /\ \A f \in Workers : worked'[f] = worked[f] \/ f = e
  BY <1>1, PayrollAssumption DEF PayrollTypeOK
<1>6. Begin(w, o)
  BY <1>1, <1>2
<1>7. QED
  BY <1>1, <1>4, <1>5, <1>6, BeginKeeps

\* ... a record is of one whose payslip was open, and in one hand ...
LEMMA CreatePayrollRecordKeeps ==
  ASSUME PayrollInd, NEW w \in Cashiers, NEW e \in Workers, NEW r \in Records,
         CreatePayrollRecord(w, e, r)
  PROVE  PayrollInd'
<1>1. /\ record[r] = NoRecord /\ \A v \in Cashiers : cashier[v].row # r
      /\ Begin(w, [For("record", e) EXCEPT !.row = r]) /\ PayrollTypeOK
      /\ UNCHANGED <<onStaff, worked, rate, book, payslip, advance, record, payments,
                     stale, wiped>>
  BY DEF CreatePayrollRecord, PayrollInd
<1>2. PICK o : o = [For("record", e) EXCEPT !.row = r]
  OBVIOUS
<1>3. o = [pc |-> "record", who |-> e, row |-> r, sum |-> 0, gen |-> payslip[e].gen]
  BY <1>2 DEF For, FreeCashier
<1>4. o \in CashierState /\ o.pc = "record" /\ o.who = e /\ o.row = r
  BY <1>1, <1>3, ForShape
<1>5. Begin(w, o) /\ worked' \in [Workers -> 0 .. MaxWorked] /\ worked' = worked
  BY <1>1, <1>2 DEF PayrollTypeOK
<1>6. QED
  BY <1>1, <1>4, <1>5, BeginKeeps

\* ... its removal names the one it was of ...
LEMMA DeletePayrollRecordKeeps ==
  ASSUME PayrollInd, NEW w \in Cashiers, NEW r \in Records, DeletePayrollRecord(w, r)
  PROVE  PayrollInd'
<1> DEFINE e == record[r].who
<1>1. /\ record[r].state = "LIVE" /\ PayrollTypeOK /\ RowsInHand
      /\ Begin(w, [For("unrecord", e) EXCEPT !.row = r])
      /\ UNCHANGED <<onStaff, worked, rate, book, payslip, advance, record, payments,
                     stale, wiped>>
  BY DEF DeletePayrollRecord, PayrollInd
<1>2. e \in Workers
  BY <1>1 DEF RowsInHand
<1> HIDE DEF e
<1>3. PICK o : o = [For("unrecord", e) EXCEPT !.row = r]
  OBVIOUS
<1>4. o = [pc |-> "unrecord", who |-> e, row |-> r, sum |-> 0, gen |-> payslip[e].gen]
  BY <1>3 DEF For, FreeCashier
<1>5. o \in CashierState /\ o.pc = "unrecord" /\ o.who = e /\ o.row = r
  BY <1>1, <1>2, <1>4, ForShape
<1>6. Begin(w, o) /\ worked' \in [Workers -> 0 .. MaxWorked] /\ worked' = worked
  BY <1>1, <1>3 DEF PayrollTypeOK
<1>7. record[r].who = e
  BY DEF e
<1>8. QED
  BY <1>1, <1>2, <1>5, <1>6, <1>7, BeginKeeps

\* ... an advance asked is in one hand ...
LEMMA CreateSalaryAdvanceRequestKeeps ==
  ASSUME PayrollInd, NEW w \in Cashiers, NEW e \in Workers, NEW a \in Advances, NEW sum \in Sums,
         CreateSalaryAdvanceRequest(w, e, a, sum)
  PROVE  PayrollInd'
<1>1. /\ advance[a] = NoAdvance /\ \A v \in Cashiers : cashier[v].row # a
      /\ Begin(w, [For("advance", e) EXCEPT !.row = a, !.sum = sum]) /\ PayrollTypeOK
      /\ UNCHANGED <<onStaff, worked, rate, book, payslip, advance, record, payments,
                     stale, wiped>>
  BY DEF CreateSalaryAdvanceRequest, PayrollInd
<1>2. PICK o : o = [For("advance", e) EXCEPT !.row = a, !.sum = sum]
  OBVIOUS
<1>3. o = [pc |-> "advance", who |-> e, row |-> a, sum |-> sum, gen |-> payslip[e].gen]
  BY <1>2 DEF For, FreeCashier
<1>4. sum \in Nat
  BY PayrollAssumption
<1>5. o \in CashierState /\ o.pc = "advance" /\ o.who = e /\ o.row = a
  BY <1>1, <1>3, <1>4, ForShape
<1>6. Begin(w, o) /\ worked' \in [Workers -> 0 .. MaxWorked] /\ worked' = worked
  BY <1>1, <1>2 DEF PayrollTypeOK
<1>7. QED
  BY <1>1, <1>5, <1>6, BeginKeeps

\* ... a payment reads the payslip ...
LEMMA PayEmployeeSalaryKeeps ==
  ASSUME PayrollInd, NEW w \in Cashiers, NEW e \in Workers, PayEmployeeSalary(w, e)
  PROVE  PayrollInd'
<1>1. /\ Begin(w, [For("pay", e) EXCEPT !.sum = payslip[e].net]) /\ PayrollTypeOK
      /\ UNCHANGED <<onStaff, worked, rate, book, payslip, advance, record, payments,
                     stale, wiped>>
  BY DEF PayEmployeeSalary, PayrollInd
<1>2. PICK o : o = [For("pay", e) EXCEPT !.sum = payslip[e].net]
  OBVIOUS
<1>3. o = [pc |-> "pay", who |-> e, row |-> NoOne, sum |-> payslip[e].net, gen |-> payslip[e].gen]
  BY <1>2 DEF For, FreeCashier
<1>4. payslip[e].net \in Nat
  BY <1>1 DEF PayrollTypeOK, EmployeeSalary
<1>5. o \in CashierState /\ o.pc = "pay" /\ o.who = e
  BY <1>1, <1>3, <1>4, ForShape
<1>6. Begin(w, o) /\ worked' \in [Workers -> 0 .. MaxWorked] /\ worked' = worked
  BY <1>1, <1>2 DEF PayrollTypeOK
<1>7. QED
  BY <1>1, <1>5, <1>6, BeginKeeps

\* ... and a new rate stays within the bound.
LEMMA CreateSalaryAdjustmentKeeps ==
  ASSUME PayrollInd, NEW w \in Cashiers, NEW e \in Workers, CreateSalaryAdjustment(w, e)
  PROVE  PayrollInd'
<1>1. /\ rate[e] < MaxRate /\ PayrollTypeOK
      /\ Begin(w, [For("adjust", e) EXCEPT !.sum = rate[e] + 1])
      /\ UNCHANGED <<onStaff, worked, rate, book, payslip, advance, record, payments,
                     stale, wiped>>
  BY DEF CreateSalaryAdjustment, PayrollInd
<1>2. PICK o : o = [For("adjust", e) EXCEPT !.sum = rate[e] + 1]
  OBVIOUS
<1>3. o = [pc |-> "adjust", who |-> e, row |-> NoOne, sum |-> rate[e] + 1, gen |-> payslip[e].gen]
  BY <1>2 DEF For, FreeCashier
<1>4. rate[e] + 1 \in 1 .. MaxRate /\ rate[e] + 1 \in Nat
  BY <1>1, PayrollAssumption DEF PayrollTypeOK
<1>5. o \in CashierState /\ o.pc = "adjust" /\ o.who = e /\ o.sum = rate[e] + 1
  BY <1>1, <1>3, <1>4, ForShape
<1>6. Begin(w, o) /\ worked' \in [Workers -> 0 .. MaxWorked] /\ worked' = worked
  BY <1>1, <1>2 DEF PayrollTypeOK
<1>7. QED
  BY <1>1, <1>4, <1>5, <1>6, BeginKeeps

-----------------------------------------------------------------------------
\* A cashier who has written is free, or starts nothing that holds a row.
LEMMA CashierDone ==
  ASSUME PayrollTypeOK, RowsInHand, NEW w \in Cashiers,
         Free(w) \/ Now(w), UNCHANGED <<record, advance>>,
         writes' \in 0 .. MaxWrites
  PROVE  /\ cashier' \in [Cashiers -> CashierState] /\ cashier'[w] = FreeCashier
         /\ \A v \in Cashiers : v # w => cashier'[v] = cashier[v]
         /\ RowsInHand'
<1>1. cashier' = [cashier EXCEPT ![w] = FreeCashier]
  BY DEF Free, Now, Begin
<1>2. /\ cashier' \in [Cashiers -> CashierState] /\ cashier'[w] = FreeCashier
      /\ \A v \in Cashiers : v # w => cashier'[v] = cashier[v]
  BY <1>1, FreeCashierShape, CashierMoves
<1>3. /\ \A r \in Records : record'[r].state = "LIVE" => record'[r].who \in Workers
      /\ \A a \in Advances : advance'[a].status = "PENDING" => advance'[a].who \in Workers
  BY DEF RowsInHand
<1>4. RowsInHand'
  BY <1>2, <1>3, FreeCashierShape, HandsKept
<1>5. QED
  BY <1>2, <1>4

\* A request of one step is counted and leaves its cashier free.
LEMMA NowCounts ==
  ASSUME PayrollTypeOK, NEW w \in Cashiers, Now(w)
  PROVE  writes' \in 0 .. MaxWrites /\ cashier[w] = FreeCashier
BY PayrollAssumption DEF PayrollTypeOK, Now, Begin

\* A payslip nobody touched, beside a cashier who worked on another.
LEMMA BesideKept ==
  ASSUME PayrollInd, NEW e \in Workers \ stale, NEW w \in Cashiers,
         \A v \in Cashiers : v # w => cashier'[v] = cashier[v],
         \/ cashier'[w] = cashier[w]
         \/ cashier[w].pc # "rebuild"
            /\ (cashier[w].pc \in {"price", "recompute"} => cashier[w].who # e),
         payslip'[e] = payslip[e], onStaff'[e] => onStaff[e], rate'[e] = rate[e],
         worked'[e] = worked[e], LiveRecords(e)' = LiveRecords(e),
         SumApprovedAdvances(e, advance)' = SumApprovedAdvances(e, advance)
  PROVE  SlipIsCurrent(e)'
<1>1. SlipIsCurrent(e)
  BY DEF PayrollInd, SlipsAreCurrent
<1>2. RecomputeDue(e) => RecomputeDue(e)'
  BY DueKept
<1>3. ComputeEmployeePayslip(e)' = ComputeEmployeePayslip(e)
  BY ComputedSame
<1>4. QED
  BY <1>1, <1>2, <1>3, CurrentKept

\* A payslip computed again is what it comes to.
LEMMA JustComputed ==
  ASSUME PayrollTypeOK, NEW e \in Workers, payslip'[e] = ComputeEmployeePayslip(e),
         UNCHANGED <<rate, worked, record, advance>>
  PROVE  SlipIsCurrent(e)'
<1>1. payslip'[e].gen = payslip[e].gen /\ payslip'[e].net <= payslip'[e].income
  BY ComputedShape
<1>2. LiveRecords(e)' = LiveRecords(e)
      /\ SumApprovedAdvances(e, advance)' = SumApprovedAdvances(e, advance)
  BY DEF LiveRecords, SumApprovedAdvances
<1>3. ComputeEmployeePayslip(e)' = ComputeEmployeePayslip(e)
  BY <1>1, <1>2, ComputedSame
<1>4. QED
  BY <1>1, <1>3 DEF SlipIsCurrent

\* Nothing the payslips are computed from changes.
LEMMA BooksRest ==
  ASSUME UNCHANGED <<record, advance>>, NEW e
  PROVE  /\ LiveRecords(e)' = LiveRecords(e)
         /\ SumApprovedAdvances(e, advance)' = SumApprovedAdvances(e, advance)
BY DEF LiveRecords, SumApprovedAdvances

\* What upsertEmployeePayslip writes.
LEMMA UpsertShape ==
  ASSUME PayrollTypeOK, NEW e \in Workers
  PROVE  /\ UpsertEmployeePayslip(e) \in EmployeeSalary
         /\ payslip[e].status = "PAID" => UpsertEmployeePayslip(e) = payslip[e]
         /\ payslip[e].status # "PAID" =>
              /\ UpsertEmployeePayslip(e) = ComputeEmployeePayslip(e)
              /\ UpsertEmployeePayslip(e).status # "PAID"
BY ComputedShape DEF UpsertEmployeePayslip, IsProtectedPayslip, PayrollTypeOK

\* A recomputation skips the employee, or is still under way.
LEMMA ReadEmployeeKeeps ==
  ASSUME PayrollInd, NEW w \in Cashiers, ReadEmployee(w)
  PROVE  PayrollInd'
<1> DEFINE e == cashier[w].who
<1> DEFINE on == [cashier[w] EXCEPT !.pc = "price"]
<1>1. /\ cashier[w].pc = "recompute"
      /\ \/ cashier' = [cashier EXCEPT ![w] = on] /\ stale' = stale
         \/ Free(w) /\ stale' = stale \cup {e}
      /\ UNCHANGED <<onStaff, worked, rate, book, payslip, advance, record, payments,
                     writes, wiped>>
      /\ PayrollTypeOK /\ RowsInHand
  BY DEF ReadEmployee, PayrollInd
<1>2. e \in Workers
  BY <1>1 DEF RowsInHand
<1>3. on \in CashierState /\ on.pc = "price" /\ on.who = e
  BY <1>1 DEF PayrollTypeOK, CashierState
<1> HIDE DEF e, on
<1>4. PICK o \in CashierState :
        /\ cashier' = [cashier EXCEPT ![w] = o]
        /\ \/ o.pc = "price" /\ o.who = e /\ stale' = stale
           \/ o = FreeCashier /\ stale' = stale \cup {e}
  BY <1>1, <1>3, FreeCashierShape DEF Free
<1>5. /\ cashier' \in [Cashiers -> CashierState] /\ cashier'[w] = o
      /\ \A v \in Cashiers : v # w => cashier'[v] = cashier[v]
  BY <1>1, <1>4, CashierMoves
<1>6. /\ \A r \in Records : record'[r].state = "LIVE" => record'[r].who \in Workers
      /\ \A a \in Advances : advance'[a].status = "PENDING" => advance'[a].who \in Workers
  BY <1>1 DEF RowsInHand
<1>7. o.pc \in {"free", "price"}
  BY <1>4, FreeCashierShape
<1>8. RowsInHand'
  BY <1>1, <1>2, <1>4, <1>5, <1>6, <1>7, FreeCashierShape, HandsKept
<1>9. PayrollTypeOK'
  BY <1>1, <1>2, <1>4, <1>5 DEF PayrollTypeOK
<1>10. PaidAsRecorded'
  BY <1>1 DEF PayrollInd, PaidAsRecorded
<1>11. SlipsAreCurrent'
  <2> SUFFICES ASSUME NEW f \in Workers \ stale' PROVE SlipIsCurrent(f)'
    BY DEF SlipsAreCurrent
  <2>1. f \in Workers \ stale /\ payslip'[f] = payslip[f] /\ onStaff' = onStaff
    BY <1>1, <1>4
  <2>2. CASE f # e
    <3>1. cashier[w].who # f /\ cashier[w].pc # "rebuild"
      BY <1>1, <2>2 DEF e
    <3>2. QED
      BY <1>1, <1>5, <2>1, <3>1, BooksRest, BesideKept
  <2>3. CASE f = e
    <3>1. o.pc = "price" /\ o.who = f
      BY <1>4, <2>3
    <3>2. RecomputeDue(f)'
      BY <1>5, <3>1 DEF RecomputeDue
    <3>3. SlipIsCurrent(f)
      BY <2>1 DEF PayrollInd, SlipsAreCurrent
    <3>4. QED
      BY <2>1, <3>2, <3>3, CurrentKept
  <2>4. QED
    BY <2>2, <2>3
<1>12. QED
  BY <1>8, <1>9, <1>10, <1>11 DEF PayrollInd

\* A recomputation under the lock leaves the payslip current or paid.
LEMMA RecomputeKeeps ==
  ASSUME PayrollInd, NEW w \in Cashiers, Recompute(w)
  PROVE  PayrollInd'
<1> DEFINE e == cashier[w].who
<1>1. /\ cashier[w].pc = "price" /\ Free(w)
      /\ UNCHANGED <<onStaff, worked, rate, advance, record, payments, writes, wiped>>
      /\ PayrollTypeOK /\ RowsInHand
  BY DEF Recompute, PayrollInd
<1>2. e \in Workers
  BY <1>1 DEF RowsInHand
<1>3. /\ payslip' = [payslip EXCEPT ![e] = UpsertEmployeePayslip(e)] /\ book' = TRUE
      /\ stale' = IF IsProtectedPayslip(payslip[e]) THEN stale ELSE stale \ {e}
  BY DEF Recompute
<1> HIDE DEF e
<1>4. /\ cashier' \in [Cashiers -> CashierState] /\ cashier'[w] = FreeCashier
      /\ \A v \in Cashiers : v # w => cashier'[v] = cashier[v]
      /\ RowsInHand'
  BY <1>1, CashierDone DEF PayrollTypeOK
<1>5. \A f \in Workers : f # e => payslip'[f] = payslip[f] /\ (f \in stale => f \in stale')
  BY <1>1, <1>2, <1>3 DEF PayrollTypeOK
<1>6. /\ payslip' \in [Workers -> EmployeeSalary] /\ stale' \subseteq Workers /\ book' \in BOOLEAN
      /\ payslip'[e].status = "PAID" <=> payslip[e].status = "PAID"
  BY <1>1, <1>2, <1>3, UpsertShape DEF PayrollTypeOK
<1>7. PayrollTypeOK'
  BY <1>1, <1>4, <1>6 DEF PayrollTypeOK
<1>8. PaidAsRecorded'
  BY <1>1, <1>5, <1>6 DEF PayrollInd, PaidAsRecorded
<1>9. SlipsAreCurrent'
  <2> SUFFICES ASSUME NEW f \in Workers \ stale' PROVE SlipIsCurrent(f)'
    BY DEF SlipsAreCurrent
  <2>1. CASE f # e
    <3>1. /\ payslip'[f] = payslip[f] /\ f \in Workers \ stale /\ cashier[w].who # f
          /\ cashier[w].pc # "rebuild"
      BY <1>1, <1>5, <2>1 DEF e
    <3>2. QED
      BY <1>1, <1>4, <3>1, BooksRest, BesideKept
  <2>2. CASE f = e
    <3>1. payslip' = [payslip EXCEPT ![e] = UpsertEmployeePayslip(e)]
          /\ stale' = IF IsProtectedPayslip(payslip[e]) THEN stale ELSE stale \ {e}
      BY <1>3, <2>2
    <3>2. payslip'[e] = UpsertEmployeePayslip(e)
      BY <1>1, <1>2, <3>1 DEF PayrollTypeOK
    <3>3. CASE payslip[e].status = "PAID"
      <4>1. payslip'[e] = payslip[e] /\ e \notin stale
        BY <1>1, <1>2, <2>2, <3>1, <3>2, <3>3, UpsertShape DEF IsProtectedPayslip
      <4>2. QED
        BY <1>2, <2>2, <3>3, <4>1 DEF PayrollInd, SlipsAreCurrent, SlipIsCurrent
    <3>4. CASE payslip[e].status # "PAID"
      <4>1. payslip'[e] = ComputeEmployeePayslip(e)
        BY <1>1, <1>2, <3>2, <3>4, UpsertShape
      <4>2. QED
        BY <1>1, <1>2, <2>2, <4>1, JustComputed
    <3>5. QED
      BY <3>3, <3>4
  <2>3. QED
    BY <2>1, <2>2
<1>10. QED
  BY <1>4, <1>7, <1>8, <1>9 DEF PayrollInd

\* So does the rebuild of the month, for everyone on the staff.
LEMMA RebuildKeeps ==
  ASSUME PayrollInd, NEW w \in Cashiers, RebuildStorePayrollForMonth(w)
  PROVE  PayrollInd'
<1>1. /\ (cashier[w].pc = "rebuild" /\ Free(w) /\ UNCHANGED writes) \/ Now(w)
      /\ payslip' = [e \in Workers |-> IF onStaff[e] THEN UpsertEmployeePayslip(e)
                                       ELSE payslip[e]]
      /\ book' = TRUE
      /\ stale' = {e \in stale : ~onStaff[e] \/ IsProtectedPayslip(payslip[e])}
      /\ UNCHANGED <<onStaff, worked, rate, advance, record, payments, wiped>>
      /\ PayrollTypeOK /\ RowsInHand
  BY DEF RebuildStorePayrollForMonth, PayrollInd
<1>2. writes' \in 0 .. MaxWrites
  BY <1>1, NowCounts DEF PayrollTypeOK
<1>3. /\ cashier' \in [Cashiers -> CashierState] /\ RowsInHand'
  BY <1>1, <1>2, CashierDone
<1>4. \A e \in Workers : /\ payslip'[e] \in EmployeeSalary
                         /\ payslip'[e].status = "PAID" <=> payslip[e].status = "PAID"
  BY <1>1, UpsertShape DEF PayrollTypeOK
<1>5. PayrollTypeOK'
  <2>1. payslip' \in [Workers -> EmployeeSalary]
    BY <1>1, <1>4
  <2>2. QED
    BY <1>1, <1>2, <1>3, <2>1 DEF PayrollTypeOK
<1>6. PaidAsRecorded'
  BY <1>1, <1>4 DEF PayrollInd, PaidAsRecorded
<1>7. SlipsAreCurrent'
  <2> SUFFICES ASSUME NEW e \in Workers \ stale' PROVE SlipIsCurrent(e)'
    BY DEF SlipsAreCurrent
  <2>1. CASE ~onStaff[e]
    <3>1. payslip'[e] = payslip[e] /\ e \notin stale /\ onStaff'[e] = onStaff[e]
      BY <1>1, <2>1
    <3>2. QED
      BY <2>1, <3>1 DEF PayrollInd, SlipsAreCurrent, SlipIsCurrent
  <2>2. CASE onStaff[e] /\ payslip[e].status = "PAID"
    <3>1. payslip'[e] = payslip[e] /\ e \notin stale
      BY <1>1, <2>2, UpsertShape DEF IsProtectedPayslip
    <3>2. QED
      BY <2>2, <3>1 DEF PayrollInd, SlipsAreCurrent, SlipIsCurrent
  <2>3. CASE onStaff[e] /\ payslip[e].status # "PAID"
    <3>1. payslip'[e] = ComputeEmployeePayslip(e)
      BY <1>1, <2>3, UpsertShape
    <3>2. QED
      BY <1>1, <3>1, JustComputed
  <2>4. QED
    BY <2>1, <2>2, <2>3
<1>8. QED
  BY <1>3, <1>5, <1>6, <1>7 DEF PayrollInd

\* Saved rates have a rebuild behind them where a payroll exists.
LEMMA SaveRatesKeeps ==
  ASSUME PayrollInd, NEW w \in Cashiers, NEW e \in Workers, SaveRates(w, e)
  PROVE  PayrollInd'
<1> DEFINE o == IF book THEN [FreeCashier EXCEPT !.pc = "rebuild"] ELSE FreeCashier
<1>1. /\ rate[e] < MaxRate /\ rate' = [rate EXCEPT ![e] = @ + 1]
      /\ Begin(w, o) /\ stale' = IF book THEN stale ELSE stale \cup {e}
      /\ UNCHANGED <<onStaff, worked, book, payslip, advance, record, payments, wiped>>
      /\ PayrollTypeOK /\ RowsInHand
  BY DEF SaveRates, Now, PayrollInd
<1>2. /\ o \in CashierState /\ o.pc \in {"free", "rebuild"} /\ (book => o.pc = "rebuild")
      /\ (~book => o = FreeCashier)
  BY FreeCashierShape DEF FreeCashier, CashierState
<1> HIDE DEF o
<1>3. /\ cashier[w] = FreeCashier /\ cashier' = [cashier EXCEPT ![w] = o]
      /\ writes' \in 0 .. MaxWrites
  BY <1>1, PayrollAssumption DEF Begin, PayrollTypeOK
<1>4. /\ cashier' \in [Cashiers -> CashierState] /\ cashier'[w] = o
      /\ \A v \in Cashiers : v # w => cashier'[v] = cashier[v]
  BY <1>1, <1>2, <1>3, CashierMoves
<1>5. RowsInHand'
  <2>1. /\ \A r \in Records : record'[r].state = "LIVE" => record'[r].who \in Workers
        /\ \A a \in Advances : advance'[a].status = "PENDING" => advance'[a].who \in Workers
    BY <1>1 DEF RowsInHand
  <2>2. QED
    BY <1>1, <1>2, <1>4, <2>1, HandsKept
<1>6. rate' \in [Workers -> 1 .. MaxRate] /\ \A f \in Workers : f # e => rate'[f] = rate[f]
  BY <1>1, PayrollAssumption DEF PayrollTypeOK
<1>7. PayrollTypeOK'
  BY <1>1, <1>3, <1>4, <1>6 DEF PayrollTypeOK
<1>8. PaidAsRecorded'
  BY <1>1 DEF PayrollInd, PaidAsRecorded
<1>9. SlipsAreCurrent'
  <2> SUFFICES ASSUME NEW f \in Workers \ stale' PROVE SlipIsCurrent(f)'
    BY DEF SlipsAreCurrent
  <2>1. SlipIsCurrent(f) /\ f \notin stale /\ payslip'[f] = payslip[f]
    BY <1>1 DEF PayrollInd, SlipsAreCurrent
  <2>2. CASE book
    <3>1. RecomputeDue(f)'
      BY <1>2, <1>4, <2>2 DEF RecomputeDue
    <3>2. QED
      BY <1>1, <2>1, <3>1, CurrentKept
  <2>3. CASE ~book
    <3>1. f # e /\ cashier'[w] = cashier[w] /\ rate'[f] = rate[f]
      BY <1>1, <1>2, <1>3, <1>4, <1>6, <2>3
    <3>2. QED
      BY <1>1, <1>4, <2>1, <3>1, BooksRest, BesideKept
  <2>4. QED
    BY <2>2, <2>3
<1>10. QED
  BY <1>5, <1>7, <1>8, <1>9 DEF PayrollInd

\* A rebuild that failed leaves every payslip to the next one.
LEMMA RecalculationFailsKeeps ==
  ASSUME PayrollInd, NEW w \in Cashiers, RecalculationFails(w)
  PROVE  PayrollInd'
<1>1. /\ stale' = Workers /\ Free(w) /\ PayrollTypeOK /\ RowsInHand
      /\ UNCHANGED <<onStaff, worked, rate, book, payslip, advance, record, payments,
                     writes, wiped>>
  BY DEF RecalculationFails, PayrollInd
<1>2. cashier' \in [Cashiers -> CashierState] /\ RowsInHand'
  BY <1>1, CashierDone DEF PayrollTypeOK
<1>3. PayrollTypeOK'
  BY <1>1, <1>2 DEF PayrollTypeOK
<1>4. PaidAsRecorded' /\ SlipsAreCurrent'
  BY <1>1 DEF PayrollInd, PaidAsRecorded, SlipsAreCurrent
<1>5. QED
  BY <1>2, <1>3, <1>4 DEF PayrollInd

-----------------------------------------------------------------------------
\* A record saved has its recomputation behind it ...
LEMMA SaveRecordKeeps ==
  ASSUME PayrollInd, NEW w \in Cashiers, SaveRecord(w)
  PROVE  PayrollInd'
<1> DEFINE r == cashier[w].row
<1> DEFINE e == cashier[w].who
<1>1. /\ cashier[w].pc = "record" /\ record' = [record EXCEPT ![r] = [state |-> "LIVE", who |-> e]]
      /\ cashier' = [cashier EXCEPT ![w] = For("recompute", e)]
      /\ UNCHANGED <<onStaff, worked, rate, book, payslip, advance, payments, writes,
                     stale, wiped>>
      /\ PayrollTypeOK /\ RowsInHand
  BY DEF SaveRecord, PayrollInd
<1>2. /\ e \in Workers /\ r \in Records /\ record[r] = NoRecord
      /\ \A v \in Cashiers \ {w} : cashier[v].pc = "record" => cashier[v].row # r
  BY <1>1 DEF RowsInHand
<1>20. \A v \in Cashiers : cashier[v].pc = "unrecord" => cashier[v].row # r
  BY <1>1, <1>2, PayrollAssumption DEF RowsInHand, NoRecord
<1> HIDE DEF r, e
<1>3. PICK o : o = For("recompute", e)
  OBVIOUS
<1>4. o = [pc |-> "recompute", who |-> e, row |-> NoOne, sum |-> 0, gen |-> payslip[e].gen]
  BY <1>3 DEF For, FreeCashier
<1>5. o \in CashierState /\ o.pc = "recompute" /\ o.who = e
  BY <1>1, <1>2, <1>4, ForShape
<1>6. /\ cashier' \in [Cashiers -> CashierState] /\ cashier'[w] = o
      /\ \A v \in Cashiers : v # w => cashier'[v] = cashier[v]
  BY <1>1, <1>3, <1>5, CashierMoves
<1>7. /\ record' \in [Records -> EmployeePayrollRecord] /\ record'[r].state = "LIVE"
      /\ record'[r].who = e /\ \A q \in Records : q # r => record'[q] = record[q]
  BY <1>1, <1>2 DEF PayrollTypeOK, EmployeePayrollRecord
<1>8. RowsInHand'
  <2>1. /\ \A q \in Records : record'[q].state = "LIVE" => record'[q].who \in Workers
        /\ \A a \in Advances : advance'[a].status = "PENDING" => advance'[a].who \in Workers
    BY <1>1, <1>2, <1>7 DEF RowsInHand
  <2>2. \A v \in Cashiers \ {w} :
          /\ cashier[v].pc = "record" => record'[cashier[v].row] = record[cashier[v].row]
          /\ cashier[v].pc = "unrecord" =>
               record'[cashier[v].row].who = record[cashier[v].row].who
          /\ cashier[v].pc = "advance" => advance'[cashier[v].row] = advance[cashier[v].row]
    BY <1>1, <1>2, <1>20, <1>7 DEF RowsInHand
  <2>3. QED
    BY <1>1, <1>2, <1>5, <1>6, <2>1, <2>2, HandsKept
<1>9. PayrollTypeOK'
  BY <1>1, <1>6, <1>7 DEF PayrollTypeOK
<1>10. PaidAsRecorded'
  BY <1>1 DEF PayrollInd, PaidAsRecorded
<1>11. SlipsAreCurrent'
  <2> SUFFICES ASSUME NEW f \in Workers \ stale PROVE SlipIsCurrent(f)'
    BY <1>1 DEF SlipsAreCurrent
  <2>1. CASE f = e
    <3>1. RecomputeDue(f)'
      BY <1>5, <1>6, <2>1 DEF RecomputeDue
    <3>2. SlipIsCurrent(f)
      BY DEF PayrollInd, SlipsAreCurrent
    <3>3. QED
      BY <1>1, <3>1, <3>2, CurrentKept
  <2>2. CASE f # e
    <3>1. LiveRecords(f)' = LiveRecords(f)
      BY <1>2, <1>7, <2>2 DEF LiveRecords, NoRecord
    <3>2. SumApprovedAdvances(f, advance)' = SumApprovedAdvances(f, advance)
      BY <1>1 DEF SumApprovedAdvances
    <3>3. QED
      BY <1>1, <1>6, <3>1, <3>2, BesideKept
  <2>3. QED
    BY <2>1, <2>2
<1>12. QED
  BY <1>8, <1>9, <1>10, <1>11 DEF PayrollInd

\* ... and so has one removed.
LEMMA RemoveRecordKeeps ==
  ASSUME PayrollInd, NEW w \in Cashiers, RemoveRecord(w)
  PROVE  PayrollInd'
<1> DEFINE r == cashier[w].row
<1> DEFINE e == cashier[w].who
<1>1. /\ cashier[w].pc = "unrecord" /\ record' = [record EXCEPT ![r].state = "GONE"]
      /\ cashier' = [cashier EXCEPT ![w] = For("recompute", e)]
      /\ UNCHANGED <<onStaff, worked, rate, book, payslip, advance, payments, writes,
                     stale, wiped>>
      /\ PayrollTypeOK /\ RowsInHand
  BY DEF RemoveRecord, PayrollInd
<1>2. e \in Workers /\ r \in Records /\ record[r].who = e
  BY <1>1 DEF RowsInHand
<1>20. \A v \in Cashiers : cashier[v].pc = "record" => cashier[v].row # r
  BY <1>1, <1>2, PayrollAssumption DEF RowsInHand, NoRecord
<1> HIDE DEF r, e
<1>3. PICK o : o = For("recompute", e)
  OBVIOUS
<1>4. o = [pc |-> "recompute", who |-> e, row |-> NoOne, sum |-> 0, gen |-> payslip[e].gen]
  BY <1>3 DEF For, FreeCashier
<1>5. o \in CashierState /\ o.pc = "recompute" /\ o.who = e
  BY <1>1, <1>2, <1>4, ForShape
<1>6. /\ cashier' \in [Cashiers -> CashierState] /\ cashier'[w] = o
      /\ \A v \in Cashiers : v # w => cashier'[v] = cashier[v]
  BY <1>1, <1>3, <1>5, CashierMoves
<1>7. /\ record' \in [Records -> EmployeePayrollRecord] /\ record'[r].state = "GONE"
      /\ record'[r].who = e /\ \A q \in Records : q # r => record'[q] = record[q]
  BY <1>1, <1>2 DEF PayrollTypeOK, EmployeePayrollRecord
<1>8. RowsInHand'
  <2>1. /\ \A q \in Records : record'[q].state = "LIVE" => record'[q].who \in Workers
        /\ \A a \in Advances : advance'[a].status = "PENDING" => advance'[a].who \in Workers
    BY <1>1, <1>2, <1>7 DEF RowsInHand
  <2>2. \A v \in Cashiers \ {w} :
          /\ cashier[v].pc = "record" => record'[cashier[v].row] = record[cashier[v].row]
          /\ cashier[v].pc = "unrecord" =>
               record'[cashier[v].row].who = record[cashier[v].row].who
          /\ cashier[v].pc = "advance" => advance'[cashier[v].row] = advance[cashier[v].row]
    BY <1>1, <1>2, <1>20, <1>7 DEF RowsInHand
  <2>3. QED
    BY <1>1, <1>2, <1>5, <1>6, <2>1, <2>2, HandsKept
<1>9. PayrollTypeOK'
  BY <1>1, <1>6, <1>7 DEF PayrollTypeOK
<1>10. PaidAsRecorded'
  BY <1>1 DEF PayrollInd, PaidAsRecorded
<1>11. SlipsAreCurrent'
  <2> SUFFICES ASSUME NEW f \in Workers \ stale PROVE SlipIsCurrent(f)'
    BY <1>1 DEF SlipsAreCurrent
  <2>1. CASE f = e
    <3>1. RecomputeDue(f)'
      BY <1>5, <1>6, <2>1 DEF RecomputeDue
    <3>2. SlipIsCurrent(f)
      BY DEF PayrollInd, SlipsAreCurrent
    <3>3. QED
      BY <1>1, <3>1, <3>2, CurrentKept
  <2>2. CASE f # e
    <3>1. LiveRecords(f)' = LiveRecords(f)
      BY <1>2, <1>7, <2>2 DEF LiveRecords
    <3>2. SumApprovedAdvances(f, advance)' = SumApprovedAdvances(f, advance)
      BY <1>1 DEF SumApprovedAdvances
    <3>3. QED
      BY <1>1, <1>6, <3>1, <3>2, BesideKept
  <2>3. QED
    BY <2>1, <2>2
<1>12. QED
  BY <1>8, <1>9, <1>10, <1>11 DEF PayrollInd

\* An advance asked counts for nothing yet ...
LEMMA SaveAdvanceRequestKeeps ==
  ASSUME PayrollInd, NEW w \in Cashiers, SaveAdvanceRequest(w)
  PROVE  PayrollInd'
<1> DEFINE o == cashier[w]
<1> DEFINE asked == [status |-> "PENDING", who |-> o.who, asked |-> o.sum, approved |-> 0]
<1>1. /\ o.pc = "advance" /\ Free(w) /\ PayrollTypeOK /\ RowsInHand
      /\ advance' = [advance EXCEPT ![o.row] = asked] \/ advance' = advance
      /\ UNCHANGED <<onStaff, worked, rate, book, payslip, record, payments, writes,
                     stale, wiped>>
  BY DEF SaveAdvanceRequest, PayrollInd
<1>2. /\ o.who \in Workers /\ o.row \in Advances /\ advance[o.row] = NoAdvance /\ o.sum \in Nat
      /\ \A v \in Cashiers \ {w} : cashier[v].pc = "advance" => cashier[v].row # o.row
  BY <1>1 DEF RowsInHand, PayrollTypeOK, CashierState
<1>3. asked \in SalaryAdvanceRequest /\ asked.status = "PENDING" /\ asked.who \in Workers
  BY <1>2 DEF SalaryAdvanceRequest
<1> HIDE DEF asked
<1>4. /\ advance' \in [Advances -> SalaryAdvanceRequest]
      /\ advance'[o.row] \in {asked, NoAdvance}
      /\ \A a \in Advances : a # o.row => advance'[a] = advance[a]
  BY <1>1, <1>2, <1>3 DEF PayrollTypeOK
<1>5. /\ cashier' \in [Cashiers -> CashierState] /\ cashier'[w] = FreeCashier
      /\ \A v \in Cashiers : v # w => cashier'[v] = cashier[v]
  BY <1>1, FreeCashierShape, CashierMoves DEF Free
<1>6. RowsInHand'
  <2>1. /\ \A q \in Records : record'[q].state = "LIVE" => record'[q].who \in Workers
        /\ \A a \in Advances : advance'[a].status = "PENDING" => advance'[a].who \in Workers
    BY <1>1, <1>2, <1>3, <1>4 DEF RowsInHand, NoAdvance
  <2>2. \A v \in Cashiers \ {w} :
          /\ cashier[v].pc = "record" => record'[cashier[v].row] = record[cashier[v].row]
          /\ cashier[v].pc = "unrecord" =>
               record'[cashier[v].row].who = record[cashier[v].row].who
          /\ cashier[v].pc = "advance" => advance'[cashier[v].row] = advance[cashier[v].row]
    BY <1>1, <1>2, <1>4 DEF RowsInHand
  <2>3. QED
    BY <1>1, <1>5, <2>1, <2>2, FreeCashierShape, HandsKept
<1>7. PayrollTypeOK'
  BY <1>1, <1>4, <1>5 DEF PayrollTypeOK
<1>8. PaidAsRecorded'
  BY <1>1 DEF PayrollInd, PaidAsRecorded
<1>9. SlipsAreCurrent'
  <2> SUFFICES ASSUME NEW f \in Workers \ stale PROVE SlipIsCurrent(f)'
    BY <1>1 DEF SlipsAreCurrent
  <2>1. \A a \in Advances :
          (advance[a].status = "APPROVED" /\ advance[a].who = f)
            \/ (advance'[a].status = "APPROVED" /\ advance'[a].who = f) => advance'[a] = advance[a]
    BY <1>2, <1>3, <1>4 DEF NoAdvance
  <2>2. SumApprovedAdvances(f, advance)' = SumApprovedAdvances(f, advance)
    BY <2>1, ApprovedSame
  <2>3. LiveRecords(f)' = LiveRecords(f)
    BY <1>1 DEF LiveRecords
  <2>4. QED
    BY <1>1, <1>5, <2>2, <2>3, BesideKept
<1>10. QED
  BY <1>6, <1>7, <1>8, <1>9 DEF PayrollInd

\* A request whose only row changed is an advance that was pending.
LEMMA ReviewDone ==
  ASSUME PayrollInd, NEW w \in Cashiers, Now(w), NEW a \in Advances,
         advance[a].status = "PENDING", advance' \in [Advances -> SalaryAdvanceRequest],
         advance'[a].status # "PENDING",
         \A b \in Advances : b # a => advance'[b] = advance[b], UNCHANGED record
  PROVE  /\ cashier' \in [Cashiers -> CashierState] /\ cashier'[w] = cashier[w]
         /\ cashier[w] = FreeCashier
         /\ \A v \in Cashiers : v # w => cashier'[v] = cashier[v]
         /\ writes' \in 0 .. MaxWrites /\ RowsInHand'
<1>1. PayrollTypeOK /\ RowsInHand /\ cashier' = [cashier EXCEPT ![w] = FreeCashier]
  BY DEF PayrollInd, Now, Begin
<1>2. /\ cashier' \in [Cashiers -> CashierState] /\ cashier'[w] = FreeCashier
      /\ \A v \in Cashiers : v # w => cashier'[v] = cashier[v]
  BY <1>1, FreeCashierShape, CashierMoves
<1>3. writes' \in 0 .. MaxWrites /\ cashier[w] = FreeCashier
  BY <1>1, NowCounts
<1>4. /\ \A q \in Records : record'[q].state = "LIVE" => record'[q].who \in Workers
      /\ \A b \in Advances : advance'[b].status = "PENDING" => advance'[b].who \in Workers
  BY <1>1 DEF RowsInHand
<1>5. \A v \in Cashiers \ {w} :
        /\ cashier[v].pc = "record" => record'[cashier[v].row] = record[cashier[v].row]
        /\ cashier[v].pc = "unrecord" =>
             record'[cashier[v].row].who = record[cashier[v].row].who
        /\ cashier[v].pc = "advance" => advance'[cashier[v].row] = advance[cashier[v].row]
  BY <1>1 DEF RowsInHand, NoAdvance
<1>6. RowsInHand'
  BY <1>1, <1>2, <1>4, <1>5, FreeCashierShape, HandsKept
<1>7. QED
  BY <1>2, <1>3, <1>6

\* ... nor does one refused or cancelled ...
LEMMA EndAdvanceKeeps ==
  ASSUME PayrollInd, NEW w \in Cashiers, NEW a \in Advances,
         NEW s \in {"REJECTED", "CANCELLED"}, EndAdvance(w, a, s)
  PROVE  PayrollInd'
<1>1. /\ advance[a].status = "PENDING" /\ advance' = [advance EXCEPT ![a].status = s]
      /\ Now(w) /\ PayrollTypeOK
      /\ UNCHANGED <<onStaff, worked, rate, book, payslip, record, payments, stale, wiped>>
  BY DEF EndAdvance, PayrollInd
<1>2. /\ advance' \in [Advances -> SalaryAdvanceRequest] /\ advance'[a].status = s
      /\ \A b \in Advances : b # a => advance'[b] = advance[b]
  BY <1>1 DEF PayrollTypeOK, SalaryAdvanceRequest
<1>3. /\ cashier' \in [Cashiers -> CashierState] /\ cashier'[w] = cashier[w]
      /\ \A v \in Cashiers : v # w => cashier'[v] = cashier[v]
      /\ writes' \in 0 .. MaxWrites /\ RowsInHand'
  BY <1>1, <1>2, ReviewDone
<1>4. PayrollTypeOK'
  BY <1>1, <1>2, <1>3 DEF PayrollTypeOK
<1>5. PaidAsRecorded'
  BY <1>1 DEF PayrollInd, PaidAsRecorded
<1>6. SlipsAreCurrent'
  <2> SUFFICES ASSUME NEW f \in Workers \ stale PROVE SlipIsCurrent(f)'
    BY <1>1 DEF SlipsAreCurrent
  <2>1. \A b \in Advances :
          (advance[b].status = "APPROVED" /\ advance[b].who = f)
            \/ (advance'[b].status = "APPROVED" /\ advance'[b].who = f) => advance'[b] = advance[b]
    BY <1>1, <1>2
  <2>2. SumApprovedAdvances(f, advance)' = SumApprovedAdvances(f, advance)
    BY <2>1, ApprovedSame
  <2>3. LiveRecords(f)' = LiveRecords(f)
    BY <1>1 DEF LiveRecords
  <2>4. QED
    BY <1>1, <1>3, <2>2, <2>3, BesideKept
<1>7. QED
  BY <1>3, <1>4, <1>5, <1>6 DEF PayrollInd

\* An approval moves its row alone ...
LEMMA ApprovalRow ==
  ASSUME PayrollTypeOK, RowsInHand, NEW w \in Cashiers, NEW a \in Advances, NEW sum \in Nat,
         ApproveAdvance(w, a, sum)
  PROVE  /\ advance[a].who \in Workers /\ advance' \in [Advances -> SalaryAdvanceRequest]
         /\ advance'[a].who = advance[a].who /\ advance'[a].status = "APPROVED"
         /\ advance'[a].approved = sum
         /\ \A b \in Advances : b # a => advance'[b] = advance[b]
<1>1. /\ advance[a].status = "PENDING"
      /\ advance' = [advance EXCEPT ![a].status = "APPROVED", ![a].approved = sum]
  BY DEF ApproveAdvance
<1>2. advance[a].who \in Workers
  BY <1>1 DEF RowsInHand
<1>3. QED
  BY <1>1, <1>2 DEF PayrollTypeOK, SalaryAdvanceRequest

\* ... and the advances and the net of one payslip.
LEMMA ApprovalShape ==
  ASSUME PayrollTypeOK, RowsInHand, NEW w \in Cashiers, NEW a \in Advances, NEW sum \in Nat,
         ApproveAdvance(w, a, sum)
  PROVE  LET e == advance[a].who
             p == payslip[e]
             adv == SumApprovedAdvances(e, advance')
         IN /\ payslip'[e] = [status |-> p.status, gen |-> p.gen, income |-> p.income,
                              penalty |-> p.penalty, adv |-> adv,
                              net |-> ComputeNet(p.income, p.penalty, adv)]
            /\ \A f \in Workers : f # e => payslip'[f] = payslip[f]
            /\ payslip' \in [Workers -> EmployeeSalary] /\ payslip'[e].net <= payslip'[e].income
<1>0. PICK e : e = advance[a].who
  OBVIOUS
<1> DEFINE adv == SumApprovedAdvances(e, advance')
<1> DEFINE p == payslip[e]
<1> DEFINE net == ComputeNet(p.income, p.penalty, adv)
<1>1. /\ advance[a].status = "PENDING"
      /\ advance' = [advance EXCEPT ![a].status = "APPROVED", ![a].approved = sum]
      /\ payslip' = [payslip EXCEPT ![e].adv = adv, ![e].net = net]
  BY <1>0 DEF ApproveAdvance
<1>2. e \in Workers /\ advance' \in [Advances -> SalaryAdvanceRequest]
  BY <1>0, ApprovalRow
<1>4. adv \in Nat
  BY <1>2, ApprovedCounted
<1>5. p \in EmployeeSalary /\ p.income \in Nat /\ p.penalty \in Nat
  BY <1>2 DEF PayrollTypeOK, EmployeeSalary
<1> HIDE DEF adv
<1>6. net \in Nat /\ net <= p.income
  BY <1>4, <1>5 DEF ComputeNet
<1> HIDE DEF net
<1>7. /\ \A f \in Workers : f # e => payslip'[f] = payslip[f]
      /\ payslip'[e] = [status |-> p.status, gen |-> p.gen, income |-> p.income,
                        penalty |-> p.penalty, adv |-> adv, net |-> net]
      /\ DOMAIN payslip' = Workers
  <2>1. payslip[e] \in EmployeeSalary
    BY <1>5
  <2>2. payslip'[e] = [p EXCEPT !.adv = adv, !.net = net]
    BY <1>1, <1>2 DEF PayrollTypeOK
  <2>3. payslip'[e] = [status |-> p.status, gen |-> p.gen, income |-> p.income,
                       penalty |-> p.penalty, adv |-> adv, net |-> net]
    BY <2>1, <2>2 DEF EmployeeSalary
  <2>4. QED
    BY <1>1, <1>2, <2>3 DEF PayrollTypeOK
<1>8. payslip' \in [Workers -> EmployeeSalary]
  <2>1. payslip'[e] \in EmployeeSalary
    BY <1>4, <1>5, <1>6, <1>7 DEF EmployeeSalary
  <2>2. \A f \in Workers : payslip'[f] \in EmployeeSalary
    BY <1>7, <2>1 DEF PayrollTypeOK
  <2>3. payslip' = [f \in Workers |-> payslip'[f]]
    BY <1>1 DEF PayrollTypeOK
  <2>4. QED
    BY <2>2, <2>3
<1>9. payslip'[e].net <= payslip'[e].income
  BY <1>6, <1>7
<1>10. QED
  BY <1>0, <1>7, <1>8, <1>9 DEF adv, net

\* ... and an approval keeps a current payslip current.
LEMMA ApproveAdvanceKeeps ==
  ASSUME PayrollInd, NEW w \in Cashiers, NEW a \in Advances, NEW sum \in Sums \cup {0},
         ApproveAdvance(w, a, sum)
  PROVE  PayrollInd'
<1>1. /\ advance[a].status = "PENDING" /\ Now(w) /\ PayrollTypeOK /\ RowsInHand
      /\ UNCHANGED <<onStaff, worked, rate, book, record, payments, stale, wiped>>
  BY DEF ApproveAdvance, PayrollInd
<1>2. sum \in Nat
  BY PayrollAssumption
<1>3. PICK e : e = advance[a].who
  OBVIOUS
<1> DEFINE p == payslip[e]
<1> DEFINE adv == SumApprovedAdvances(e, advance')
<1>40. /\ e \in Workers /\ advance' \in [Advances -> SalaryAdvanceRequest]
       /\ advance'[a].who = e /\ advance'[a].status = "APPROVED" /\ advance'[a].approved = sum
       /\ \A b \in Advances : b # a => advance'[b] = advance[b]
  BY <1>1, <1>2, <1>3, ApprovalRow
<1>41. /\ \A f \in Workers : f # e => payslip'[f] = payslip[f]
       /\ payslip' \in [Workers -> EmployeeSalary] /\ payslip'[e].net <= payslip'[e].income
  BY <1>1, <1>2, <1>3, ApprovalShape
<1>4. /\ e \in Workers /\ advance' \in [Advances -> SalaryAdvanceRequest]
      /\ advance'[a].who = e /\ advance'[a].status = "APPROVED" /\ advance'[a].approved = sum
      /\ \A b \in Advances : b # a => advance'[b] = advance[b]
      /\ \A f \in Workers : f # e => payslip'[f] = payslip[f]
      /\ payslip' \in [Workers -> EmployeeSalary] /\ payslip'[e].net <= payslip'[e].income
  BY <1>40, <1>41
<1>5. payslip'[e] = [status |-> p.status, gen |-> p.gen, income |-> p.income,
                     penalty |-> p.penalty, adv |-> adv,
                     net |-> ComputeNet(p.income, p.penalty, adv)]
  BY <1>1, <1>2, <1>3, ApprovalShape
<1>6. /\ cashier' \in [Cashiers -> CashierState] /\ cashier'[w] = cashier[w]
      /\ \A v \in Cashiers : v # w => cashier'[v] = cashier[v]
      /\ writes' \in 0 .. MaxWrites /\ RowsInHand'
  BY <1>1, <1>4, ReviewDone
<1>7. PayrollTypeOK'
  BY <1>1, <1>4, <1>6 DEF PayrollTypeOK
<1>8. \A f \in Workers : payslip'[f].status = payslip[f].status
  BY <1>4, <1>5
<1>9. PaidAsRecorded'
  BY <1>1, <1>8 DEF PayrollInd, PaidAsRecorded
<1>10. SlipsAreCurrent'
  <2> SUFFICES ASSUME NEW f \in Workers \ stale PROVE SlipIsCurrent(f)'
    BY <1>1 DEF SlipsAreCurrent
  <2>1. LiveRecords(f)' = LiveRecords(f)
    BY <1>1 DEF LiveRecords
  <2>2. CASE f # e
    <3>1. \A b \in Advances :
            (advance[b].status = "APPROVED" /\ advance[b].who = f)
              \/ (advance'[b].status = "APPROVED" /\ advance'[b].who = f)
              => advance'[b] = advance[b]
      BY <1>1, <1>3, <1>4, <2>2
    <3>2. SumApprovedAdvances(f, advance)' = SumApprovedAdvances(f, advance)
      BY <3>1, ApprovedSame
    <3>3. QED
      BY <1>1, <1>4, <1>6, <2>1, <2>2, <3>2, BesideKept
  <2>3. CASE f = e
    <3> SUFFICES ASSUME p.status = "PENDING", onStaff[e], ~RecomputeDue(e)'
                 PROVE  payslip'[e] = ComputeEmployeePayslip(e)'
      BY <1>1, <1>4, <1>8, <2>3 DEF SlipIsCurrent
    <3>1. ~RecomputeDue(e)
      BY <1>6, DueKept
    <3>2. p = ComputeEmployeePayslip(e)
      BY <1>4, <2>3, <3>1 DEF PayrollInd, SlipsAreCurrent, SlipIsCurrent
    <3>3. p.income = rate[e] * worked[e] /\ p.penalty = Cardinality(LiveRecords(e))
      BY <1>1, <1>4, <3>2, ComputedShape
    <3>4. payslip'[e].gen = p.gen
      BY <1>5
    <3>5. ComputeEmployeePayslip(e)' =
            [status |-> "PENDING", gen |-> p.gen, income |-> rate[e] * worked[e],
             penalty |-> Cardinality(LiveRecords(e)), adv |-> adv,
             net |-> ComputeNet(rate[e] * worked[e], Cardinality(LiveRecords(e)), adv)]
      BY <1>1, <2>1, <2>3, <3>4 DEF ComputeEmployeePayslip, ComputeNet
    <3>6. QED
      BY <1>5, <3>3, <3>5
  <2>4. QED
    BY <2>2, <2>3
<1>11. QED
  BY <1>6, <1>7, <1>9, <1>10 DEF PayrollInd

-----------------------------------------------------------------------------
\* One step of a request that touches no record and no advance.
LEMMA SlipsWritten ==
  ASSUME PayrollInd, NEW w \in Cashiers,
         (Free(w) /\ UNCHANGED writes /\ cashier[w].pc \notin {"rebuild", "price", "recompute"})
           \/ Now(w),
         UNCHANGED <<worked, advance, record>>,
         rate' \in [Workers -> 1 .. MaxRate], onStaff' \in [Workers -> BOOLEAN],
         book' \in BOOLEAN, payslip' \in [Workers -> EmployeeSalary],
         payments' \in [Workers -> Nat], stale' \subseteq Workers, wiped' \subseteq Workers,
         PaidAsRecorded',
         \A e \in Workers \ stale' :
           \/ /\ e \notin stale /\ payslip'[e] = payslip[e] /\ rate'[e] = rate[e]
              /\ onStaff'[e] => onStaff[e]
           \/ /\ payslip'[e].status # "PENDING" /\ payslip'[e].net <= payslip'[e].income
  PROVE  PayrollInd'
<1>1. PayrollTypeOK /\ RowsInHand /\ (Free(w) \/ Now(w))
  BY DEF PayrollInd
<1>2. writes' \in 0 .. MaxWrites
  BY <1>1, NowCounts DEF PayrollTypeOK
<1>3. /\ cashier' \in [Cashiers -> CashierState] /\ cashier'[w] = FreeCashier
      /\ \A v \in Cashiers : v # w => cashier'[v] = cashier[v]
      /\ RowsInHand'
  BY <1>1, <1>2, CashierDone
<1>4. PayrollTypeOK'
  BY <1>1, <1>2, <1>3 DEF PayrollTypeOK
<1>5. cashier'[w] = cashier[w] \/ cashier[w].pc \notin {"rebuild", "price", "recompute"}
  BY <1>1, <1>3, NowCounts
<1>6. SlipsAreCurrent'
  <2> SUFFICES ASSUME NEW e \in Workers \ stale' PROVE SlipIsCurrent(e)'
    BY DEF SlipsAreCurrent
  <2>1. CASE /\ e \notin stale /\ payslip'[e] = payslip[e] /\ rate'[e] = rate[e]
             /\ onStaff'[e] => onStaff[e]
    BY <1>3, <1>5, <2>1, BooksRest, BesideKept
  <2>2. CASE payslip'[e].status # "PENDING" /\ payslip'[e].net <= payslip'[e].income
    BY <2>2 DEF SlipIsCurrent
  <2>3. QED
    BY <2>1, <2>2
<1>7. QED
  BY <1>3, <1>4, <1>6 DEF PayrollInd

\* A claimed payment ends an open payslip.
LEMMA ClaimPaymentKeeps ==
  ASSUME PayrollInd, NEW w \in Cashiers, ClaimPayment(w)
  PROVE  PayrollInd'
<1> DEFINE e == cashier[w].who
<1> DEFINE claimed == payslip[e].status = "PENDING" /\ payslip[e].gen = cashier[w].gen
<1>1. /\ cashier[w].pc = "pay" /\ Free(w) /\ PayrollTypeOK /\ RowsInHand
      /\ payslip' = IF claimed THEN [payslip EXCEPT ![e].status = "PAID"] ELSE payslip
      /\ payments' = IF claimed THEN [payments EXCEPT ![e] = @ + 1] ELSE payments
      /\ UNCHANGED <<onStaff, worked, rate, book, advance, record, writes, stale, wiped>>
  BY DEF ClaimPayment, PayrollInd
<1>2. e \in Workers
  BY <1>1 DEF RowsInHand
<1>3. claimed => payslip[e].status = "PENDING"
  OBVIOUS
<1> HIDE DEF e, claimed
<1>4. /\ payslip' \in [Workers -> EmployeeSalary] /\ payments' \in [Workers -> Nat]
      /\ \A f \in Workers : f # e => payslip'[f] = payslip[f] /\ payments'[f] = payments[f]
  BY <1>1, <1>2 DEF PayrollTypeOK, EmployeeSalary
<1>5. /\ claimed => /\ payslip'[e].status = "PAID" /\ payslip'[e].net = payslip[e].net
                    /\ payslip'[e].income = payslip[e].income
                    /\ payments'[e] = payments[e] + 1
      /\ ~claimed => payslip' = payslip /\ payments' = payments
  BY <1>1, <1>2 DEF PayrollTypeOK, EmployeeSalary
<1>6. PaidAsRecorded'
  BY <1>1, <1>3, <1>4, <1>5 DEF PayrollInd, PaidAsRecorded
<1>7. \A f \in Workers \ stale' :
        \/ /\ f \notin stale /\ payslip'[f] = payslip[f] /\ rate'[f] = rate[f]
           /\ onStaff'[f] => onStaff[f]
        \/ /\ payslip'[f].status # "PENDING" /\ payslip'[f].net <= payslip'[f].income
  BY <1>1, <1>4, <1>5 DEF PayrollInd, SlipsAreCurrent, SlipIsCurrent
<1>8. QED
  BY <1>1, <1>4, <1>6, <1>7, SlipsWritten DEF PayrollTypeOK

\* A new rate, an edit and a return leave the payslip to the next time.
LEMMA SaveAdjustmentKeeps ==
  ASSUME PayrollInd, NEW w \in Cashiers, SaveAdjustment(w)
  PROVE  PayrollInd'
<1> DEFINE e == cashier[w].who
<1>1. /\ cashier[w].pc = "adjust" /\ Free(w) /\ PayrollTypeOK /\ RowsInHand
      /\ rate' = [rate EXCEPT ![e] = cashier[w].sum] /\ stale' = stale \cup {e}
      /\ UNCHANGED <<onStaff, worked, book, payslip, advance, record, payments, writes, wiped>>
  BY DEF SaveAdjustment, PayrollInd
<1>2. e \in Workers /\ cashier[w].sum \in 1 .. MaxRate
  BY <1>1 DEF RowsInHand
<1> HIDE DEF e
<1>3. /\ rate' \in [Workers -> 1 .. MaxRate] /\ \A f \in Workers : f # e => rate'[f] = rate[f]
  BY <1>1, <1>2 DEF PayrollTypeOK
<1>4. PaidAsRecorded'
  BY <1>1 DEF PayrollInd, PaidAsRecorded
<1>5. QED
  BY <1>1, <1>2, <1>3, <1>4, SlipsWritten DEF PayrollTypeOK

\* The edit of the owner.
LEMMA EditEmployeeSalaryKeeps ==
  ASSUME PayrollInd, NEW w \in Cashiers, NEW e \in Workers, NEW n \in Sums,
         EditEmployeeSalary(w, e, n)
  PROVE  PayrollInd'
<1>1. /\ payslip' = [payslip EXCEPT ![e].net = n,
                       ![e].status = IF @ = "NONE" THEN "PENDING" ELSE @]
      /\ stale' = stale \cup {e} /\ Now(w) /\ PayrollTypeOK
      /\ UNCHANGED <<onStaff, worked, rate, book, advance, record, payments, wiped>>
  BY DEF EditEmployeeSalary, PayrollInd
<1>2. /\ payslip' \in [Workers -> EmployeeSalary]
      /\ \A f \in Workers : f # e => payslip'[f] = payslip[f]
      /\ payslip'[e].status = "PAID" <=> payslip[e].status = "PAID"
  <2>1. PICK s : s = IF payslip[e].status = "NONE" THEN "PENDING" ELSE payslip[e].status
    OBVIOUS
  <2>2. payslip' = [payslip EXCEPT ![e] = [@ EXCEPT !.net = n, !.status = s]]
    BY <1>1, <2>1 DEF PayrollTypeOK, EmployeeSalary
  <2>3. [payslip[e] EXCEPT !.net = n, !.status = s] \in EmployeeSalary
    BY <1>1, <2>1, PayrollAssumption DEF PayrollTypeOK, EmployeeSalary
  <2>4. [payslip[e] EXCEPT !.net = n, !.status = s].status = s
    BY <1>1 DEF PayrollTypeOK, EmployeeSalary
  <2>5. QED
    BY <1>1, <2>1, <2>2, <2>3, <2>4 DEF PayrollTypeOK
<1>3. PaidAsRecorded'
  BY <1>1, <1>2 DEF PayrollInd, PaidAsRecorded
<1>4. QED
  BY <1>1, <1>2, <1>3, SlipsWritten DEF PayrollTypeOK

\* No payslip is a row with no figures.
LEMMA NoPayslipShape ==
  ASSUME NEW g \in 0 .. MaxDeletions
  PROVE  /\ NoPayslip(g) \in EmployeeSalary /\ NoPayslip(g).status = "NONE"
         /\ NoPayslip(g).net <= NoPayslip(g).income
BY PayrollAssumption DEF NoPayslip, EmployeeSalary

\* A deleted payslip has no figures, and a paid one is on record ...
LEMMA DeleteEmployeeSalaryKeeps ==
  ASSUME PayrollInd, NEW w \in Cashiers, NEW e \in Workers, DeleteEmployeeSalary(w, e)
  PROVE  PayrollInd'
<1>1. /\ payslip[e].gen < MaxDeletions
      /\ payslip' = [payslip EXCEPT ![e] = NoPayslip(payslip[e].gen + 1)]
      /\ wiped' = (IF payslip[e].status = "PAID" THEN wiped \cup {e} ELSE wiped)
      /\ stale' = stale \ {e} /\ Now(w) /\ PayrollTypeOK
      /\ UNCHANGED <<onStaff, worked, rate, book, advance, record, payments>>
  BY DEF DeleteEmployeeSalary, PayrollInd
<1>2. payslip[e].gen + 1 \in 0 .. MaxDeletions
  BY <1>1, PayrollAssumption DEF PayrollTypeOK, EmployeeSalary
<1>3. PICK p : p = NoPayslip(payslip[e].gen + 1)
  OBVIOUS
<1>4. p \in EmployeeSalary /\ p.status = "NONE" /\ p.net <= p.income
  BY <1>2, <1>3, NoPayslipShape
<1>5. /\ payslip' \in [Workers -> EmployeeSalary] /\ payslip'[e] = p
      /\ \A f \in Workers : f # e => payslip'[f] = payslip[f]
  BY <1>1, <1>3, <1>4 DEF PayrollTypeOK
<1>6. PaidAsRecorded'
  BY <1>1, <1>4, <1>5 DEF PayrollInd, PaidAsRecorded
<1>7. \A f \in Workers \ stale' :
        \/ /\ f \notin stale /\ payslip'[f] = payslip[f] /\ rate'[f] = rate[f]
           /\ onStaff'[f] => onStaff[f]
        \/ /\ payslip'[f].status # "PENDING" /\ payslip'[f].net <= payslip'[f].income
  BY <1>1, <1>4, <1>5
<1>8. QED
  BY <1>1, <1>5, <1>6, <1>7, SlipsWritten DEF PayrollTypeOK

\* ... so are all of the month ...
LEMMA DeletePayrollKeeps ==
  ASSUME PayrollInd, NEW w \in Cashiers, DeletePayroll(w)
  PROVE  PayrollInd'
<1> DEFINE slips == {e \in Workers : payslip[e].status # "NONE"}
<1>1. /\ \A e \in slips : payslip[e].gen < MaxDeletions
      /\ payslip' = [e \in Workers |-> IF e \in slips THEN NoPayslip(payslip[e].gen + 1)
                                       ELSE payslip[e]]
      /\ wiped' = wiped \cup {e \in slips : payslip[e].status = "PAID"}
      /\ stale' = stale \ slips /\ book' = FALSE /\ Now(w) /\ PayrollTypeOK
      /\ UNCHANGED <<onStaff, worked, rate, advance, record, payments>>
  BY DEF DeletePayroll, PayrollInd
<1>2. \A e \in slips : payslip[e].gen + 1 \in 0 .. MaxDeletions
  BY <1>1, PayrollAssumption DEF PayrollTypeOK, EmployeeSalary
<1>3. \A e \in slips : /\ payslip'[e] \in EmployeeSalary /\ payslip'[e].status = "NONE"
                       /\ payslip'[e].net <= payslip'[e].income
  BY <1>1, <1>2, NoPayslipShape
<1>4. \A e \in Workers \ slips : payslip'[e] = payslip[e] /\ payslip[e].status = "NONE"
  BY <1>1
<1>5. payslip' \in [Workers -> EmployeeSalary]
  BY <1>1, <1>3, <1>4 DEF PayrollTypeOK
<1>6. PaidAsRecorded'
  BY <1>1, <1>3, <1>4 DEF PayrollInd, PaidAsRecorded
<1>7. \A f \in Workers \ stale' :
        \/ /\ f \notin stale /\ payslip'[f] = payslip[f] /\ rate'[f] = rate[f]
           /\ onStaff'[f] => onStaff[f]
        \/ /\ payslip'[f].status # "PENDING" /\ payslip'[f].net <= payslip'[f].income
  BY <1>1, <1>3, <1>4
<1>8. QED
  BY <1>1, <1>5, <1>6, <1>7, SlipsWritten DEF PayrollTypeOK

\* ... and one who leaves has no payslip to keep current.
LEMMA LeaveStaffKeeps ==
  ASSUME PayrollInd, NEW w \in Cashiers, NEW e \in Workers, LeaveStaff(w, e)
  PROVE  PayrollInd'
<1>1. /\ onStaff' = [onStaff EXCEPT ![e] = FALSE] /\ Now(w) /\ PayrollTypeOK
      /\ UNCHANGED <<worked, rate, book, payslip, advance, record, payments, stale, wiped>>
  BY DEF LeaveStaff, PayrollInd
<1>2. onStaff' \in [Workers -> BOOLEAN] /\ \A f \in Workers : onStaff'[f] => onStaff[f]
  BY <1>1 DEF PayrollTypeOK
<1>3. PaidAsRecorded'
  BY <1>1 DEF PayrollInd, PaidAsRecorded
<1>4. QED
  BY <1>1, <1>2, <1>3, SlipsWritten DEF PayrollTypeOK

\* One hired again has the payslip of before until the next time.
LEMMA HireAgainKeeps ==
  ASSUME PayrollInd, NEW w \in Cashiers, NEW e \in Workers, HireAgain(w, e)
  PROVE  PayrollInd'
<1>1. /\ onStaff' = [onStaff EXCEPT ![e] = TRUE] /\ book' = TRUE
      /\ payslip' = [payslip EXCEPT ![e].status = IF @ = "NONE" THEN "PENDING" ELSE @]
      /\ stale' = stale \cup {e} /\ Now(w) /\ PayrollTypeOK
      /\ UNCHANGED <<worked, rate, advance, record, payments, wiped>>
  BY DEF HireAgain, PayrollInd
<1>2. /\ payslip' \in [Workers -> EmployeeSalary]
      /\ \A f \in Workers : f # e => payslip'[f] = payslip[f]
      /\ payslip'[e].status = "PAID" <=> payslip[e].status = "PAID"
  BY <1>1 DEF PayrollTypeOK, EmployeeSalary
<1>3. /\ onStaff' \in [Workers -> BOOLEAN]
      /\ \A f \in Workers : f # e => onStaff'[f] = onStaff[f]
  BY <1>1 DEF PayrollTypeOK
<1>4. PaidAsRecorded'
  BY <1>1, <1>2 DEF PayrollInd, PaidAsRecorded
<1>5. QED
  BY <1>1, <1>2, <1>3, <1>4, SlipsWritten DEF PayrollTypeOK

-----------------------------------------------------------------------------
\* Nobody has worked and nothing is paid at first.
LEMMA PayrollStarts ==
  PayrollInit => PayrollInd
<1> SUFFICES ASSUME PayrollInit PROVE PayrollInd
  OBVIOUS
<1>1. /\ onStaff = [e \in Workers |-> TRUE] /\ worked = [e \in Workers |-> 0]
      /\ rate = [e \in Workers |-> 1] /\ book \in BOOLEAN
      /\ payslip = [e \in Workers |-> NoPayslip(0)]
      /\ advance = [a \in Advances |-> NoAdvance] /\ record = [r \in Records |-> NoRecord]
      /\ cashier = [w \in Cashiers |-> FreeCashier] /\ payments = [e \in Workers |-> 0]
      /\ writes = 0 /\ stale = {} /\ wiped = {}
  BY DEF PayrollInit
<1>2. 0 \in 0 .. MaxDeletions /\ 0 \in 0 .. MaxWorked /\ 0 \in 0 .. MaxWrites /\ 1 \in 1 .. MaxRate
  BY PayrollAssumption
<1>3. /\ NoPayslip(0) \in EmployeeSalary /\ NoPayslip(0).status = "NONE"
      /\ NoPayslip(0).net <= NoPayslip(0).income
  BY <1>2, NoPayslipShape
<1>4. NoAdvance \in SalaryAdvanceRequest /\ NoAdvance.status = "NONE"
  BY DEF NoAdvance, SalaryAdvanceRequest
<1>5. NoRecord \in EmployeePayrollRecord /\ NoRecord.state = "NONE"
  BY DEF NoRecord, EmployeePayrollRecord
<1>6. PayrollTypeOK
  BY <1>1, <1>2, <1>3, <1>4, <1>5, FreeCashierShape DEF PayrollTypeOK
<1>7. RowsInHand
  BY <1>1, <1>4, <1>5, FreeCashierShape DEF RowsInHand
<1>8. PaidAsRecorded
  BY <1>1, <1>3 DEF PaidAsRecorded
<1>9. SlipsAreCurrent
  BY <1>1, <1>3 DEF SlipsAreCurrent, SlipIsCurrent
<1>10. QED
  BY <1>6, <1>7, <1>8, <1>9 DEF PayrollInd

\* Where nothing moves nothing is lost.
LEMMA PayrollRests ==
  ASSUME PayrollInd, UNCHANGED payrollVars
  PROVE  PayrollInd'
<1>1. /\ onStaff' = onStaff /\ worked' = worked /\ rate' = rate /\ book' = book
      /\ payslip' = payslip /\ advance' = advance /\ record' = record /\ cashier' = cashier
      /\ payments' = payments /\ writes' = writes /\ stale' = stale /\ wiped' = wiped
  BY DEF payrollVars
<1>2. PayrollTypeOK' /\ RowsInHand' /\ PaidAsRecorded'
  BY <1>1 DEF PayrollInd, PayrollTypeOK, RowsInHand, PaidAsRecorded
<1>3. SlipsAreCurrent'
  BY <1>1 DEF PayrollInd, SlipsAreCurrent, SlipIsCurrent, RecomputeDue, ComputeEmployeePayslip,
     LiveRecords
<1>4. QED
  BY <1>2, <1>3 DEF PayrollInd

\* Every request keeps the invariant.
LEMMA PayrollKeeps ==
  ASSUME PayrollInd, PayrollNext
  PROVE  PayrollInd'
<1>1. PICK w \in Cashiers :
    \/ ReadEmployee(w)
    \/ Recompute(w)
    \/ RebuildStorePayrollForMonth(w)
    \/ RecalculationFails(w)
    \/ SaveRecord(w)
    \/ RemoveRecord(w)
    \/ SaveAdvanceRequest(w)
    \/ ClaimPayment(w)
    \/ SaveAdjustment(w)
    \/ DeletePayroll(w)
    \/ \E e \in Workers :
         \/ SaveRates(w, e)
         \/ CheckOutShift(w, e)
         \/ PayEmployeeSalary(w, e)
         \/ CreateSalaryAdjustment(w, e)
         \/ DeleteEmployeeSalary(w, e)
         \/ LeaveStaff(w, e)
         \/ HireAgain(w, e)
         \/ \E r \in Records : CreatePayrollRecord(w, e, r)
         \/ \E n \in Sums : EditEmployeeSalary(w, e, n)
         \/ \E a \in Advances, n \in Sums : CreateSalaryAdvanceRequest(w, e, a, n)
    \/ \E r \in Records : DeletePayrollRecord(w, r)
    \/ \E a \in Advances :
         \/ \E n \in Sums \cup {0} : ApproveAdvance(w, a, n)
         \/ \E s \in {"REJECTED", "CANCELLED"} : EndAdvance(w, a, s)
  BY DEF PayrollNext
<1>2. CASE \/ ReadEmployee(w) \/ Recompute(w)
           \/ RebuildStorePayrollForMonth(w) \/ RecalculationFails(w)
           \/ SaveRecord(w) \/ RemoveRecord(w) \/ SaveAdvanceRequest(w) \/ ClaimPayment(w)
           \/ SaveAdjustment(w) \/ DeletePayroll(w)
  BY <1>2, ReadEmployeeKeeps, RecomputeKeeps, RebuildKeeps, RecalculationFailsKeeps, SaveRecordKeeps,
     RemoveRecordKeeps, SaveAdvanceRequestKeeps, ClaimPaymentKeeps, SaveAdjustmentKeeps,
     DeletePayrollKeeps
<1>3. CASE \E e \in Workers :
             \/ SaveRates(w, e) \/ CheckOutShift(w, e) \/ PayEmployeeSalary(w, e)
             \/ CreateSalaryAdjustment(w, e) \/ DeleteEmployeeSalary(w, e)
             \/ LeaveStaff(w, e) \/ HireAgain(w, e)
  BY <1>3, SaveRatesKeeps, CheckOutShiftKeeps, PayEmployeeSalaryKeeps,
     CreateSalaryAdjustmentKeeps, DeleteEmployeeSalaryKeeps, LeaveStaffKeeps, HireAgainKeeps
<1>4. CASE \E e \in Workers :
             \/ \E r \in Records : CreatePayrollRecord(w, e, r)
             \/ \E n \in Sums : EditEmployeeSalary(w, e, n)
             \/ \E a \in Advances, n \in Sums : CreateSalaryAdvanceRequest(w, e, a, n)
  BY <1>4, CreatePayrollRecordKeeps, EditEmployeeSalaryKeeps, CreateSalaryAdvanceRequestKeeps
<1>5. CASE \/ \E r \in Records : DeletePayrollRecord(w, r)
           \/ \E a \in Advances :
                \/ \E n \in Sums \cup {0} : ApproveAdvance(w, a, n)
                \/ \E s \in {"REJECTED", "CANCELLED"} : EndAdvance(w, a, s)
  BY <1>5, DeletePayrollRecordKeeps, ApproveAdvanceKeeps, EndAdvanceKeeps
<1>6. QED
  BY <1>1, <1>2, <1>3, <1>4, <1>5, Zenon

\* What the invariant says of a payslip paid, and of one whose requests ended.
LEMMA PayrollHolds ==
  ASSUME PayrollInd
  PROVE  PaidOnce /\ SettledSlipsAreCurrent
<1>1. PaidOnce
  BY DEF PayrollInd, PaidAsRecorded, PaidOnce
<1>2. SettledSlipsAreCurrent
  <2> SUFFICES ASSUME NEW e \in Workers, payslip[e].status = "PENDING", onStaff[e], Settled(e),
                      e \notin stale
               PROVE  payslip[e] = ComputeEmployeePayslip(e)
    BY DEF SettledSlipsAreCurrent
  <2>1. ~RecomputeDue(e)
    BY DEF Settled, RecomputeDue
  <2>2. QED
    BY <2>1 DEF PayrollInd, SlipsAreCurrent, SlipIsCurrent
<1>3. QED
  BY <1>1, <1>2

\* A paid payslip keeps its figures, whoever writes next.
LEMMA FinalFiguresKept ==
  ASSUME PayrollInd, PayrollNext, NEW e \in Workers, payslip[e].status = "PAID",
         payslip'[e].status # "NONE"
  PROVE  /\ payslip'[e].status = "PAID"
         /\ payslip'[e].income = payslip[e].income
         /\ payslip'[e].penalty = payslip[e].penalty
         /\ payslip'[e].net = payslip[e].net
            \/ payslip'[e].adv # payslip[e].adv \/ e \in stale'
            \/ advance' # advance
<1> DEFINE Stands == /\ payslip'[e].status = "PAID"
                     /\ payslip'[e].income = payslip[e].income
                     /\ payslip'[e].penalty = payslip[e].penalty
                     /\ payslip'[e].net = payslip[e].net
                        \/ payslip'[e].adv # payslip[e].adv \/ e \in stale'
                        \/ advance' # advance
<1>1. payslip'[e] = payslip[e] => Stands
  OBVIOUS
<1>2. PayrollTypeOK /\ RowsInHand /\ payslip[e] \in EmployeeSalary
  BY DEF PayrollInd, PayrollTypeOK
<1>3. ASSUME NEW w \in Cashiers, Recompute(w) \/ RebuildStorePayrollForMonth(w)
      PROVE  payslip'[e] = payslip[e]
  <2>1. UpsertEmployeePayslip(e) = payslip[e]
    BY <1>2, UpsertShape
  <2>2. CASE Recompute(w)
    BY <1>2, <2>1, <2>2 DEF Recompute, PayrollTypeOK
  <2>3. CASE RebuildStorePayrollForMonth(w)
    BY <2>1, <2>3 DEF RebuildStorePayrollForMonth
  <2>4. QED
    BY <1>3, <2>2, <2>3
<1>4. ASSUME NEW w \in Cashiers, NEW f \in Workers,
             \/ ClaimPayment(w) \/ DeletePayroll(w) \/ DeleteEmployeeSalary(w, f)
      PROVE  payslip'[e] = payslip[e]
  <2>1. CASE ClaimPayment(w)
    BY <1>2, <2>1 DEF ClaimPayment, PayrollTypeOK
  <2>2. CASE DeletePayroll(w)
    BY <2>2 DEF DeletePayroll, NoPayslip
  <2>3. CASE DeleteEmployeeSalary(w, f)
    BY <1>2, <2>3 DEF DeleteEmployeeSalary, PayrollTypeOK, NoPayslip
  <2>4. QED
    BY <1>4, <2>1, <2>2, <2>3
<1>5. ASSUME NEW w \in Cashiers, NEW f \in Workers, NEW n \in Sums, EditEmployeeSalary(w, f, n)
      PROVE  Stands
  <2>1. f # e => payslip'[e] = payslip[e]
    BY <1>2, <1>5 DEF EditEmployeeSalary, PayrollTypeOK
  <2>2. f = e => e \in stale'
    BY <1>5 DEF EditEmployeeSalary
  <2>3. f = e => /\ payslip'[e].status = "PAID" /\ payslip'[e].income = payslip[e].income
                 /\ payslip'[e].penalty = payslip[e].penalty
    BY <1>2, <1>5 DEF EditEmployeeSalary, PayrollTypeOK, EmployeeSalary
  <2>4. QED
    BY <1>1, <2>1, <2>2, <2>3
<1>6. ASSUME NEW w \in Cashiers, NEW f \in Workers, HireAgain(w, f)
      PROVE  Stands
  <2>1. payslip'[e] = [payslip[e] EXCEPT !.status = "PAID"] \/ payslip'[e] = payslip[e]
    BY <1>2, <1>6 DEF HireAgain, PayrollTypeOK
  <2>2. QED
    BY <1>1, <1>2, <2>1 DEF EmployeeSalary
<1>7. ASSUME NEW w \in Cashiers, NEW a \in Advances, NEW n \in Sums \cup {0},
             ApproveAdvance(w, a, n)
      PROVE  Stands
  <2>1. n \in Nat /\ advance[a].status = "PENDING"
    BY <1>7, PayrollAssumption DEF ApproveAdvance
  <2>2. advance'[a].status = "APPROVED"
    BY <1>2, <1>7, <2>1, ApprovalRow
  <2>3. advance' # advance
    BY <2>1, <2>2
  <2>4. PICK f : f = advance[a].who
    OBVIOUS
  <2>5. f # e => payslip'[e] = payslip[e]
    BY <1>2, <1>7, <2>1, <2>4, ApprovalShape
  <2>6. f = e => /\ payslip'[e].status = "PAID" /\ payslip'[e].income = payslip[e].income
                 /\ payslip'[e].penalty = payslip[e].penalty
    <3>1. payslip'[f] =
            [status |-> payslip[f].status, gen |-> payslip[f].gen, income |-> payslip[f].income,
             penalty |-> payslip[f].penalty, adv |-> SumApprovedAdvances(f, advance'),
             net |-> ComputeNet(payslip[f].income, payslip[f].penalty,
                                SumApprovedAdvances(f, advance'))]
      BY <1>2, <1>7, <2>1, <2>4, ApprovalShape
    <3>2. QED
      BY <3>1
  <2>7. QED
    BY <1>1, <2>3, <2>5, <2>6
<1>8. ASSUME NEW w \in Cashiers,
             \/ RecalculationFails(w) \/ SaveRecord(w) \/ RemoveRecord(w)
             \/ SaveAdvanceRequest(w) \/ SaveAdjustment(w) \/ ReadEmployee(w)
             \/ \E f \in Workers :
                  \/ SaveRates(w, f) \/ CheckOutShift(w, f) \/ PayEmployeeSalary(w, f)
                  \/ CreateSalaryAdjustment(w, f) \/ LeaveStaff(w, f)
             \/ \E f \in Workers, r \in Records : CreatePayrollRecord(w, f, r)
             \/ \E f \in Workers, a \in Advances, n \in Sums :
                  CreateSalaryAdvanceRequest(w, f, a, n)
             \/ \E r \in Records : DeletePayrollRecord(w, r)
             \/ \E a \in Advances, s \in {"REJECTED", "CANCELLED"} : EndAdvance(w, a, s)
      PROVE  payslip' = payslip
  <2>1. /\ RecalculationFails(w) => payslip' = payslip
        /\ SaveRecord(w) => payslip' = payslip
        /\ RemoveRecord(w) => payslip' = payslip
    BY DEF RecalculationFails, SaveRecord, RemoveRecord
  <2>2. /\ SaveAdvanceRequest(w) => payslip' = payslip
        /\ SaveAdjustment(w) => payslip' = payslip
        /\ ReadEmployee(w) => payslip' = payslip
    BY DEF SaveAdvanceRequest, SaveAdjustment, ReadEmployee
  <2>3. \A f \in Workers : /\ SaveRates(w, f) => payslip' = payslip
                           /\ CheckOutShift(w, f) => payslip' = payslip
                           /\ PayEmployeeSalary(w, f) => payslip' = payslip
    BY DEF SaveRates, CheckOutShift, PayEmployeeSalary
  <2>4. \A f \in Workers : /\ CreateSalaryAdjustment(w, f) => payslip' = payslip
                           /\ LeaveStaff(w, f) => payslip' = payslip
    BY DEF CreateSalaryAdjustment, LeaveStaff
  <2>5. \A f, r, a, n : /\ CreatePayrollRecord(w, f, r) => payslip' = payslip
                        /\ CreateSalaryAdvanceRequest(w, f, a, n) => payslip' = payslip
                        /\ DeletePayrollRecord(w, r) => payslip' = payslip
                        /\ EndAdvance(w, a, n) => payslip' = payslip
    BY DEF CreatePayrollRecord, CreateSalaryAdvanceRequest, DeletePayrollRecord, EndAdvance
  <2>6. QED
    BY <1>8, <2>1, <2>2, <2>3, <2>4, <2>5, Zenon
<1>9. payslip' = payslip => Stands
  OBVIOUS
<1> HIDE DEF Stands
<1>10. Stands
  BY <1>1, <1>3, <1>4, <1>5, <1>6, <1>7, <1>8, <1>9, Zenon DEF PayrollNext
<1>11. QED
  BY <1>10 DEF Stands

\* Advances approved come to more only by an approval, and within the income.
LEMMA AdvancesFit ==
  ASSUME PayrollInd, PayrollNext, NEW e \in Workers,
         SumApprovedAdvances(e, advance') > SumApprovedAdvances(e, advance)
  PROVE  SumApprovedAdvances(e, advance') <= payslip[e].income \/ e \in stale
<1> DEFINE Fits == SumApprovedAdvances(e, advance') <= payslip[e].income \/ e \in stale
<1>1. PayrollTypeOK /\ RowsInHand /\ PayrollTypeOK'
  BY PayrollKeeps DEF PayrollInd
<1>2. SumApprovedAdvances(e, advance') \in Nat /\ SumApprovedAdvances(e, advance) \in Nat
  BY <1>1, ApprovedCounted DEF PayrollTypeOK
<1>3. ~(SumApprovedAdvances(e, advance') = SumApprovedAdvances(e, advance))
  BY <1>2
<1>4. ASSUME NEW w \in Cashiers PROVE ~SaveAdvanceRequest(w)
  <2>1. SUFFICES ASSUME SaveAdvanceRequest(w) PROVE FALSE
    OBVIOUS
  <2>2. \A a \in Advances :
          (advance[a].status = "APPROVED" /\ advance[a].who = e)
            \/ (advance'[a].status = "APPROVED" /\ advance'[a].who = e)
            => advance'[a] = advance[a]
    <3> DEFINE o == cashier[w]
    <3>1. /\ o.row \in Advances /\ advance[o.row] = NoAdvance
          /\ \/ advance' = [advance EXCEPT ![o.row] =
                              [status |-> "PENDING", who |-> o.who, asked |-> o.sum, approved |-> 0]]
             \/ advance' = advance
      BY <1>1, <2>1 DEF SaveAdvanceRequest, RowsInHand
    <3> HIDE DEF o
    <3>2. /\ \A a \in Advances : a # o.row => advance'[a] = advance[a]
          /\ advance'[o.row].status # "APPROVED" /\ advance[o.row].status # "APPROVED"
      BY <1>1, <3>1 DEF PayrollTypeOK, NoAdvance
    <3>3. QED
      BY <3>2
  <2>3. QED
    BY <1>3, <2>2, ApprovedSame
<1>5. ASSUME NEW w \in Cashiers, NEW a \in Advances, NEW s \in {"REJECTED", "CANCELLED"}
      PROVE  ~EndAdvance(w, a, s)
  <2>1. SUFFICES ASSUME EndAdvance(w, a, s) PROVE FALSE
    OBVIOUS
  <2>2. advance[a].status = "PENDING" /\ advance' = [advance EXCEPT ![a].status = s]
    BY <2>1 DEF EndAdvance
  <2>3. /\ \A b \in Advances : b # a => advance'[b] = advance[b]
        /\ advance'[a].status # "APPROVED"
    BY <1>1, <2>2 DEF PayrollTypeOK, SalaryAdvanceRequest
  <2>4. \A b \in Advances :
          (advance[b].status = "APPROVED" /\ advance[b].who = e)
            \/ (advance'[b].status = "APPROVED" /\ advance'[b].who = e)
            => advance'[b] = advance[b]
    BY <2>2, <2>3
  <2>5. QED
    BY <1>3, <2>4, ApprovedSame
<1>6. ASSUME NEW w \in Cashiers, NEW a \in Advances, NEW n \in Sums \cup {0},
             ApproveAdvance(w, a, n)
      PROVE  Fits
  <2>1. /\ n \in Nat /\ advance[a].status = "PENDING"
        /\ TotalAdvanced(advance[a].who, {a}) + n <= payslip[advance[a].who].net
    BY <1>6, PayrollAssumption DEF ApproveAdvance
  <2>2. /\ advance' \in [Advances -> SalaryAdvanceRequest]
        /\ advance'[a].who = advance[a].who /\ advance'[a].status = "APPROVED"
        /\ advance'[a].approved = n
        /\ \A b \in Advances : b # a => advance'[b] = advance[b]
    BY <1>1, <1>6, <2>1, ApprovalRow
  <2>3. CASE advance[a].who # e
    <3>1. \A b \in Advances :
            (advance[b].status = "APPROVED" /\ advance[b].who = e)
              \/ (advance'[b].status = "APPROVED" /\ advance'[b].who = e)
              => advance'[b] = advance[b]
      BY <2>1, <2>2, <2>3
    <3>2. QED
      BY <1>3, <3>1, ApprovedSame
  <2>4. CASE advance[a].who = e
    <3>0. PICK u : u = advance'
      OBVIOUS
    <3>1. /\ SumApprovedAdvances(e, u) <= TotalAdvanced(e, {a}) + n
          /\ TotalAdvanced(e, {a}) \in Nat
      <4>1. /\ u \in [Advances -> SalaryAdvanceRequest] /\ u[a].who = e
            /\ u[a].status = "APPROVED" /\ u[a].approved = n
            /\ \A b \in Advances : b # a => u[b] = advance[b]
        BY <2>2, <2>4, <3>0
      <4>2. QED
        BY <1>1, <2>1, <2>4, <4>1, ApprovalFits
    <3>2. e \notin stale => payslip[e].net <= payslip[e].income
      BY DEF PayrollInd, SlipsAreCurrent, SlipIsCurrent
    <3>3. payslip[e].net \in Nat /\ payslip[e].income \in Nat
      BY <1>1 DEF PayrollTypeOK, EmployeeSalary
    <3>4. TotalAdvanced(e, {a}) + n <= payslip[e].net
      BY <2>1, <2>4
    <3>5. QED
      BY <1>2, <2>1, <3>0, <3>1, <3>2, <3>3, <3>4
  <2>5. QED
    BY <2>3, <2>4
<1>7. ASSUME NEW w \in Cashiers,
             \/ Recompute(w) \/ RebuildStorePayrollForMonth(w) \/ RecalculationFails(w)
             \/ SaveRecord(w) \/ RemoveRecord(w) \/ ClaimPayment(w) \/ SaveAdjustment(w)
             \/ DeletePayroll(w) \/ ReadEmployee(w)
             \/ \E f \in Workers :
                  \/ SaveRates(w, f) \/ CheckOutShift(w, f) \/ PayEmployeeSalary(w, f)
                  \/ CreateSalaryAdjustment(w, f) \/ DeleteEmployeeSalary(w, f)
                  \/ LeaveStaff(w, f) \/ HireAgain(w, f)
             \/ \E f \in Workers, r \in Records : CreatePayrollRecord(w, f, r)
             \/ \E f \in Workers, n \in Sums : EditEmployeeSalary(w, f, n)
             \/ \E f \in Workers, a \in Advances, n \in Sums :
                  CreateSalaryAdvanceRequest(w, f, a, n)
             \/ \E r \in Records : DeletePayrollRecord(w, r)
      PROVE  advance' = advance
  <2>1. /\ Recompute(w) => advance' = advance
        /\ RebuildStorePayrollForMonth(w) => advance' = advance
        /\ RecalculationFails(w) => advance' = advance
    BY DEF Recompute, RebuildStorePayrollForMonth, RecalculationFails
  <2>2. /\ SaveRecord(w) => advance' = advance
        /\ RemoveRecord(w) => advance' = advance
        /\ ClaimPayment(w) => advance' = advance
    BY DEF SaveRecord, RemoveRecord, ClaimPayment
  <2>3. /\ SaveAdjustment(w) => advance' = advance
        /\ DeletePayroll(w) => advance' = advance
        /\ ReadEmployee(w) => advance' = advance
    BY DEF SaveAdjustment, DeletePayroll, ReadEmployee
  <2>4. \A f \in Workers : /\ SaveRates(w, f) => advance' = advance
                           /\ CheckOutShift(w, f) => advance' = advance
                           /\ PayEmployeeSalary(w, f) => advance' = advance
                           /\ CreateSalaryAdjustment(w, f) => advance' = advance
    BY DEF SaveRates, CheckOutShift, PayEmployeeSalary, CreateSalaryAdjustment
  <2>5. \A f \in Workers : /\ DeleteEmployeeSalary(w, f) => advance' = advance
                           /\ LeaveStaff(w, f) => advance' = advance
                           /\ HireAgain(w, f) => advance' = advance
    BY DEF DeleteEmployeeSalary, LeaveStaff, HireAgain
  <2>6. \A f, r, a, n : /\ CreatePayrollRecord(w, f, r) => advance' = advance
                        /\ EditEmployeeSalary(w, f, n) => advance' = advance
                        /\ CreateSalaryAdvanceRequest(w, f, a, n) => advance' = advance
                        /\ DeletePayrollRecord(w, r) => advance' = advance
    BY DEF CreatePayrollRecord, EditEmployeeSalary, CreateSalaryAdvanceRequest,
       DeletePayrollRecord
  <2>7. QED
    BY <1>7, <2>1, <2>2, <2>3, <2>4, <2>5, <2>6, Zenon
<1>8. advance' # advance
  BY <1>3
<1> HIDE DEF Fits
<1>9. Fits
  BY <1>4, <1>5, <1>6, <1>7, <1>8, Zenon DEF PayrollNext
<1>10. QED
  BY <1>9 DEF Fits

(* The payslips of a month keep what they promise, for any store, any      *)
(* number of advances and requests served at once.                         *)
THEOREM PayrollKept == PayrollSpec => PayrollPromise
<1>1. PayrollInit => PayrollInd
  BY PayrollStarts
<1>2. PayrollInd /\ [PayrollNext]_payrollVars => PayrollInd'
  BY PayrollKeeps, PayrollRests
<1>3. PayrollSpec => []PayrollInd
  BY <1>1, <1>2, PTL DEF PayrollSpec
<1>4. PayrollInd => PayrollInd /\ PaidOnce /\ SettledSlipsAreCurrent
  BY PayrollHolds
<1>5. PayrollInd /\ [PayrollNext]_payrollVars =>
        [\A e \in Workers :
           payslip[e].status = "PAID" /\ payslip'[e].status # "NONE"
             => /\ payslip'[e].status = "PAID"
                /\ payslip'[e].income = payslip[e].income
                /\ payslip'[e].penalty = payslip[e].penalty
                /\ payslip'[e].net = payslip[e].net
                   \/ payslip'[e].adv # payslip[e].adv \/ e \in stale'
                   \/ advance' # advance]_payrollVars
  BY FinalFiguresKept
<1>6. PayrollInd /\ [PayrollNext]_payrollVars =>
        [\A e \in Workers :
           SumApprovedAdvances(e, advance') > SumApprovedAdvances(e, advance)
             => SumApprovedAdvances(e, advance') <= payslip[e].income \/ e \in stale]_payrollVars
  BY AdvancesFit
<1>7. PayrollSpec => [](PayrollInd /\ PaidOnce /\ SettledSlipsAreCurrent)
  BY <1>3, <1>4, PTL
<1>8. PayrollSpec => FinalFiguresStand
  BY <1>3, <1>5, PTL DEF PayrollSpec, FinalFiguresStand
<1>9. PayrollSpec => AdvancesWithinIncome
  BY <1>3, <1>6, PTL DEF PayrollSpec, AdvancesWithinIncome
<1>10. QED
  BY <1>7, <1>8, <1>9 DEF PayrollPromise

-----------------------------------------------------------------------------
(* The versions of a fine.                                                 *)

RuleTerms == [price : Prices, active : BOOLEAN]

\* A smaller finite set fits into a larger one without two in one place.
LEMMA FitsInto ==
  ASSUME NEW S, NEW T, IsFiniteSet(S), IsFiniteSet(T), Cardinality(S) <= Cardinality(T)
  PROVE  \E f \in [S -> T] : \A u, v \in S : f[u] = f[v] => u = v
<1>1. PICK g : g \in Bijection(1 .. Cardinality(S), S)
  BY FS_CardinalityType DEF ExistsBijection
<1>2. PICK h : h \in Bijection(1 .. Cardinality(T), T)
  BY FS_CardinalityType DEF ExistsBijection
<1>3. Cardinality(S) \in Nat /\ Cardinality(T) \in Nat
  BY FS_CardinalityType
<1> DEFINE nr(s) == CHOOSE i \in 1 .. Cardinality(S) : g[i] = s
<1>4. \A s \in S : nr(s) \in 1 .. Cardinality(S) /\ g[nr(s)] = s
  BY <1>1 DEF Bijection, Surjection
<1>5. \A i \in 1 .. Cardinality(S) : i \in 1 .. Cardinality(T)
  BY <1>3
<1>6. \A s \in S : h[nr(s)] \in T
  BY <1>2, <1>4, <1>5 DEF Bijection, Injection
<1>7. \A i, j \in 1 .. Cardinality(T) : h[i] = h[j] => i = j
  BY <1>2 DEF Bijection, Injection, IsInjective
<1>8. \A u, v \in S : h[nr(u)] = h[nr(v)] => u = v
  BY <1>4, <1>5, <1>7
<1> HIDE DEF nr
<1>9. [s \in S |-> h[nr(s)]] \in [S -> T]
  BY <1>6
<1> QED
  BY <1>8, <1>9

\* There is a least one among rows that are there.
LEMMA LeastRule ==
  ASSUME NEW S \in SUBSET Versions, S # {}
  PROVE  Min(S) \in S
<1>1. S \subseteq Nat
  BY PayrollRulesAssumption
<1>2. PICK x \in S : \A y \in S : <<y, x>> \notin OpToRel(<, Nat)
  BY <1>1, NatLessThanWellFounded, WFMin
<1>3. ASSUME NEW y \in S PROVE x <= y
  <2>1. x \in Nat /\ y \in Nat
    BY <1>1
  <2>2. ~(y < x)
    BY <1>2, <2>1 DEF OpToRel
  <2> QED
    BY <2>1, <2>2
<1> QED
  BY <1>3 DEF Min

\* What a save comes to: the rows named or matched (W) with their terms (w), a
\* row that is new (N, one at most) with its terms (n), and the successors.
Superseded(W, w) == {v \in W : ~Rewrites(v, w[v])}
SavedRow(W, w, N, n, next, v) ==
  IF v \in Superseded(W, w) THEN Close(version[v])
  ELSE IF v \in W THEN [version[v] EXCEPT !.price = w[v].price, !.active = w[v].active]
  ELSE IF \E u \in Superseded(W, w) : next[u] = v
    THEN LET u == CHOOSE u \in Superseded(W, w) : next[u] = v IN NextVersion(u, w[u])
  ELSE IF v \in N
    THEN [state |-> "LIVE", lineage |-> v, from |-> day, to |-> 0,
          price |-> n.price, active |-> n.active]
  ELSE IF v \in LiveRules THEN Retire(version[v]) ELSE version[v]
SavedAs(W, w, N, n) ==
  /\ W \subseteq LiveRules /\ w \in [W -> RuleTerms] /\ N \subseteq NewRules
  /\ \A x, y \in W : w[x].active /\ w[y].active => x = y
  /\ \A x, y \in N : x = y
  /\ N # {} => n \in RuleTerms /\ (n.active => \A x \in W : ~w[x].active)
  /\ \E next \in [Superseded(W, w) -> NewRules \ N] :
       /\ \A u, v \in Superseded(W, w) : next[u] = next[v] => u = v
       /\ version' = [v \in Versions |-> SavedRow(W, w, N, n, next, v)]

\* One of finitely many named rules at most is active, none if the added one is.
LEMMA OneOfThose ==
  ASSUME NEW K, IsFiniteSet(K), NEW kept \in [K -> RuleTerms], NEW n \in {0, 1},
         Cardinality({v \in K : kept[v].active}) + n <= 1
  PROVE  /\ \A u, v \in K : kept[u].active /\ kept[v].active => u = v
         /\ n = 1 => \A v \in K : ~kept[v].active
<1> DEFINE A == {v \in K : kept[v].active}
<1>1. IsFiniteSet(A) /\ Cardinality(A) \in Nat
  BY FS_Subset, FS_CardinalityType
<1>2. Cardinality(A) = 0 \/ (Cardinality(A) = 1 /\ n = 0)
  BY <1>1
<1>3. CASE Cardinality(A) = 0
  <2>1. A = {}
    BY <1>1, <1>3, FS_EmptySet
  <2> QED
    BY <2>1
<1>4. CASE Cardinality(A) = 1 /\ n = 0
  <2>1. \E x : A = {x}
    BY <1>1, <1>4, FS_Singleton
  <2> QED
    BY <2>1, <1>4
<1> QED
  BY <1>2, <1>3, <1>4

\* A save of the rules is such a save: the choices it makes exist.
LEMMA RulesSaved ==
  ASSUME PayrollRulesTypeOK, NEW K \in SUBSET LiveRules, NEW kept \in [K -> RuleTerms],
         NEW added \in {<<>>} \cup {<<n>> : n \in RuleTerms},
         SyncPayrollRulesV2(kept, added)
  PROVE  \E W, w, N, n : SavedAs(W, w, N, n)
<1> DEFINE spare == LiveRules \ DOMAIN kept
           matched == IF added = <<>> \/ spare = {} THEN {} ELSE {Min(spare)}
           wanted == [v \in DOMAIN kept \cup matched |->
                        IF v \in DOMAIN kept THEN kept[v] ELSE added[1]]
           moved == {v \in DOMAIN wanted : ~Rewrites(v, wanted[v])}
           fresh == IF added # <<>> /\ matched = {} THEN 1 ELSE 0
           next == CHOOSE f \in [moved -> NewRules] :
                     \A u, v \in moved : f[u] = f[v] => u = v
           new == CHOOSE v \in NewRules : v \notin {next[u] : u \in moved}
           W == K \cup matched
           N == IF fresh = 1 THEN {new} ELSE {}
           n == added[1]
           first == IF added # <<>> /\ added[1].active THEN 1 ELSE 0
<1>1. /\ Cardinality({v \in DOMAIN kept : kept[v].active}) + first <= 1
      /\ Cardinality(moved) + fresh <= Cardinality(NewRules)
  BY DEF SyncPayrollRulesV2
<1>2. version' = [v \in Versions |->
       IF v \in moved THEN Close(version[v])
       ELSE IF v \in DOMAIN wanted
         THEN [version[v] EXCEPT !.price = wanted[v].price, !.active = wanted[v].active]
       ELSE IF \E u \in moved : next[u] = v
         THEN LET u == CHOOSE u \in moved : next[u] = v IN NextVersion(u, wanted[u])
       ELSE IF fresh = 1 /\ v = new
         THEN [state |-> "LIVE", lineage |-> v, from |-> day, to |-> 0,
               price |-> added[1].price, active |-> added[1].active]
       ELSE IF v \in spare THEN Retire(version[v]) ELSE version[v]]
  BY DEF SyncPayrollRulesV2
<1>3. DOMAIN kept = K /\ DOMAIN wanted = W
  OBVIOUS
<1>4. /\ IsFiniteSet(Versions) /\ IsFiniteSet(LiveRules) /\ IsFiniteSet(NewRules) /\ IsFiniteSet(K)
      /\ LiveRules \subseteq Versions /\ NewRules \subseteq Versions
  <2>1. IsFiniteSet(Versions)
    BY PayrollRulesAssumption
  <2>2. LiveRules \subseteq Versions /\ NewRules \subseteq Versions
    BY DEF LiveRules, NewRules
  <2>3. IsFiniteSet(LiveRules) /\ IsFiniteSet(NewRules)
    BY <2>1, <2>2, FS_Subset
  <2>4. IsFiniteSet(K)
    BY <2>3, FS_Subset
  <2> QED
    BY <2>1, <2>2, <2>3, <2>4
<1>5. matched \subseteq spare /\ \A x, y \in matched : x = y
  <2>1. CASE added = <<>> \/ spare = {}
    BY <2>1
  <2>2. CASE ~(added = <<>> \/ spare = {})
    <3>1. Min(spare) \in spare
      BY <2>2, <1>4, LeastRule
    <3> QED
      BY <2>2, <3>1
  <2> QED
    BY <2>1, <2>2
<1>6. added # <<>> => added[1] \in RuleTerms
  OBVIOUS
<1>7. W \subseteq LiveRules
  BY <1>3, <1>5
<1>8. wanted \in [W -> RuleTerms]
  <2>1. ASSUME NEW v \in W PROVE wanted[v] \in RuleTerms
    <3>1. CASE v \in K
      BY <3>1, <1>3
    <3>2. CASE v \notin K
      <4>1. v \in matched /\ added # <<>>
        BY <3>2
      <4> QED
        BY <4>1, <3>2, <1>3, <1>6
    <3> QED
      BY <3>1, <3>2
  <2> QED
    BY <2>1, <1>3
<1>9. /\ \A x, y \in K : kept[x].active /\ kept[y].active => x = y
      /\ first = 1 => \A x \in K : ~kept[x].active
  <2>1. first \in {0, 1}
    OBVIOUS
  <2>2. Cardinality({v \in K : kept[v].active}) + first <= 1
    BY <1>1, <1>3
  <2> HIDE DEF first
  <2> QED
    BY <2>1, <2>2, <1>4, OneOfThose
<1>10. /\ \A x \in K : wanted[x] = kept[x]
       /\ \A x \in matched : wanted[x] = added[1] /\ added # <<>>
  BY <1>3, <1>5
<1>11. \A x, y \in W : wanted[x].active /\ wanted[y].active => x = y
  <2> SUFFICES ASSUME NEW x \in W, NEW y \in W, wanted[x].active, wanted[y].active, x # y
               PROVE  FALSE
    OBVIOUS
  <2>1. CASE x \in K /\ y \in K
    BY <2>1, <1>9, <1>10
  <2>2. CASE x \in matched /\ y \in matched
    BY <2>2, <1>5
  <2>3. CASE x \in K /\ y \in matched
    BY <2>3, <1>9, <1>10
  <2>4. CASE x \in matched /\ y \in K
    BY <2>4, <1>9, <1>10
  <2> QED
    BY <2>1, <2>2, <2>3, <2>4
<1>12. fresh = 1 => added # <<>> /\ matched = {} /\ n \in RuleTerms /\ W = K
  BY <1>6
<1>13. fresh = 1 /\ n.active => \A x \in W : ~wanted[x].active
  BY <1>12, <1>9, <1>10
<1>14. moved = Superseded(W, wanted) /\ IsFiniteSet(moved)
  <2>1. moved = Superseded(W, wanted)
    BY <1>3 DEF Superseded
  <2>2. moved \subseteq LiveRules
    BY <1>3, <1>7
  <2> QED
    BY <2>1, <2>2, <1>4, FS_Subset
<1> HIDE DEF wanted, matched, spare
<1>15. /\ next \in [moved -> NewRules]
       /\ \A u, v \in moved : next[u] = next[v] => u = v
       /\ fresh = 1 => new \in NewRules /\ new \notin {next[u] : u \in moved}
  <2>1. /\ Cardinality(moved) \in Nat /\ Cardinality(NewRules) \in Nat /\ fresh \in {0, 1}
    BY <1>4, <1>14, FS_CardinalityType
  <2>2. Cardinality(moved) <= Cardinality(NewRules)
    BY <1>1, <2>1
  <2>3. \E f \in [moved -> NewRules] : \A u, v \in moved : f[u] = f[v] => u = v
    BY <2>2, <1>4, <1>14, FitsInto
  <2>4. next \in [moved -> NewRules] /\ \A u, v \in moved : next[u] = next[v] => u = v
    BY <2>3
  <2> HIDE DEF next
  <2>5. CASE fresh = 1
    <3> DEFINE I == {next[u] : u \in moved}
    <3>1. IsFiniteSet(I) /\ Cardinality(I) <= Cardinality(moved) /\ Cardinality(I) \in Nat
      <4>1. next \in Surjection(moved, I)
        BY <2>4 DEF Surjection
      <4>2. IsFiniteSet(I) /\ Cardinality(I) <= Cardinality(moved)
        BY <4>1, <1>14, FS_Surjection
      <4> QED
        BY <4>2, FS_CardinalityType
    <3>2. I # NewRules
      <4>1. Cardinality(moved) + 1 <= Cardinality(NewRules)
        BY <1>1, <2>5
      <4> HIDE DEF I, moved
      <4> QED
        BY <4>1, <3>1, <2>1
    <3>3. I \subseteq NewRules
      BY <2>4
    <3>4. \E v \in NewRules : v \notin I
      BY <3>2, <3>3
    <3> QED
      BY <2>4, <3>4
  <2>6. CASE fresh # 1
    BY <2>6, <2>4
  <2> QED
    BY <2>5, <2>6
<1> HIDE DEF next, new, fresh
<1>16. SavedAs(W, wanted, N, n)
  <2>1. N \subseteq NewRules /\ (\A x, y \in N : x = y) /\ (N # {} => fresh = 1)
    BY <1>15
  <2>2. next \in [Superseded(W, wanted) -> NewRules \ N]
    BY <1>14, <1>15
  <2>3. version' = [v \in Versions |-> SavedRow(W, wanted, N, n, next, v)]
    <3>1. ASSUME NEW v \in Versions
          PROVE  version'[v] = SavedRow(W, wanted, N, n, next, v)
      <4>1. fresh = 1 /\ v = new <=> v \in N
        OBVIOUS
      <4>2. v \in Versions /\ v \notin W => (v \in spare <=> v \in LiveRules)
        BY DEF spare
      <4> QED
        BY <1>2, <1>3, <1>14, <4>1, <4>2 DEF SavedRow
    <3> QED
      BY <3>1, <1>2
  <2>4. N # {} => n \in RuleTerms /\ (n.active => \A x \in W : ~wanted[x].active)
    BY <2>1, <1>12, <1>13 DEF fresh
  <2>5. \A u, v \in Superseded(W, wanted) : next[u] = next[v] => u = v
    BY <1>14, <1>15
  <2> HIDE DEF W, N, n
  <2> QED
    BY <1>7, <1>8, <1>11, <2>1, <2>2, <2>3, <2>4, <2>5 DEF SavedAs
<1> QED
  BY <1>16

\* What becomes of a row in a save.
Kept(v) ==
  /\ version[v].state = "LIVE"
  /\ \E w \in RuleTerms :
       /\ version'[v] = [version[v] EXCEPT !.price = w.price, !.active = w.active]
       /\ Rewrites(v, w)
Closed(v) == version[v].state = "LIVE" /\ version[v].from < day /\ version'[v] = Close(version[v])
Dropped(v) ==
  /\ version[v].state = "LIVE" /\ version[v].from >= day
  /\ version'[v] = [version[v] EXCEPT !.state = "DELETED"]
Born(v) ==
  /\ version[v] = NoRule
  /\ \E w \in RuleTerms, l \in Versions :
       version'[v] = [state |-> "LIVE", lineage |-> l, from |-> day, to |-> 0,
                      price |-> w.price, active |-> w.active]
Untouched(v) == version[v].state # "LIVE" /\ version'[v] = version[v]
SaveStep ==
  /\ \A v \in Versions : Kept(v) \/ Closed(v) \/ Dropped(v) \/ Born(v) \/ Untouched(v)
  /\ OneActiveRule'
  /\ version' = [v \in Versions |-> version'[v]]

\* Days and prices are numbers.
LEMMA RuleNumbers ==
  ASSUME PayrollRulesTypeOK
  PROVE  /\ LastDay \in Nat /\ day \in 1 .. LastDay /\ 0 \notin Versions
         /\ \A v \in Versions :
              /\ version[v].from \in 0 .. LastDay /\ version[v].to \in 0 .. LastDay
              /\ version[v].active \in BOOLEAN
  BY PayrollRulesAssumption DEF PayrollRulesTypeOK, StorePayrollRule

\* Each row of a save is kept, closed, dropped, born or untouched.
LEMMA SavedRows ==
  ASSUME PayrollRulesInd, NEW W, NEW w, NEW N, NEW n, SavedAs(W, w, N, n)
  PROVE  SaveStep
<1> USE DEF PayrollRulesInd
<1> DEFINE M == Superseded(W, w)
<1>1. PICK next \in [M -> NewRules \ N] :
       /\ \A u, v \in M : next[u] = next[v] => u = v
       /\ version' = [v \in Versions |-> SavedRow(W, w, N, n, next, v)]
  BY DEF SavedAs
<1>2. /\ W \subseteq LiveRules /\ w \in [W -> RuleTerms] /\ N \subseteq NewRules
      /\ M \subseteq W /\ (N # {} => n \in RuleTerms)
      /\ LiveRules \subseteq Versions /\ NewRules \subseteq Versions
  BY DEF SavedAs, Superseded, LiveRules, NewRules
<1>3. /\ \A v \in LiveRules : v \in Versions /\ version[v].state = "LIVE"
      /\ \A v \in NewRules : version[v] = NoRule /\ version[v].state = "NONE"
      /\ NewRules \cap LiveRules = {}
  BY DEF LiveRules, NewRules, NoRule
<1>4. \A v \in M : v \in W /\ ~Rewrites(v, w[v])
  BY DEF Superseded
<1>5. \A v \in W \ M : Rewrites(v, w[v])
  BY DEF Superseded
<1>6. \A u \in M : /\ next[u] \in NewRules /\ next[u] \notin N
                   /\ (CHOOSE x \in M : next[x] = next[u]) = u
  BY <1>1
<1>7. ASSUME NEW v \in Versions
      PROVE  Kept(v) \/ Closed(v) \/ Dropped(v) \/ Born(v) \/ Untouched(v)
  <2>1. version'[v] = SavedRow(W, w, N, n, next, v)
    BY <1>1
  <2>2. CASE v \in M
    <3>1. version'[v] = Close(version[v])
      BY <2>1, <2>2 DEF SavedRow
    <3>2. version[v].from < day
      BY <1>4, <2>2, RuleNumbers DEF Rewrites
    <3> QED
      BY <3>1, <3>2, <2>2, <1>2, <1>3 DEF Closed
  <2>3. CASE v \in W \ M
    <3>1. version'[v] = [version[v] EXCEPT !.price = w[v].price, !.active = w[v].active]
      BY <2>1, <2>3 DEF SavedRow
    <3>2. w[v] \in RuleTerms
      BY <1>2, <2>3
    <3> QED
      BY <3>1, <3>2, <2>3, <1>2, <1>3, <1>5 DEF Kept
  <2>4. CASE v \notin W /\ \E u \in M : next[u] = v
    <3>1. PICK u \in M : next[u] = v
      BY <2>4
    <3>2. version'[v] = NextVersion(u, w[u])
      <4>1. (CHOOSE x \in M : next[x] = v) = u
        BY <3>1, <1>6
      <4>2. v \notin M /\ v \notin W
        BY <2>4, <1>4
      <4> QED
        BY <2>1, <2>4, <4>1, <4>2, Zenon DEF SavedRow
    <3>3. version[v] = NoRule /\ version[u].lineage \in Versions /\ w[u] \in RuleTerms
      BY <3>1, <1>2, <1>3, <1>6 DEF VersionsInTime
    <3> QED
      BY <3>2, <3>3 DEF Born, NextVersion
  <2>5. CASE v \notin W /\ (~\E u \in M : next[u] = v) /\ v \in N
    <3>1. version'[v] = [state |-> "LIVE", lineage |-> v, from |-> day, to |-> 0,
                         price |-> n.price, active |-> n.active]
      BY <2>1, <2>5, <1>2 DEF SavedRow
    <3> QED
      BY <3>1, <2>5, <1>2, <1>3 DEF Born
  <2>6. CASE v \notin W /\ (~\E u \in M : next[u] = v) /\ v \notin N /\ v \in LiveRules
    <3>1. version'[v] = Retire(version[v])
      BY <2>1, <2>6, <1>2 DEF SavedRow
    <3>2. CASE version[v].from < day
      BY <3>1, <3>2, <2>6, <1>3 DEF Retire, Closed
    <3>3. CASE ~(version[v].from < day)
      BY <3>1, <3>3, <2>6, <1>3, RuleNumbers DEF Retire, Dropped
    <3> QED
      BY <3>2, <3>3
  <2>7. CASE v \notin W /\ (~\E u \in M : next[u] = v) /\ v \notin N /\ v \notin LiveRules
    <3>1. version'[v] = version[v]
      BY <2>1, <2>7, <1>2 DEF SavedRow
    <3> QED
      BY <3>1, <2>7 DEF Untouched, LiveRules
  <2> QED
    BY <2>2, <2>3, <2>4, <2>5, <2>6, <2>7
<1>8. ASSUME NEW v \in Versions, version'[v].state = "LIVE", version'[v].active
      PROVE  \/ v \in W \ M /\ w[v].active
             \/ \E u \in M : next[u] = v /\ w[u].active
             \/ v \in N /\ n.active
  <2>1. version'[v] = SavedRow(W, w, N, n, next, v)
    BY <1>1
  <2>2. version[v] \in StorePayrollRule
    BY DEF PayrollRulesTypeOK
  <2>3. v \notin M
    <3> SUFFICES ASSUME v \in M PROVE FALSE
      OBVIOUS
    <3>1. version'[v].state = "DELETED"
      BY <2>1, <2>2 DEF SavedRow, Close, StorePayrollRule
    <3> QED
      BY <3>1, <1>8
  <2>4. CASE v \in W
    <3>1. version'[v].active = w[v].active
      BY <2>1, <2>2, <2>3, <2>4 DEF SavedRow, StorePayrollRule
    <3> QED
      BY <3>1, <2>3, <2>4, <1>8
  <2>5. CASE v \notin W /\ \E u \in M : next[u] = v
    <3>1. PICK u \in M : next[u] = v
      BY <2>5
    <3>2. version'[v] = NextVersion(u, w[u])
      <4>1. (CHOOSE x \in M : next[x] = v) = u
        BY <3>1, <1>6
      <4>2. v \notin M /\ v \notin W
        BY <2>5, <1>4
      <4> QED
        BY <2>1, <2>5, <4>1, <4>2, Zenon DEF SavedRow
    <3> QED
      BY <3>1, <3>2, <1>8 DEF NextVersion
  <2>6. CASE v \notin W /\ (~\E u \in M : next[u] = v) /\ v \in N
    <3>1. version'[v].active = n.active
      BY <2>1, <2>6, <1>2 DEF SavedRow
    <3> QED
      BY <3>1, <2>6, <1>8
  <2>7. CASE v \notin W /\ (~\E u \in M : next[u] = v) /\ v \notin N
    <3>1. CASE v \in LiveRules
      <4>1. version'[v] = Retire(version[v])
        BY <2>1, <2>7, <3>1, <1>2 DEF SavedRow
      <4>2. version'[v].state = "DELETED"
        BY <4>1, <2>2 DEF Retire, Close, StorePayrollRule
      <4> QED
        BY <4>2, <1>8
    <3>2. CASE v \notin LiveRules
      BY <2>1, <2>7, <3>2, <1>2, <1>8 DEF SavedRow, LiveRules
    <3> QED
      BY <3>1, <3>2
  <2> QED
    BY <2>4, <2>5, <2>6, <2>7
<1>9. ASSUME NEW x \in Versions, NEW y \in Versions,
             version'[x].state = "LIVE", version'[x].active,
             version'[y].state = "LIVE", version'[y].active
      PROVE  x = y
  <2>1. /\ \A u, v \in W : w[u].active /\ w[v].active => u = v
        /\ \A u, v \in N : u = v
        /\ N # {} /\ n.active => \A u \in W : ~w[u].active
    BY DEF SavedAs
  <2>2. \/ x \in W \ M /\ w[x].active
        \/ \E u \in M : next[u] = x /\ w[u].active
        \/ x \in N /\ n.active
    BY <1>8, <1>9
  <2>3. \/ y \in W \ M /\ w[y].active
        \/ \E u \in M : next[u] = y /\ w[u].active
        \/ y \in N /\ n.active
    BY <1>8, <1>9
  <2> QED
    BY <2>1, <2>2, <2>3, <1>2
<1>10. OneActiveRule'
  BY <1>9 DEF OneActiveRule, LiveRules
<1> QED
  BY <1>1, <1>7, <1>10 DEF SaveStep

\* The rows of a save keep their shape, and no version begins after today.
LEMMA SaveKeepsRows ==
  ASSUME PayrollRulesInd, SaveStep, UNCHANGED <<late, waiver, day>>, saves' \in 0 .. MaxSaves
  PROVE  PayrollRulesTypeOK' /\ VersionsInTime'
<1>1. PayrollRulesTypeOK /\ VersionsInTime
  BY DEF PayrollRulesInd
<1>2. ASSUME NEW v \in Versions
      PROVE  /\ version'[v] \in StorePayrollRule
             /\ version'[v].state = "NONE" => version'[v] = NoRule
             /\ version'[v].state # "NONE" =>
                  /\ version'[v].lineage \in Versions
                  /\ version'[v].from \in 1 .. day /\ version'[v].to <= day
             /\ version'[v].state = "LIVE" => version'[v].to = 0
  <2>1. Kept(v) \/ Closed(v) \/ Dropped(v) \/ Born(v) \/ Untouched(v)
    BY DEF SaveStep
  <2>2. /\ version[v] \in StorePayrollRule /\ LastDay \in Nat /\ day \in 1 .. LastDay
        /\ version[v].state = "NONE" => version[v] = NoRule
        /\ version[v].state # "NONE" =>
             /\ version[v].lineage \in Versions
             /\ version[v].from \in 1 .. day /\ version[v].to <= day
        /\ version[v].state = "LIVE" => version[v].to = 0
    BY <1>1, RuleNumbers DEF PayrollRulesTypeOK, VersionsInTime
  <2>3. CASE Kept(v)
    BY <2>2, <2>3 DEF Kept, StorePayrollRule, RuleTerms
  <2>4. CASE Closed(v)
    <3>1. version'[v] = [version[v] EXCEPT !.state = "DELETED", !.to = day]
          /\ version[v].state = "LIVE"
      BY <2>4 DEF Closed, Close
    <3>2. day \in 0 .. LastDay
      BY <2>2
    <3>3. /\ version'[v] \in StorePayrollRule /\ version'[v].state = "DELETED"
          /\ version'[v].lineage = version[v].lineage
          /\ version'[v].from = version[v].from /\ version'[v].to = day
      BY <2>2, <3>1, <3>2 DEF StorePayrollRule
    <3> QED
      BY <2>2, <3>1, <3>3
  <2>5. CASE Dropped(v)
    BY <2>2, <2>5 DEF Dropped, StorePayrollRule
  <2>6. CASE Born(v)
    BY <2>2, <2>6 DEF Born, StorePayrollRule, RuleTerms
  <2>7. CASE Untouched(v)
    BY <2>2, <2>7 DEF Untouched
  <2> QED
    BY <2>1, <2>3, <2>4, <2>5, <2>6, <2>7
<1>3. version' \in [Versions -> StorePayrollRule]
  <2>1. version' = [v \in Versions |-> version'[v]]
    BY DEF SaveStep
  <2> QED
    BY <2>1, <1>2
<1>4. PayrollRulesTypeOK'
  BY <1>1, <1>3 DEF PayrollRulesTypeOK
<1> QED
  BY <1>2, <1>4 DEF VersionsInTime

\* A version that still counts after a save counted before, for no fewer days,
\* or is the live one and begins today; a closed one ends today at the latest.
LEMMA CountedAfterSave ==
  ASSUME PayrollRulesInd, SaveStep, day' = day, NEW v \in LoadPayrollRulesForMonth'
  PROVE  /\ v \in Versions
         /\ \/ v \in LoadPayrollRulesForMonth /\ DaysOf(v)' \subseteq DaysOf(v)
            \/ version'[v].state = "LIVE" /\ version'[v].active /\ version'[v].from = day
         /\ \/ version'[v].state = "LIVE" /\ version'[v].active
            \/ \A d \in DaysOf(v)' : d < day
<1>1. PayrollRulesTypeOK /\ VersionsInTime
  BY DEF PayrollRulesInd
<1>2. /\ v \in Versions /\ version'[v].state # "NONE" /\ version'[v].active
      /\ version'[v].state = "LIVE" \/ version'[v].to > 1
  BY DEF LoadPayrollRulesForMonth
<1>3. Kept(v) \/ Closed(v) \/ Dropped(v) \/ Born(v) \/ Untouched(v)
  BY <1>2 DEF SaveStep
<1>4. /\ version[v] \in StorePayrollRule /\ LastDay \in Nat /\ day \in 1 .. LastDay
      /\ version[v].state # "NONE" => version[v].from \in 1 .. day /\ version[v].to <= day
      /\ version[v].state = "LIVE" => version[v].to = 0
  BY <1>1, <1>2, RuleNumbers DEF PayrollRulesTypeOK, VersionsInTime
<1>5. CASE Kept(v)
  <2>1. PICK w \in RuleTerms :
          /\ version'[v] = [version[v] EXCEPT !.price = w.price, !.active = w.active]
          /\ Rewrites(v, w)
    BY <1>5 DEF Kept
  <2>2. /\ version[v].state = "LIVE" /\ version'[v].state = "LIVE" /\ version'[v].active = w.active
        /\ version'[v].from = version[v].from /\ version'[v].to = version[v].to
    BY <1>4, <1>5, <2>1 DEF Kept, StorePayrollRule
  <2>3. DaysOf(v)' = DaysOf(v)
    BY <2>2 DEF DaysOf
  <2>4. CASE version[v].from >= day
    BY <1>2, <1>4, <2>2, <2>4
  <2>5. CASE version[v].active = w.active
    BY <1>2, <2>2, <2>3, <2>5 DEF LoadPayrollRulesForMonth
  <2> QED
    BY <2>1, <2>4, <2>5 DEF Rewrites, PricingChanged
<1>6. CASE Closed(v)
  <2>1. /\ version[v].state = "LIVE" /\ version'[v].active = version[v].active
        /\ version'[v].from = version[v].from /\ version[v].to = 0 /\ version'[v].to = day
    BY <1>4, <1>6 DEF Closed, Close, StorePayrollRule
  <2>2. v \in LoadPayrollRulesForMonth
    BY <1>2, <2>1 DEF LoadPayrollRulesForMonth
  <2>3. DaysOf(v)' \subseteq DaysOf(v) /\ \A d \in DaysOf(v)' : d < day
    BY <1>4, <2>1 DEF DaysOf
  <2> QED
    BY <1>2, <2>2, <2>3
<1>7. CASE Dropped(v)
  <2>1. version'[v].state = "DELETED" /\ version'[v].to = 0
    BY <1>4, <1>7 DEF Dropped, StorePayrollRule
  <2> QED
    BY <1>2, <2>1
<1>8. CASE Born(v)
  BY <1>2, <1>8 DEF Born
<1>9. CASE Untouched(v)
  <2>1. version'[v] = version[v] /\ version[v].state # "LIVE" /\ version[v].to > 1
    BY <1>2, <1>9 DEF Untouched
  <2>2. v \in LoadPayrollRulesForMonth /\ DaysOf(v)' = DaysOf(v)
    BY <1>2, <2>1 DEF LoadPayrollRulesForMonth, DaysOf
  <2>3. \A d \in DaysOf(v) : d < version[v].to
    BY <2>1, <1>4 DEF DaysOf
  <2> QED
    BY <1>2, <1>4, <2>1, <2>2, <2>3 DEF DaysOf, StorePayrollRule
<1> QED
  BY <1>3, <1>5, <1>6, <1>7, <1>8, <1>9

\* Versions that counted were apart; a new one begins when the others have ended.
LEMMA SaveKeepsApart ==
  ASSUME PayrollRulesInd, SaveStep, day' = day
  PROVE  PeriodsApart'
<1> SUFFICES ASSUME NEW u \in LoadPayrollRulesForMonth', NEW v \in LoadPayrollRulesForMonth',
                    NEW d, d \in DaysOf(u)', d \in DaysOf(v)', u # v
             PROVE  FALSE
  BY DEF PeriodsApart
<1> DEFINE Live(x) == version'[x].state = "LIVE" /\ version'[x].active
           Old(x) == x \in LoadPayrollRulesForMonth /\ DaysOf(x)' \subseteq DaysOf(x)
<1>1. /\ Old(u) \/ (Live(u) /\ version'[u].from = day)
      /\ Live(u) \/ \A c \in DaysOf(u)' : c < day
      /\ u \in Versions
  BY CountedAfterSave
<1>2. /\ Old(v) \/ (Live(v) /\ version'[v].from = day)
      /\ Live(v) \/ \A c \in DaysOf(v)' : c < day
      /\ v \in Versions
  BY CountedAfterSave
<1>3. ~(Live(u) /\ Live(v))
  BY <1>1, <1>2 DEF SaveStep, OneActiveRule, LiveRules
<1>4. ~(Old(u) /\ Old(v))
  BY DEF PayrollRulesInd, PeriodsApart
<1>5. /\ d \in 1 .. LastDay /\ version'[u].from <= d /\ version'[v].from <= d
      /\ LastDay \in Nat /\ day \in Nat
  BY RuleNumbers DEF DaysOf, PayrollRulesInd
<1> QED
  BY <1>1, <1>2, <1>3, <1>4, <1>5

\* A save leaves the fines of the days before today as they are.
LEMMA SaveKeepsPast ==
  ASSUME PayrollRulesInd, SaveStep, UNCHANGED <<late, waiver, day>>, NEW d \in 1 .. day - 1
  PROVE  FineOn(d)' = FineOn(d)
<1>1. PayrollRulesTypeOK /\ VersionsInTime /\ LastDay \in Nat /\ day \in 1 .. LastDay
  BY RuleNumbers DEF PayrollRulesInd
<1> DEFINE Counts(v) == v \in LoadPayrollRulesForMonth /\ d \in DaysOf(v)
<1>2. ASSUME NEW v \in Versions
      PROVE  /\ Counts(v)' <=> Counts(v)
             /\ Counts(v) => version'[v].price = version[v].price
                             /\ version'[v].lineage = version[v].lineage
  <2>1. Kept(v) \/ Closed(v) \/ Dropped(v) \/ Born(v) \/ Untouched(v)
    BY DEF SaveStep
  <2>2. /\ version[v] \in StorePayrollRule
        /\ version[v].state # "NONE" => version[v].from \in 1 .. day /\ version[v].to <= day
        /\ version[v].state = "LIVE" => version[v].to = 0
    BY <1>1 DEF PayrollRulesTypeOK, VersionsInTime
  <2>3. d \in Nat /\ d < day /\ d \in 1 .. LastDay
    BY <1>1
  <2>4. CASE Kept(v)
    <3>1. PICK w \in RuleTerms :
            /\ version'[v] = [version[v] EXCEPT !.price = w.price, !.active = w.active]
            /\ Rewrites(v, w)
      BY <2>4 DEF Kept
    <3>2. /\ version[v].state = "LIVE" /\ version'[v].state = "LIVE"
          /\ version'[v].active = w.active /\ version'[v].price = w.price
          /\ version'[v].from = version[v].from /\ version'[v].to = version[v].to
          /\ version'[v].lineage = version[v].lineage
      BY <2>2, <2>4, <3>1 DEF Kept, StorePayrollRule
    <3>3. CASE version[v].from >= day
      <4>1. d \notin DaysOf(v) /\ d \notin DaysOf(v)'
        BY <1>1, <2>2, <2>3, <3>2, <3>3 DEF DaysOf, StorePayrollRule
      <4> QED
        BY <4>1
    <3>4. CASE ~PricingChanged(version[v], w)
      <4>1. version'[v].active = version[v].active /\ version'[v].price = version[v].price
        BY <3>2, <3>4 DEF PricingChanged
      <4> QED
        BY <3>2, <4>1 DEF LoadPayrollRulesForMonth, DaysOf
    <3> QED
      BY <3>1, <3>3, <3>4 DEF Rewrites
  <2>5. CASE Closed(v)
    <3>1. /\ version[v].state = "LIVE" /\ version'[v].state = "DELETED"
          /\ version'[v].active = version[v].active /\ version'[v].price = version[v].price
          /\ version'[v].from = version[v].from /\ version[v].to = 0 /\ version'[v].to = day
          /\ version'[v].lineage = version[v].lineage /\ version[v].from < day
      BY <2>2, <2>5 DEF Closed, Close, StorePayrollRule
    <3>2. day > 1
      BY <1>1, <2>2, <3>1
    <3>3. v \in LoadPayrollRulesForMonth' <=> v \in LoadPayrollRulesForMonth
      BY <3>1, <3>2 DEF LoadPayrollRulesForMonth
    <3>4. d \in DaysOf(v)' <=> d \in DaysOf(v)
      BY <1>1, <2>3, <3>1 DEF DaysOf
    <3> QED
      BY <3>1, <3>3, <3>4
  <2>6. CASE Dropped(v)
    <3>1. version'[v].from = version[v].from /\ version[v].from >= day
      BY <2>2, <2>6 DEF Dropped, StorePayrollRule
    <3>2. d \notin DaysOf(v) /\ d \notin DaysOf(v)'
      BY <1>1, <2>2, <2>3, <3>1 DEF DaysOf, StorePayrollRule
    <3> QED
      BY <3>2
  <2>7. CASE Born(v)
    <3>1. version[v].state = "NONE" /\ version'[v].from = day
      BY <2>7 DEF Born, NoRule
    <3>2. v \notin LoadPayrollRulesForMonth
      BY <3>1 DEF LoadPayrollRulesForMonth
    <3>3. d \notin DaysOf(v)'
      BY <1>1, <2>3, <3>1 DEF DaysOf
    <3> QED
      BY <3>2, <3>3
  <2>8. CASE Untouched(v)
    BY <2>8 DEF Untouched, LoadPayrollRulesForMonth, DaysOf
  <2> QED
    BY <2>1, <2>4, <2>5, <2>6, <2>7, <2>8
<1>3. ASSUME NEW v \in Versions, Counts(v)
      PROVE  Waived(v, d)' <=> Waived(v, d)
  BY <1>2, <1>3 DEF Waived
<1>4. \A v : /\ v \in FinedBy(d) => v \in Versions /\ Counts(v)
             /\ v \in FinedBy(d)' => v \in Versions /\ Counts(v)'
  BY DEF FinedBy, LoadPayrollRulesForMonth
<1>5. \A v \in Versions : Counts(v) => (v \in FinedBy(d)' <=> v \in FinedBy(d))
  BY <1>2, <1>3 DEF FinedBy
<1>6. FinedBy(d)' = FinedBy(d)
  BY <1>2, <1>4, <1>5
<1>7. \A v \in FinedBy(d) : version'[v].price = version[v].price
  BY <1>2, <1>4
<1> QED
  BY <1>6, <1>7 DEF FineOn

\* A set without two different elements has one at most.
LEMMA OneAtMost ==
  ASSUME NEW S, \A x, y \in S : x = y
  PROVE  Cardinality(S) <= 1
<1>1. CASE S = {}
  BY <1>1, FS_EmptySet
<1>2. CASE S # {}
  <2>1. PICK x : S = {x}
    BY <1>2
  <2> QED
    BY <2>1, FS_Singleton
<1> QED
  BY <1>1, <1>2

\* Versions without a common day fine an arrival once.
LEMMA ApartFinesOnce ==
  ASSUME PayrollRulesInd
  PROVE  FinedOnce
<1> SUFFICES ASSUME NEW d \in 1 .. LastDay
             PROVE  Cardinality(FinedBy(d)) <= 1
  BY DEF FinedOnce
<1>1. \A u, v \in FinedBy(d) : u = v
  BY DEF FinedBy, PayrollRulesInd, PeriodsApart
<1> QED
  BY <1>1, OneAtMost

\* A store begins without rules.
LEMMA RulesStart == PayrollRulesInit => PayrollRulesInd
<1> SUFFICES ASSUME PayrollRulesInit PROVE PayrollRulesInd
  OBVIOUS
<1>1. /\ \A v \in Versions : version[v] = NoRule
      /\ LiveRules = {} /\ LoadPayrollRulesForMonth = {}
  BY DEF PayrollRulesInit, LiveRules, LoadPayrollRulesForMonth, NoRule
<1>2. PayrollRulesTypeOK
  <2>1. LastDay \in Nat \ {0} /\ MaxSaves \in Nat
    BY PayrollRulesAssumption
  <2>2. NoRule \in StorePayrollRule
    BY <2>1 DEF NoRule, StorePayrollRule
  <2> QED
    BY <2>1, <2>2 DEF PayrollRulesInit, PayrollRulesTypeOK
<1>3. VersionsInTime
  BY <1>1 DEF VersionsInTime, NoRule
<1> QED
  BY <1>1, <1>2, <1>3 DEF PayrollRulesInd, OneActiveRule, PeriodsApart

\* A save is a step of its rows that keeps the invariant and the past.
LEMMA SyncKeeps ==
  ASSUME PayrollRulesInd, NEW K \in SUBSET LiveRules, NEW kept \in [K -> RuleTerms],
         NEW added \in {<<>>} \cup {<<n>> : n \in RuleTerms},
         SyncPayrollRulesV2(kept, added)
  PROVE  PayrollRulesInd' /\ \A d \in 1 .. day - 1 : FineOn(d)' = FineOn(d)
<1>1. PayrollRulesTypeOK
  BY DEF PayrollRulesInd
<1>2. SaveStep
  <2>1. PICK W, w, N, n : SavedAs(W, w, N, n)
    BY <1>1, RulesSaved
  <2> QED
    BY <2>1, SavedRows
<1>3. UNCHANGED <<late, waiver, day>> /\ saves' = saves + 1 /\ saves < MaxSaves
  BY DEF SyncPayrollRulesV2
<1>4. saves' \in 0 .. MaxSaves
  BY <1>1, <1>3, PayrollRulesAssumption DEF PayrollRulesTypeOK
<1>5. PayrollRulesTypeOK' /\ VersionsInTime'
  BY <1>2, <1>3, <1>4, SaveKeepsRows
<1>6. PeriodsApart'
  BY <1>2, <1>3, SaveKeepsApart
<1>7. \A d \in 1 .. day - 1 : FineOn(d)' = FineOn(d)
  BY <1>2, <1>3, SaveKeepsPast
<1> QED
  BY <1>2, <1>5, <1>6, <1>7 DEF PayrollRulesInd, SaveStep

\* A waiver changes no rule.
LEMMA WaiverKeeps ==
  ASSUME PayrollRulesInd, NEW v \in Versions, NEW d \in 1 .. LastDay, CreatePayrollWaiver(v, d)
  PROVE  PayrollRulesInd' /\ \A c \in 1 .. day - 1 : FineOn(c)' = FineOn(c) \/ waiver' # waiver
<1>1. UNCHANGED <<version, late, day, saves>>
      /\ waiver' = waiver \cup {<<version[v].lineage, d>>} /\ version[v].state # "NONE"
  BY DEF CreatePayrollWaiver
<1>2. PayrollRulesTypeOK'
  <2>1. version[v].lineage \in Versions /\ LastDay \in Nat
    BY <1>1, PayrollRulesAssumption DEF PayrollRulesInd, VersionsInTime
  <2>2. <<version[v].lineage, d>> \in Versions \X (0 .. LastDay)
    BY <2>1
  <2> QED
    BY <1>1, <2>2 DEF PayrollRulesInd, PayrollRulesTypeOK
<1>3. VersionsInTime' /\ OneActiveRule' /\ PeriodsApart'
  BY <1>1 DEF PayrollRulesInd, VersionsInTime, OneActiveRule, PeriodsApart, LiveRules,
              LoadPayrollRulesForMonth, DaysOf
<1>4. ASSUME waiver' = waiver, NEW c PROVE FineOn(c)' = FineOn(c)
  BY <1>1, <1>4 DEF FineOn, FinedBy, LoadPayrollRulesForMonth, DaysOf, Waived
<1> QED
  BY <1>2, <1>3, <1>4 DEF PayrollRulesInd

\* The next day changes no rule and no day before it.
LEMMA NextDayKeeps ==
  ASSUME PayrollRulesInd, NextDay
  PROVE  PayrollRulesInd' /\ \A c \in 1 .. day - 1 : FineOn(c)' = FineOn(c)
<1>1. UNCHANGED <<version, waiver, saves>> /\ day < LastDay /\ day' = day + 1
      /\ late' \in {late, late \cup {day + 1}}
  BY DEF NextDay
<1>2. LastDay \in Nat /\ day \in 1 .. LastDay
  BY RuleNumbers DEF PayrollRulesInd
<1>3. PayrollRulesTypeOK'
  BY <1>1, <1>2 DEF PayrollRulesInd, PayrollRulesTypeOK
<1>4. VersionsInTime'
  <2>1. ASSUME NEW v \in Versions, version[v].state # "NONE"
        PROVE  version[v].from \in 1 .. day' /\ version[v].to <= day'
    <3>1. version[v].from \in 1 .. day /\ version[v].to <= day /\ version[v].to \in 0 .. LastDay
      BY <2>1, RuleNumbers DEF PayrollRulesInd, VersionsInTime
    <3> QED
      BY <3>1, <1>1, <1>2
  <2> QED
    BY <2>1, <1>1 DEF PayrollRulesInd, VersionsInTime
<1>5. OneActiveRule' /\ PeriodsApart'
  BY <1>1 DEF PayrollRulesInd, OneActiveRule, PeriodsApart, LiveRules,
              LoadPayrollRulesForMonth, DaysOf
<1>6. ASSUME NEW c \in 1 .. day - 1 PROVE FineOn(c)' = FineOn(c)
  <2>1. c \in late' <=> c \in late
    BY <1>1, <1>2
  <2>2. FinedBy(c)' = FinedBy(c)
    BY <2>1, <1>1 DEF FinedBy, LoadPayrollRulesForMonth, DaysOf, Waived
  <2> QED
    BY <2>2, <1>1 DEF FineOn
<1> QED
  BY <1>3, <1>4, <1>5, <1>6 DEF PayrollRulesInd

\* Every step keeps the invariant and, but for waivers, the past.
LEMMA RulesStep ==
  ASSUME PayrollRulesInd, [PayrollRulesNext]_payrollRulesVars
  PROVE  /\ PayrollRulesInd'
         /\ \A d \in 1 .. day - 1 : FineOn(d)' = FineOn(d) \/ waiver' # waiver
<1>1. CASE \E kept \in UNION {[K -> [price : Prices, active : BOOLEAN]] : K \in SUBSET LiveRules},
              added \in {<<>>} \cup {<<n>> : n \in [price : Prices, active : BOOLEAN]} :
             SyncPayrollRulesV2(kept, added)
  BY <1>1, SyncKeeps DEF RuleTerms
<1>2. CASE \E v \in Versions, d \in 1 .. LastDay : CreatePayrollWaiver(v, d)
  BY <1>2, WaiverKeeps
<1>3. CASE NextDay
  BY <1>3, NextDayKeeps
<1>4. CASE UNCHANGED payrollRulesVars
  BY <1>4 DEF payrollRulesVars, PayrollRulesInd, PayrollRulesTypeOK, VersionsInTime,
              OneActiveRule, PeriodsApart, LiveRules, LoadPayrollRulesForMonth, DaysOf,
              FineOn, FinedBy, Waived
<1> QED
  BY <1>1, <1>2, <1>3, <1>4 DEF PayrollRulesNext

(***************************************************************************)
(* However often the rules are saved, switched off, removed, added again   *)
(* and waived (syncPayrollRulesV2, createPayrollWaiver): a late arrival is *)
(* fined by one version at most, and the fines of a day before today are   *)
(* never changed but by a waiver.                                          *)
(***************************************************************************)
THEOREM RulesKept == PayrollRulesSpec => PayrollRulesPromise
<1>1. PayrollRulesSpec => []PayrollRulesInd
  <2>1. PayrollRulesInit => PayrollRulesInd
    BY RulesStart
  <2>2. PayrollRulesInd /\ [PayrollRulesNext]_payrollRulesVars => PayrollRulesInd'
    BY RulesStep
  <2> QED
    BY <2>1, <2>2, PTL DEF PayrollRulesSpec
<1>2. PayrollRulesInd => FinedOnce
  BY ApartFinesOnce
<1>3. PayrollRulesInd /\ [PayrollRulesNext]_payrollRulesVars
        => [\A d \in 1 .. day - 1 :
              FineOn(d)' = FineOn(d) \/ waiver' # waiver]_payrollRulesVars
  BY RulesStep
<1> QED
  BY <1>1, <1>2, <1>3, PTL DEF PayrollRulesSpec, PayrollRulesPromise, PastFinesStand
=============================================================================
