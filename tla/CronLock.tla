------------------------------ MODULE CronLock ------------------------------
(***************************************************************************)
(* The cron jobs of StoresCronService run under                            *)
(* DistributedLockService.withLock.  One job name, hence one advisory-lock *)
(* key, is modelled; different names hash to different keys and do not     *)
(* interact.  Every instance owns a pool of database sessions and every    *)
(* dataSource.query / dataSource.transaction runs on whichever session the *)
(* pool hands out.  PostgreSQL advisory locks belong to a SESSION and are  *)
(* re-entrant in it; they vanish when the session ends.                    *)
(***************************************************************************)
EXTENDS Integers, FiniteSets

CONSTANTS
  Instances,    \* server processes
  Slots,        \* overlapping fires of the cron job in one process
  PoolSize,     \* sessions an instance's pool may open
  StatementsFail, \* whether the bookkeeping statements may fail
  MaxDepth      \* bound on lock re-entrance, for model checking

ASSUME CronLockAssumption ==
  /\ PoolSize \in Nat \ {0}
  /\ MaxDepth \in Nat \ {0}
  /\ StatementsFail \in BOOLEAN
  /\ IsFiniteSet(Instances) /\ IsFiniteSet(Slots)

Sessions == Instances \X (1 .. PoolSize)
Fires    == Instances \X Slots
Inst(x)  == x[1]

Phases == {"idle", "tracking", "running", "unlocking", "cleaning"}

VARIABLES
  depth,   \* depth[s]: how often session s holds the advisory key
  phase,   \* phase[f]: where fire f of the cron handler is in withLock
  row,     \* the cron_locks row: {the fire that wrote it}, or {}
  exposed  \* history: instances whose lock went with a session under a fire

vars == <<depth, phase, row, exposed>>

(* The fires of instance i between the lock and the unlock.                *)
Holding(i) ==
  {f \in Fires : Inst(f) = i /\ phase[f] \in {"tracking", "running", "unlocking"}}

TypeOK ==
  /\ depth \in [Sessions -> 0 .. MaxDepth]
  /\ phase \in [Fires -> Phases]
  /\ row \in SUBSET Fires /\ \A f, g \in row : f = g
  /\ exposed \subseteq Instances

Init ==
  /\ depth = [s \in Sessions |-> 0]
  /\ phase = [f \in Fires |-> "idle"]
  /\ row = {}
  /\ exposed = {}

(* An exposed instance is covered again once none of its fires is between  *)
(* the lock and the unlock.  It is history: no guard reads it.             *)
Exposes(instances) == exposed' = {i \in instances : Holding(i)' # {}}

-----------------------------------------------------------------------------
(* PostgreSQL: pg_try_advisory_lock succeeds in session s unless ANOTHER   *)
(* session holds the key; pg_advisory_unlock gives back one level, and is  *)
(* a no-op (a warning) in a session that does not hold it.                 *)
Grantable(s) == \A t \in Sessions \ {s} : depth[t] = 0

UnlockIn(s) ==
  IF depth[s] = 0 THEN depth ELSE [depth EXCEPT ![s] = @ - 1]

(* Mutant: acquireLock does not look at the answer of the query.           *)
TryLockUnchecked(f) ==
  \E s \in Sessions :
    /\ Inst(s) = Inst(f)
    /\ phase[f] = "idle"
    /\ depth[s] < MaxDepth
    /\ depth' = IF Grantable(s) THEN [depth EXCEPT ![s] = @ + 1] ELSE depth
    /\ phase' = [phase EXCEPT ![f] = "tracking"]
    /\ Exposes(exposed)
    /\ UNCHANGED row

(* acquireLock: the advisory lock is tried on some session of the pool.    *)
TryLock(f) ==
  \E s \in Sessions :
    /\ Inst(s) = Inst(f)
    /\ phase[f] = "idle"
    /\ Grantable(s)
    /\ depth[s] < MaxDepth
    /\ depth' = [depth EXCEPT ![s] = @ + 1]
    /\ phase' = [phase EXCEPT ![f] = "tracking"]
    /\ Exposes(exposed)
    /\ UNCHANGED row

(* The tracking row is upserted in a transaction of its own.               *)
Track(f) ==
  /\ phase[f] = "tracking"
  /\ row' = {f}
  /\ phase' = [phase EXCEPT ![f] = "running"]
  /\ Exposes(exposed)
  /\ UNCHANGED depth

(* The upsert fails: acquireLock's catch returns null and withLock skips   *)
(* the job, with nothing undoing the advisory lock.                        *)
TrackFails(f) ==
  /\ StatementsFail
  /\ phase[f] = "tracking"
  /\ phase' = [phase EXCEPT ![f] = "idle"]
  /\ Exposes(exposed)
  /\ UNCHANGED <<depth, row>>

(* job() resolves or rejects: withLock catches both and goes to finally.   *)
JobEnds(f) ==
  /\ phase[f] = "running"
  /\ phase' = [phase EXCEPT ![f] = "unlocking"]
  /\ Exposes(exposed)
  /\ UNCHANGED <<depth, row>>

(* releaseLock: the unlock runs on some session of the pool ...            *)
Unlock(f) ==
  \E s \in Sessions :
    /\ Inst(s) = Inst(f)
    /\ phase[f] = "unlocking"
    /\ depth' = UnlockIn(s)
    /\ phase' = [phase EXCEPT ![f] = "cleaning"]
    /\ Exposes(exposed)
    /\ UNCHANGED row

(* ... then the tracking row of that NAME is deleted, whoever wrote it.    *)
CleanRow(f) ==
  /\ phase[f] = "cleaning"
  /\ row' = {}
  /\ phase' = [phase EXCEPT ![f] = "idle"]
  /\ Exposes(exposed)
  /\ UNCHANGED depth

(* A failing statement of releaseLock is caught and ends it.               *)
ReleaseFails(f) ==
  /\ StatementsFail
  /\ phase[f] \in {"unlocking", "cleaning"}
  /\ phase' = [phase EXCEPT ![f] = "idle"]
  /\ Exposes(exposed)
  /\ UNCHANGED <<depth, row>>

(* The pool closes a session that sat idle for ten seconds: its locks are  *)
(* released.  A job that leaves its session idle loses the lock under way. *)
SessionCloses(s) ==
  /\ depth[s] > 0
  /\ depth' = [depth EXCEPT ![s] = 0]
  /\ UNCHANGED <<phase, row>>
  /\ Exposes(exposed \cup {Inst(s)})

(* An instance dies: its sessions end and its fires are gone; the tracking *)
(* row stays.                                                              *)
Crash(i) ==
  /\ \E f \in Fires : Inst(f) = i /\ phase[f] # "idle"
  /\ depth' = [s \in Sessions |-> IF Inst(s) = i THEN 0 ELSE depth[s]]
  /\ phase' = [f \in Fires |-> IF Inst(f) = i THEN "idle" ELSE phase[f]]
  /\ Exposes(exposed)
  /\ UNCHANGED row

WithLockStep(f) ==
  Track(f) \/ TrackFails(f) \/ JobEnds(f) \/ Unlock(f) \/ CleanRow(f) \/ ReleaseFails(f)

Next ==
  \/ \E f \in Fires : TryLock(f) \/ WithLockStep(f)
  \/ \E s \in Sessions : SessionCloses(s)
  \/ \E i \in Instances : Crash(i)

Spec == Init /\ [][Next]_vars

-----------------------------------------------------------------------------
InJob(f) == phase[f] = "running"

(* What the lock does give, for any pool: of two instances that run the    *)
(* job at the same time, one lost the session of its lock under a fire and *)
(* has not been out of the job since.  Re-entrant fires, unlocks on other  *)
(* sessions, failed statements and crashes never cost a lock.              *)
NoRunInTwoInstances ==
  \A f, g \in Fires :
    InJob(f) /\ InJob(g) /\ Inst(f) # Inst(g) => {Inst(f), Inst(g)} \cap exposed # {}

(* What the lock promises of its state and its instances.                  *)
LockPromise == TypeOK /\ NoRunInTwoInstances

(* releaseLock's promise: once no fire of the job is in progress and none  *)
(* failed half way, the key is free again.                                 *)
ReleasedMeansFree ==
  (\A f \in Fires : phase[f] = "idle") => \A s \in Sessions : depth[s] = 0
=============================================================================
