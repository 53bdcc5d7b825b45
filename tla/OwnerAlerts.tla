----------------------------- MODULE OwnerAlerts -----------------------------
(***************************************************************************)
(* What the owner is told about one booked shift                           *)
(* (owner-notification.service.ts and its processor): that it is about to  *)
(* begin, that it is about to end, and who checked in and out.  The first  *)
(* two are delayed jobs with one id each, brought into line without a lock *)
(* whenever the booking, the attendance or the settings change.  Before a  *)
(* message is stored its key is claimed in a log; a failure gives the key  *)
(* back so that the job's next attempt can send it.                        *)
(***************************************************************************)
EXTENDS Integers, FiniteSets

CONSTANTS AlertDesks, BeginTimes, PreLeads, EndLead, ShiftSpan,
          MaxAlertClock, MaxAlertChanges, MaxAlertFaults, MaxAttempts

ASSUME AlertsAssumption ==
  /\ BeginTimes \subseteq Nat /\ PreLeads \subseteq Nat /\ PreLeads # {}
  /\ EndLead \in Nat /\ ShiftSpan \in Nat
  /\ MaxAlertClock \in Nat /\ MaxAlertFaults \in Nat /\ MaxAttempts \in Nat

VARIABLES alertClock,
          duty,              \* [status, in, out, start]
          alertWish,         \* [pre, lead, ending, check]
          alertJobs,         \* per kind
          alertDesk,
          alertLog,          \* the keys that are claimed
          told,              \* how many messages were stored per key
          alertChanges, alertFaults
alertVars == <<alertClock, duty, alertWish, alertJobs, alertDesk, alertLog, told,
               alertChanges, alertFaults>>

Kinds == {"pre_shift", "shift_ending"}
NoAlertJob == [state |-> "none"]
IdleAlertDesk == [at |-> "idle"]

(* ownerAlertDedupKey: kind and instant; a check-in or check-out has none. *)
AlertKeys == (Kinds \X BeginTimes) \cup {<<"check_in", 0>>, <<"check_out", 0>>}

AlertDuties == [status : {"APPROVED", "CANCELLED"}, in : BOOLEAN, out : BOOLEAN,
                start : BeginTimes]
AlertWishes == [pre : BOOLEAN, lead : PreLeads, ending : BOOLEAN, check : BOOLEAN]

AlertsInit ==
  /\ alertClock = 0
  /\ duty \in [status : {"APPROVED"}, in : {FALSE}, out : {FALSE}, start : BeginTimes]
  /\ alertWish = [pre |-> TRUE, lead |-> CHOOSE l \in PreLeads : TRUE, ending |-> TRUE,
                  check |-> TRUE]
  /\ alertJobs = [k \in Kinds |-> NoAlertJob]
  /\ alertDesk = [d \in AlertDesks |-> IdleAlertDesk]
  /\ alertLog = {} /\ told = [k \in AlertKeys |-> 0]
  /\ alertChanges = 0 /\ alertFaults = 0

-----------------------------------------------------------------------------
(* The plan                                                                *)

(* ownerAlertFingerprint: when the shift begins and the lead, or its end.  *)
AlertPrint(kind, dut, wish) ==
  IF kind = "pre_shift" THEN <<dut.start, wish.lead>> ELSE <<dut.start, 0>>
RunAt(kind, dut, wish) ==
  IF kind = "pre_shift" THEN dut.start - wish.lead ELSE dut.start + ShiftSpan - EndLead
Wanted(kind, dut, wish) ==
  /\ dut.status = "APPROVED"
  /\ IF kind = "pre_shift" THEN wish.pre /\ ~dut.in ELSE wish.ending /\ ~dut.out

(* planJobs: what is wanted and has not passed.                            *)
PlanJob(kind, dut, wish, now) ==
  IF Wanted(kind, dut, wish) /\ RunAt(kind, dut, wish) > now
  THEN [state |-> "delayed", fp |-> AlertPrint(kind, dut, wish),
        due |-> RunAt(kind, dut, wish), tries |-> 0] ELSE NoAlertJob

-----------------------------------------------------------------------------
(* Changes, each followed by a sync of its own                             *)

Sync(d, todo) == alertDesk' = [alertDesk EXCEPT ![d] = [at |-> "load", tell |-> todo]]
(* cancelAssignments removes both jobs whatever the booking is by then.    *)
NothingPlanned == [k \in Kinds |-> NoAlertJob]
CancelAssignments(d) ==
  alertDesk' = [alertDesk EXCEPT ![d] = [at |-> "look", left |-> Kinds, plan |-> NothingPlanned]]
CountChange == alertChanges < MaxAlertChanges /\ alertChanges' = alertChanges + 1

(* The booking is cancelled, restored or retimed; or leave covers it, and  *)
(* it stands without its jobs.                                             *)
ChangeDuty(d) ==
  /\ alertDesk[d] = IdleAlertDesk /\ CountChange
  /\ \/ \E s \in {"APPROVED", "CANCELLED"}, t \in BeginTimes :
            /\ <<s, t>> # <<duty.status, duty.start>>
            /\ duty' = [duty EXCEPT !.status = s, !.start = t]
            /\ IF s = "CANCELLED" THEN CancelAssignments(d) ELSE Sync(d, "none")
     \/ /\ duty.status = "APPROVED" /\ CancelAssignments(d)
        /\ UNCHANGED duty
  /\ UNCHANGED <<alertClock, alertWish, alertJobs, alertLog, told, alertFaults>>

(* updateSettings reconciles the store's bookings if a job may change.     *)
UpdateAlertSettings(d) ==
  /\ alertDesk[d] = IdleAlertDesk /\ CountChange
  /\ \E w \in AlertWishes :
       /\ w # alertWish
       /\ alertWish' = w
       /\ IF [w EXCEPT !.check = TRUE] # [alertWish EXCEPT !.check = TRUE]
          THEN Sync(d, "none") ELSE UNCHANGED alertDesk
  /\ UNCHANGED <<alertClock, duty, alertJobs, alertLog, told, alertFaults>>

(* afterAttendance: the employee has checked in or out.                    *)
AfterAttendance(d) ==
  /\ alertDesk[d] = IdleAlertDesk /\ duty.status = "APPROVED"
  /\ \/ /\ ~duty.in
        /\ duty' = [duty EXCEPT !.in = TRUE]
        /\ alertDesk' = [alertDesk EXCEPT ![d] = [at |-> "claim", tell |-> "check_in"]]
     \/ /\ duty.in /\ ~duty.out
        /\ duty' = [duty EXCEPT !.out = TRUE]
        /\ alertDesk' = [alertDesk EXCEPT ![d] = [at |-> "claim", tell |-> "check_out"]]
  /\ UNCHANGED <<alertClock, alertWish, alertJobs, alertLog, told, alertChanges,
                 alertFaults>>

-----------------------------------------------------------------------------
(* notifyAttendance: claim, store, and on failure unclaim; then the sync.  *)
(* The statement that gives the key back may fail as well, and stays so.   *)

ClaimAttendance(d) ==
  LET key == <<alertDesk[d].tell, 0>> IN
  /\ alertDesk[d].at = "claim"
  /\ IF alertWish.check /\ key \notin alertLog
     THEN /\ alertLog' = alertLog \cup {key}
          /\ alertDesk' = [alertDesk EXCEPT ![d].at = "store"]
     ELSE Sync(d, "none") /\ UNCHANGED alertLog
  /\ UNCHANGED <<alertClock, duty, alertWish, alertJobs, told, alertChanges, alertFaults>>
StoreAttendance(d) ==
  LET key == <<alertDesk[d].tell, 0>> IN
  /\ alertDesk[d].at = "store"
  /\ \/ told' = [told EXCEPT ![key] = @ + 1] /\ UNCHANGED <<alertLog, alertFaults>>
     \/ /\ alertFaults < MaxAlertFaults /\ alertFaults' = alertFaults + 1
        /\ alertLog' \in {alertLog \ {key}, alertLog}
        /\ \E stored \in BOOLEAN : told' = [told EXCEPT ![key] = IF stored THEN @ + 1 ELSE @]
  /\ Sync(d, "none")
  /\ UNCHANGED <<alertClock, duty, alertWish, alertJobs, alertChanges>>

-----------------------------------------------------------------------------
(* syncAssignments, without a lock                                         *)

LoadContext(d) ==
  /\ alertDesk[d].at = "load"
  /\ alertDesk' = [alertDesk EXCEPT ![d] =
       [at |-> "look", left |-> Kinds,
        plan |-> [k \in Kinds |-> PlanJob(k, duty, alertWish, alertClock)]]]
  /\ UNCHANGED <<alertClock, duty, alertWish, alertJobs, alertLog, told, alertChanges,
                 alertFaults>>

AlertRuns(kind) == alertJobs[kind].state \in {"active", "claimed"}
NextKind(desk) ==
  IF desk.left = Kinds THEN "pre_shift" ELSE "shift_ending"
Settled(desk, kind) ==
  IF desk.left = {kind} THEN IdleAlertDesk
  ELSE [at |-> "look", left |-> desk.left \ {kind}, plan |-> desk.plan]

(* upsertJob up to the removal: a job of the same fingerprint stays, one   *)
(* that runs cannot be removed; what is not planned is removed.            *)
LookAtJob(d) ==
  LET desk == alertDesk[d]
      kind == NextKind(desk)
      job == desk.plan[kind]
      old == alertJobs[kind]
  IN /\ desk.at = "look"
     /\ IF job = NoAlertJob \/ (old # NoAlertJob /\ old.fp # job.fp)
        THEN alertJobs' = [alertJobs EXCEPT ![kind] = IF AlertRuns(kind) THEN @ ELSE NoAlertJob]
        ELSE UNCHANGED alertJobs
     /\ alertDesk' = [alertDesk EXCEPT ![d] =
          IF job = NoAlertJob \/ (old # NoAlertJob /\ (old.fp = job.fp \/ AlertRuns(kind)))
          THEN Settled(desk, kind) ELSE [desk EXCEPT !.at = "add"]]
     /\ UNCHANGED <<alertClock, duty, alertWish, alertLog, told, alertChanges, alertFaults>>
AddAlert(d) ==
  LET desk == alertDesk[d]
      kind == NextKind(desk)
  IN /\ desk.at = "add"
     /\ alertJobs' = [alertJobs EXCEPT ![kind] = IF @ = NoAlertJob THEN desk.plan[kind] ELSE @]
     /\ alertDesk' = [alertDesk EXCEPT ![d] = Settled(desk, kind)]
     /\ UNCHANGED <<alertClock, duty, alertWish, alertLog, told, alertChanges, alertFaults>>

-----------------------------------------------------------------------------
(* processJob                                                              *)

TakeAlert(kind) ==
  /\ alertJobs[kind].state = "delayed" /\ alertJobs[kind].due <= alertClock
  /\ alertJobs' = [alertJobs EXCEPT ![kind].state = "active"]
  /\ UNCHANGED <<alertClock, duty, alertWish, alertDesk, alertLog, told, alertChanges,
                 alertFaults>>

(* The booking, the attendance, the settings and the fingerprint are read  *)
(* again; an alert that comes after what it announces is dropped.          *)
AlertHolds(kind, fp) ==
  /\ Wanted(kind, duty, alertWish)
  /\ AlertPrint(kind, duty, alertWish) = fp
  /\ IF kind = "pre_shift" THEN alertClock < duty.start
     ELSE duty.in /\ alertClock < duty.start + ShiftSpan
AlertKey(kind) == <<kind, alertJobs[kind].fp[1]>>
ClaimAlert(kind) ==
  /\ alertJobs[kind].state = "active"
  /\ IF AlertHolds(kind, alertJobs[kind].fp) /\ AlertKey(kind) \notin alertLog
     THEN /\ alertLog' = alertLog \cup {AlertKey(kind)}
          /\ alertJobs' = [alertJobs EXCEPT ![kind].state = "claimed"]
     ELSE alertJobs' = [alertJobs EXCEPT ![kind] = NoAlertJob] /\ UNCHANGED alertLog
  /\ UNCHANGED <<alertClock, duty, alertWish, alertDesk, told, alertChanges, alertFaults>>
ClaimUnlogged(kind) ==
  /\ alertJobs[kind].state = "active"
  /\ IF AlertHolds(kind, alertJobs[kind].fp)
     THEN /\ alertLog' = alertLog \cup {AlertKey(kind)}
          /\ alertJobs' = [alertJobs EXCEPT ![kind].state = "claimed"]
     ELSE alertJobs' = [alertJobs EXCEPT ![kind] = NoAlertJob] /\ UNCHANGED alertLog
  /\ UNCHANGED <<alertClock, duty, alertWish, alertDesk, told, alertChanges, alertFaults>>
SendOnceClaims(kind) == ClaimAlert(kind)

(* notificationsService.create stores the message and then looks up the    *)
(* owner's devices.                                                        *)
StoreAlert(kind) ==
  /\ alertJobs[kind].state = "claimed"
  /\ told' = [told EXCEPT ![AlertKey(kind)] = @ + 1]
  /\ alertJobs' = [alertJobs EXCEPT ![kind] = NoAlertJob]
  /\ UNCHANGED <<alertClock, duty, alertWish, alertDesk, alertLog, alertChanges,
                 alertFaults>>

(* One of the two fails: the claim is released, unless that fails too, and *)
(* the job tried again, MaxAttempts times in all; then it stays in the     *)
(* queue as failed.                                                        *)
Retried(kind) ==
  [alertJobs[kind] EXCEPT !.tries = @ + 1,
     !.state = IF alertJobs[kind].tries + 1 < MaxAttempts THEN "delayed" ELSE "failed"]
StoreAlertFails(kind) ==
  /\ alertJobs[kind].state = "claimed"
  /\ alertFaults < MaxAlertFaults /\ alertFaults' = alertFaults + 1
  /\ \E stored \in BOOLEAN :
       told' = [told EXCEPT ![AlertKey(kind)] = IF stored THEN @ + 1 ELSE @]
  /\ alertLog' \in {alertLog \ {AlertKey(kind)}, alertLog}
  /\ alertJobs' = [alertJobs EXCEPT ![kind] = Retried(kind)]
  /\ UNCHANGED <<alertClock, duty, alertWish, alertDesk, alertChanges>>

(* The worker's process dies: the claim stays.                             *)
AlertStalls(kind) ==
  /\ AlertRuns(kind)
  /\ alertFaults < MaxAlertFaults /\ alertFaults' = alertFaults + 1
  /\ alertJobs' = [alertJobs EXCEPT ![kind].state = "delayed"]
  /\ UNCHANGED <<alertClock, duty, alertWish, alertDesk, alertLog, told, alertChanges>>

AlertTick ==
  /\ alertClock < MaxAlertClock /\ alertClock' = alertClock + 1
  /\ UNCHANGED <<duty, alertWish, alertJobs, alertDesk, alertLog, told, alertChanges,
                 alertFaults>>

AlertsNext ==
  \/ \E d \in AlertDesks :
       \/ ChangeDuty(d) \/ UpdateAlertSettings(d) \/ AfterAttendance(d)
       \/ ClaimAttendance(d) \/ StoreAttendance(d)
       \/ LoadContext(d) \/ LookAtJob(d) \/ AddAlert(d)
  \/ \E k \in Kinds :
       \/ TakeAlert(k) \/ SendOnceClaims(k) \/ StoreAlert(k) \/ StoreAlertFails(k)
       \/ AlertStalls(k)
  \/ AlertTick
AlertsSpec == AlertsInit /\ [][AlertsNext]_alertVars

-----------------------------------------------------------------------------
(* Properties                                                              *)

AlertJob(states) ==
  [state : states, fp : BeginTimes \X (PreLeads \cup {0}), due : Int, tries : Nat]
AlertDeskStates ==
  {IdleAlertDesk} \cup [at : {"load"}, tell : {"none"}]
  \cup [at : {"claim", "store"}, tell : {"check_in", "check_out"}]
  \cup [at : {"look", "add"}, left : {Kinds, {"shift_ending"}},
        plan : [Kinds -> {NoAlertJob} \cup AlertJob({"delayed"})]]

AlertsTypeOK ==
  /\ alertClock \in 0 .. MaxAlertClock
  /\ duty \in AlertDuties /\ alertWish \in AlertWishes
  /\ alertJobs \in [Kinds -> {NoAlertJob}
                             \cup AlertJob({"delayed", "active", "claimed", "failed"})]
  /\ alertDesk \in [AlertDesks -> AlertDeskStates]
  /\ alertLog \subseteq AlertKeys /\ told \in [AlertKeys -> Nat]
  /\ alertFaults \in 0 .. MaxAlertFaults

(* Somebody is on the way to store the message of this key.                *)
DeskStores(d, key) == alertDesk[d].at = "store" /\ <<alertDesk[d].tell, 0>> = key
JobStores(k, key) == alertJobs[k].state = "claimed" /\ AlertKey(k) = key
Storing(key) ==
  (\E k \in Kinds : JobStores(k, key)) \/ (\E d \in AlertDesks : DeskStores(d, key))

(* A message on its way has its key in the log, so it is on one way only.  *)
StorersHoldTheKey ==
  /\ \A key \in AlertKeys : Storing(key) => key \in alertLog
  /\ \A key \in AlertKeys : \A d, e \in AlertDesks :
       DeskStores(d, key) /\ DeskStores(e, key) => d = e

(* A key that is free, or whose message is still on its way, has been told *)
(* by failures only.                                                       *)
UntoldUntilStored ==
  \A key \in AlertKeys :
    key \notin alertLog \/ Storing(key) => told[key] <= alertFaults

(* Whatever changes cross each other and however often a shift is retimed  *)
(* back and forth, the owner is told each thing once, plus once for each   *)
(* failure; and a key that is claimed means that he was told, or is about  *)
(* to be, unless something failed.                                         *)
OwnerAlertsPromise ==
  /\ AlertsTypeOK /\ StorersHoldTheKey /\ UntoldUntilStored
  /\ \A key \in AlertKeys :
       /\ told[key] <= 1 + alertFaults
       /\ (alertFaults = 0 /\ key \in alertLog) => told[key] = 1 \/ Storing(key)
=============================================================================
