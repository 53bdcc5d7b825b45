---------------------------- MODULE ShiftReminders ---------------------------
(***************************************************************************)
(* The reminder of one booked shift (shift-reminder.service.ts, its        *)
(* processor and its utilities).  The reminder is a delayed job of a Redis *)
(* queue under a fixed primary id; a job that runs cannot be removed, so   *)
(* its replacement goes under a successor id.  Whoever changes the booking *)
(* brings the jobs into line afterwards, under a lease per booking, from   *)
(* what the database says then; the nightly reconcile repeats it.          *)
(*                                                                         *)
(* A lease that is renewed holds for the queue calls that follow it; it    *)
(* can run out while its holder waits for the database.                    *)
(***************************************************************************)
EXTENDS Integers, FiniteSets

CONSTANTS RemDesks,          \* requests and jobs that bring the queue into line
          NoRemDesk,
          ShiftStarts,       \* the times the shift may begin at
          Leads,             \* the leads that can be chosen; 0 is "off"
          MaxRemClock, MaxRemChanges, MaxMishaps

ASSUME RemindersAssumption ==
  /\ NoRemDesk \notin RemDesks
  /\ ShiftStarts \subseteq Nat /\ Leads \subseteq Nat
  /\ MaxRemClock \in Nat /\ MaxMishaps \in Nat

VARIABLES remClock,
          remShift,          \* [approved, leave, start, lead]
          remJobs,           \* primary and successor
          remLease,          \* the desk that holds the lease
          remDesk,
          remMissed,         \* something was not carried over to the queue
          reminded,          \* how often each plan's reminder was sent
          remChanges,
          remMishaps         \* deaths, lost queues, due times passed in between
reminderVars == <<remClock, remShift, remJobs, remLease, remDesk, remMissed, reminded,
                  remChanges, remMishaps>>

JobIds == {"primary", "successor"}
Plans == ShiftStarts \X Leads
NoRemJob == [state |-> "none"]
RemJob(fp, due, state) == [state |-> state, fp |-> fp, due |-> due]
IdleRemDesk == [at |-> "idle"]

(* buildShiftReminderFingerprint: the start and the chosen lead.           *)
Fingerprint(shift) == <<shift.start, shift.lead>>

(* buildReminderJob: nothing to do if the booking does not stand, if       *)
(* reminders are off or if their time has passed.                          *)
ReminderPlan(shift, now) ==
  IF shift.approved /\ shift.lead # 0 /\ shift.start - shift.lead > now
  THEN RemJob(Fingerprint(shift), shift.start - shift.lead, "delayed") ELSE NoRemJob

RemindersInit ==
  /\ remClock = 0
  /\ remShift \in [approved : BOOLEAN, leave : BOOLEAN, start : ShiftStarts, lead : Leads]
  /\ remJobs = [id \in JobIds |-> NoRemJob]
  /\ remLease = NoRemDesk
  /\ remDesk = [d \in RemDesks |-> IdleRemDesk]
  /\ remMissed = TRUE
  /\ reminded = [fp \in Plans |-> 0]
  /\ remChanges = 0 /\ remMishaps = 0

-----------------------------------------------------------------------------
(* What happens to the booking                                             *)

RemCall(d, op) == remDesk' = [remDesk EXCEPT ![d] = [at |-> "wait", op |-> op, tries |-> 1]]

(* The booking is approved, retimed or its reminder settings change        *)
(* (updateEmployeeReminderSettings, rescheduleRemindersForShift, ...): the *)
(* row commits, then the caller brings the jobs into line.  Cancelling it  *)
(* removes them.                                                           *)
ChangeBooking(d) ==
  /\ remDesk[d] = IdleRemDesk /\ remChanges < MaxRemChanges
  /\ \E s \in [approved : BOOLEAN, leave : {remShift.leave}, start : ShiftStarts,
               lead : Leads] :
       /\ s # remShift
       /\ remShift' = s
       /\ RemCall(d, IF s.approved THEN "sync" ELSE "cancel")
  /\ remChanges' = remChanges + 1
  /\ UNCHANGED <<remClock, remJobs, remLease, remMissed, reminded, remMishaps>>

(* cancelRemindersCoveredByLeave.                                          *)
LeaveApproved(d) ==
  /\ remDesk[d] = IdleRemDesk /\ remChanges < MaxRemChanges
  /\ ~remShift.leave
  /\ remShift' = [remShift EXCEPT !.leave = TRUE]
  /\ IF remShift.approved THEN RemCall(d, "cancel") ELSE UNCHANGED remDesk
  /\ remChanges' = remChanges + 1
  /\ UNCHANGED <<remClock, remJobs, remLease, remMissed, reminded, remMishaps>>

(* Leave that is withdrawn brings no reminder back by itself.              *)
LeaveWithdrawn ==
  /\ remShift.leave /\ remChanges < MaxRemChanges
  /\ remShift' = [remShift EXCEPT !.leave = FALSE]
  /\ remMissed' = TRUE /\ remChanges' = remChanges + 1
  /\ UNCHANGED <<remClock, remJobs, remLease, remDesk, reminded, remMishaps>>

(* reconcileUpcomingReminders picks standing bookings whose reminder is on.*)
ReconcileReminders(d) ==
  /\ remDesk[d] = IdleRemDesk
  /\ remShift.approved /\ remShift.lead # 0
  /\ RemCall(d, "sync")
  /\ UNCHANGED <<remClock, remShift, remJobs, remLease, remMissed, reminded, remChanges,
                 remMishaps>>

-----------------------------------------------------------------------------
(* Bringing the jobs into line                                             *)

Gone(d) == remDesk' = [remDesk EXCEPT ![d] = IdleRemDesk]
Unlock(d) == remLease' = IF remLease = d THEN NoRemDesk ELSE remLease

(* acquireReminderMutationLock, and giving up after its last attempt.      *)
AcquireLease(d) ==
  /\ remDesk[d].at = "wait" /\ remLease = NoRemDesk
  /\ remLease' = d
  /\ remDesk' = [remDesk EXCEPT ![d].at = "read"]
  /\ UNCHANGED <<remClock, remShift, remJobs, remMissed, reminded, remChanges, remMishaps>>
LeaseUnavailable(d) ==
  /\ remDesk[d].at = "wait" /\ remLease # NoRemDesk
  /\ Gone(d) /\ remMissed' = TRUE
  /\ UNCHANGED <<remClock, remShift, remJobs, remLease, reminded, remChanges, remMishaps>>
LeaseRunsOut ==
  /\ remLease # NoRemDesk /\ remDesk[remLease].at \in {"read", "renew"}
  /\ remLease' = NoRemDesk
  /\ UNCHANGED <<remClock, remShift, remJobs, remDesk, remMissed, reminded, remChanges,
                 remMishaps>>

(* applyAuthoritativeAssignmentReminder reads the booking under the lease; *)
(* cancelAssignmentReminders has read it before.                           *)
ReadBooking(d) ==
  /\ remDesk[d].at = "read"
  /\ remDesk' = [remDesk EXCEPT ![d] = [at |-> "renew", op |-> @.op, tries |-> @.tries,
                                        saw |-> remShift]]
  /\ remMissed' = IF remDesk[d].op = "sync" THEN FALSE ELSE remMissed
  /\ UNCHANGED <<remClock, remShift, remJobs, remLease, reminded, remChanges, remMishaps>>

(* renewReminderMutationLock: whoever lost the lease gives up.             *)
RenewLease(d) ==
  /\ remDesk[d].at = "renew"
  /\ IF remLease = d
     THEN /\ remDesk' = [remDesk EXCEPT ![d] =
               [at |-> "primary", op |-> @.op, tries |-> @.tries,
                job |-> IF @.op = "sync" THEN ReminderPlan(@.saw, remClock) ELSE NoRemJob]]
          /\ UNCHANGED remMissed
     ELSE Gone(d) /\ remMissed' = TRUE
  /\ UNCHANGED <<remClock, remShift, remJobs, remLease, reminded, remChanges, remMishaps>>

(* queue.remove: everything but a job that runs.                           *)
Locked(id) == remJobs[id].state \in {"active", "checked", "sent"}
LeftOf(id) == IF Locked(id) THEN remJobs[id] ELSE NoRemJob

RemovePrimary(d) ==
  /\ remDesk[d].at = "primary"
  /\ remJobs' = [remJobs EXCEPT !["primary"] = LeftOf("primary")]
  /\ remDesk' = [remDesk EXCEPT ![d] =
       [at |-> "successor", op |-> @.op, tries |-> @.tries, job |-> @.job,
        kept |-> LeftOf("primary")]]
  /\ UNCHANGED <<remClock, remShift, remLease, remMissed, reminded, remChanges, remMishaps>>

AlwaysPrimary(job, primary, successor) == "primary"

(* prepareReminderReplacement: where the job goes, "null" if it is there   *)
(* already, "locked" if both ids are taken by jobs that run.               *)
PrepareReplacement(job, primary, successor) ==
  IF primary # NoRemJob /\ primary.fp = job.fp THEN "null"
  ELSE IF primary # NoRemJob /\ successor # NoRemJob /\ successor.fp # job.fp THEN "locked"
  ELSE IF successor # NoRemJob
  THEN (IF successor.fp = job.fp THEN "null" ELSE "primary")
  ELSE IF primary # NoRemJob THEN "successor" ELSE "primary"

RemoveSuccessor(d) ==
  LET desk == remDesk[d]
      left == LeftOf("successor")
      id == IF desk.job = NoRemJob THEN "null"
            ELSE PrepareReplacement(desk.job, desk.kept, left)
  IN /\ desk.at = "successor"
     /\ remJobs' = [remJobs EXCEPT !["successor"] = left]
     /\ \/ /\ id \in JobIds
           /\ remDesk' = [remDesk EXCEPT ![d] = [at |-> "add", op |-> "sync",
                            tries |-> @.tries, job |-> @.job, id |-> id]]
           /\ UNCHANGED <<remLease, remMissed>>
        \/ /\ id = "null"
           /\ Gone(d) /\ Unlock(d)
           /\ remMissed' = (remMissed \/ (desk.op = "cancel"
                              /\ ReminderPlan(remShift, remClock) # NoRemJob))
        \/ /\ id = "locked" /\ desk.tries = 1
           /\ remDesk' = [remDesk EXCEPT ![d] = [at |-> "wait", op |-> "sync", tries |-> 2]]
           /\ Unlock(d) /\ UNCHANGED remMissed
        \/ /\ id = "locked" /\ desk.tries = 2
           /\ Gone(d) /\ Unlock(d) /\ remMissed' = TRUE
     /\ UNCHANGED <<remClock, remShift, reminded, remChanges, remMishaps>>

(* queue.add changes nothing if the id is taken; the lease is given back.  *)
FinishAdd(d) ==
  LET desk == remDesk[d] IN
  /\ desk.at = "add"
  /\ remJobs' = IF remJobs[desk.id] = NoRemJob
                THEN [remJobs EXCEPT ![desk.id] = desk.job] ELSE remJobs
  /\ Gone(d) /\ Unlock(d)
  /\ UNCHANGED <<remClock, remShift, remMissed, reminded, remChanges, remMishaps>>

-----------------------------------------------------------------------------
(* The worker                                                              *)

SetJob(id, state) == remJobs' = [remJobs EXCEPT ![id].state = state]

TakeReminder(id) ==
  /\ remJobs[id].state = "delayed" /\ remJobs[id].due <= remClock
  /\ SetJob(id, "active")
  /\ UNCHANGED <<remClock, remShift, remLease, remDesk, remMissed, reminded, remChanges,
                 remMishaps>>

(* process reads the booking again and compares the fingerprints.          *)
ReminderHolds(fp) ==
  remShift.approved /\ ~remShift.leave /\ remShift.lead # 0 /\ Fingerprint(remShift) = fp
CheckReminder(id) ==
  /\ remJobs[id].state = "active"
  /\ remJobs' = [remJobs EXCEPT ![id] =
       IF ReminderHolds(@.fp)
       THEN [@ EXCEPT !.state = "checked", !.fp = Fingerprint(remShift)]
       ELSE [@ EXCEPT !.state = "done"]]
  /\ UNCHANGED <<remClock, remShift, remLease, remDesk, remMissed, reminded, remChanges,
                 remMishaps>>
SendReminder(id) ==
  /\ remJobs[id].state = "checked"
  /\ reminded' = [reminded EXCEPT ![remJobs[id].fp] = @ + 1]
  /\ SetJob(id, "sent")
  /\ UNCHANGED <<remClock, remShift, remLease, remDesk, remMissed, remChanges, remMishaps>>

(* The notification cannot be stored: the job has one attempt.             *)
ReminderFails(id) ==
  /\ remJobs[id].state = "checked"
  /\ SetJob(id, "done")
  /\ UNCHANGED <<remClock, remShift, remLease, remDesk, remMissed, reminded, remChanges,
                 remMishaps>>
CompleteReminder(id) ==
  /\ remJobs[id].state = "sent"
  /\ SetJob(id, "done")
  /\ UNCHANGED <<remClock, remShift, remLease, remDesk, remMissed, reminded, remChanges,
                 remMishaps>>

(* The worker's process dies; the queue gives the job to another one.      *)
ReminderStalls(id) ==
  /\ Locked(id) /\ remMishaps < MaxMishaps
  /\ SetJob(id, "delayed") /\ remMishaps' = remMishaps + 1
  /\ UNCHANGED <<remClock, remShift, remLease, remDesk, remMissed, reminded, remChanges>>

(* Redis comes back empty.                                                 *)
JobsLost ==
  /\ remMishaps < MaxMishaps
  /\ \E id \in JobIds : remJobs[id].state = "delayed"
  /\ remJobs' = [id \in JobIds |-> NoRemJob]
  /\ remMissed' = TRUE /\ remMishaps' = remMishaps + 1
  /\ UNCHANGED <<remClock, remShift, remLease, remDesk, reminded, remChanges>>

(* Time passes, also while somebody is between two calls of the queue: a   *)
(* reminder that falls due just then is a mishap of its own.               *)
InSection(d) == remDesk[d].at \in {"primary", "successor", "add"}
RemTick ==
  LET between == \E d \in RemDesks : InSection(d) IN
  /\ remClock < MaxRemClock /\ remClock' = remClock + 1
  /\ between => remMishaps < MaxMishaps
  /\ remMishaps' = IF between THEN remMishaps + 1 ELSE remMishaps
  /\ UNCHANGED <<remShift, remJobs, remLease, remDesk, remMissed, reminded, remChanges>>

RemindersNext ==
  \/ \E d \in RemDesks :
       \/ ChangeBooking(d) \/ LeaveApproved(d) \/ ReconcileReminders(d)
       \/ AcquireLease(d) \/ LeaseUnavailable(d) \/ ReadBooking(d) \/ RenewLease(d)
       \/ RemovePrimary(d) \/ RemoveSuccessor(d) \/ FinishAdd(d)
  \/ LeaveWithdrawn \/ LeaseRunsOut \/ JobsLost \/ RemTick
  \/ \E id \in JobIds :
       \/ TakeReminder(id) \/ CheckReminder(id) \/ SendReminder(id) \/ ReminderFails(id)
       \/ CompleteReminder(id) \/ ReminderStalls(id)
RemindersSpec == RemindersInit /\ [][RemindersNext]_reminderVars

-----------------------------------------------------------------------------
(* Properties                                                              *)

DueOf(fp) == fp[1] - fp[2]
JobsIn(states) == {RemJob(fp, DueOf(fp), st) : fp \in Plans, st \in states}
RemJobStates == {"delayed", "active", "checked", "sent", "done"}
RemShifts == [approved : BOOLEAN, leave : BOOLEAN, start : ShiftStarts, lead : Leads]
Planned == {NoRemJob} \cup JobsIn({"delayed"})
RemDeskStates ==
  {IdleRemDesk}
  \cup [at : {"wait", "read"}, op : {"sync", "cancel"}, tries : {1, 2}]
  \cup [at : {"renew"}, op : {"sync", "cancel"}, tries : {1, 2}, saw : RemShifts]
  \cup [at : {"primary"}, op : {"sync", "cancel"}, tries : {1, 2}, job : Planned]
  \cup [at : {"successor"}, op : {"sync", "cancel"}, tries : {1, 2}, job : Planned,
        kept : {NoRemJob} \cup JobsIn(RemJobStates)]
  \cup [at : {"add"}, op : {"sync"}, tries : {1, 2}, job : JobsIn({"delayed"}), id : JobIds]

(* The jobs, and a lease that always belongs to somebody at work with it.  *)
RemindersTypeOK ==
  /\ remClock \in 0 .. MaxRemClock /\ remShift \in RemShifts
  /\ remJobs \in [JobIds -> {NoRemJob} \cup JobsIn(RemJobStates)]
  /\ remDesk \in [RemDesks -> RemDeskStates] /\ remLease \in RemDesks \cup {NoRemDesk}
  /\ remLease # NoRemDesk => remDesk[remLease].at \notin {"idle", "wait"}
  /\ remMissed \in BOOLEAN /\ reminded \in [Plans -> Nat] /\ remMishaps \in 0 .. MaxMishaps

(* Whoever is between two calls of the queue holds the lease; what he has  *)
(* seen of the jobs still goes for them, except that they may have moved   *)
(* on, so the ids never hold two reminders of one plan.                    *)
SectionsAreAlone ==
  \A d \in RemDesks :
    /\ InSection(d) => remLease = d
    /\ remDesk[d].at \in {"primary", "successor"} /\ remDesk[d].op = "cancel" =>
         remDesk[d].job = NoRemJob
    /\ remDesk[d].at = "successor" =>
         /\ remJobs["primary"] # NoRemJob =>
              remDesk[d].kept # NoRemJob /\ remJobs["primary"].fp = remDesk[d].kept.fp
         /\ remDesk[d].kept # NoRemJob => DueOf(remDesk[d].kept.fp) <= remClock
    /\ remDesk[d].at = "add" =>
         /\ remJobs[remDesk[d].id] = NoRemJob
         /\ \A id \in JobIds : remJobs[id] # NoRemJob => remJobs[id].fp # remDesk[d].job.fp
OneJobForAPlan ==
  remJobs["primary"] # NoRemJob /\ remJobs["successor"] # NoRemJob =>
    remJobs["primary"].fp # remJobs["successor"].fp

(* Nothing runs and nothing is sent before its time; from then on, what    *)
(* was sent and what still can be is accounted for.                        *)
CanSend(fp) ==
  \E id \in JobIds :
    remJobs[id].state \in {"delayed", "active", "checked"} /\ remJobs[id].fp = fp
WillAdd(fp) ==
  \E d \in RemDesks : InSection(d) /\ remDesk[d].job # NoRemJob /\ remDesk[d].job.fp = fp
RemindersInTime ==
  /\ \A id \in JobIds :
       remJobs[id].state \notin {"none", "delayed"} => DueOf(remJobs[id].fp) <= remClock
  /\ \A fp \in Plans : remClock < DueOf(fp) => reminded[fp] = 0
SendsAccounted ==
  \A fp \in Plans : DueOf(fp) <= remClock =>
    reminded[fp] + (IF CanSend(fp) THEN 1 ELSE 0) + (IF WillAdd(fp) THEN 1 ELSE 0)
      <= 1 + remMishaps

(* As long as nothing was missed, the job that should wait does, or        *)
(* somebody is on the way who adds it or notices that he cannot.           *)
Minds(d, plan) ==
  \/ remDesk[d].at \in {"wait", "read"}
  \/ /\ remDesk[d].at = "renew"
     /\ \/ remDesk[d].op = "cancel" \/ remLease # d
        \/ ReminderPlan(remDesk[d].saw, remClock) = plan
  \/ /\ remDesk[d].at \in {"primary", "successor"}
     /\ remDesk[d].op = "cancel" \/ remDesk[d].job = plan
  \/ remDesk[d].at = "add" /\ remDesk[d].job = plan
SomebodyMinds ==
  LET plan == ReminderPlan(remShift, remClock) IN
  ~remMissed /\ ~remShift.leave /\ plan # NoRemJob =>
    \/ \E d \in RemDesks : Minds(d, plan)
    \/ /\ \A d \in RemDesks : remDesk[d] = IdleRemDesk
       /\ \E id \in JobIds : remJobs[id] = plan

(* The reminder of one plan (this start, this lead) is sent once, whatever *)
(* is changed and changed back while jobs run under both ids; each mishap  *)
(* (a worker that dies, a reminder that falls due while it is replaced)    *)
(* can add one more.                                                       *)
RemindedOnce == \A fp \in Plans : reminded[fp] <= 1 + remMishaps

(* When nobody is at work and nothing was missed, a booking that stands    *)
(* has its reminder waiting, with the start and lead it has now: changes   *)
(* that cross each other and jobs that cannot be removed included.  Missed *)
(* are what fails, what a late cancellation removes again, and leave that  *)
(* is withdrawn; the reconcile makes up for these.                         *)
ReminderIsQueued ==
  (/\ \A d \in RemDesks : remDesk[d] = IdleRemDesk
   /\ ~remMissed /\ ~remShift.leave
   /\ ReminderPlan(remShift, remClock) # NoRemJob)
  => \E id \in JobIds : remJobs[id] = ReminderPlan(remShift, remClock)

(* What the reminders promise.                                             *)
ShiftRemindersPromise ==
  /\ RemindersTypeOK /\ SectionsAreAlone /\ OneJobForAPlan
  /\ RemindersInTime /\ SendsAccounted /\ SomebodyMinds
  /\ RemindedOnce /\ ReminderIsQueued
=============================================================================
