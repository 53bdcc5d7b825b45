--------------------------- MODULE ShiftAttendance ---------------------------
(***************************************************************************)
(* The working day of one employee: check-in and check-out                 *)
(* (attendance.part.ts), the end of a shift with its reminder and          *)
(* automatic check-out jobs, the chaining into an adjacent shift and the   *)
(* minute sweep (shift-end-workflow.service.ts), and the overtime, late    *)
(* arrival, early leave and absence requests that move the end of a shift  *)
(* (requests.part.ts).                                                     *)
(*                                                                         *)
(* A worker carries one operation from its first read to its last write:   *)
(* the HTTP workers serve the employee and the owner, JobWorker takes the  *)
(* delayed jobs, CronWorker runs the sweep.  A step of a worker is one     *)
(* transaction under a row lock, or one conditional statement; what an     *)
(* operation read earlier travels in its record.  A crash forgets every    *)
(* worker.                                                                 *)
(***************************************************************************)
EXTENDS AttendanceRules

CONSTANTS
  Shifts,        \* the assignments of the employee
  Slot,          \* Slot[a] = [start, end], the scheduled window of a
  Overtimes,     \* overtime requests
  OvertimeEnds,  \* the ends an overtime request may ask for
  Leaves,        \* late, early and absence requests
  LeaveKinds,    \* the kinds of them that are filed
  Rules,         \* the store's attendance rules
  Actual,        \* whether the store pays the time between the readings
  MaxOvertime,   \* the longest overtime the store allows
  ResumeDelay,   \* the five minutes a rejected overtime leaves
  Http,          \* workers serving requests
  JobWorker, CronWorker,
  MaxBusy,       \* operations in flight at once
  Horizon,       \* the clock stops here
  LastAct,       \* nobody acts after this instant
  MaxActs,       \* requests of the employee and the owner
  MaxCrashes,
  None

ASSUME WorkdayAssumption ==
  /\ Horizon \in Nat /\ ResumeDelay \in Nat /\ MaxOvertime \in Nat
  /\ MaxActs \in Nat /\ MaxCrashes \in Nat
  /\ Slot \in [Shifts -> [start : 0 .. Horizon, end : 0 .. Horizon]]
  /\ OvertimeEnds \subseteq 0 .. Horizon
  /\ LeaveKinds \subseteq {"LATE", "EARLY", "OFF"}
  /\ Rules \in [grace : Nat, earlyGrace : Nat, earlyCheckin : Nat,
                lateCheckout : Nat, creditLateEarly : BOOLEAN]
  /\ Actual \in BOOLEAN
  /\ None \notin Shifts \cup Overtimes \cup Leaves

VARIABLES
  now,
  asg,      \* shift_assignments: one row per shift
  wf,       \* shift_end_workflows: one row per shift, or None
  ot,       \* bonus_work_requests
  lv,       \* employee_leave_requests
  jobs,     \* the jobs that were put on queue shift-end-workflows
  ran,      \* those whose automatic check-out was delivered
  op,       \* op[w]: what worker w is doing
  logs,     \* logs[a]: attendance log rows written for a
  acts, crashes,
  late      \* history: overtimes approved while a check-out or a repricing of
            \* the shift was about to save what it had read

vars == <<now, asg, wf, ot, lv, jobs, ran, op, logs, acts, crashes, late>>

Workers == Http \cup {JobWorker, CronWorker}
Time == 0 .. Horizon
Instant == Time \cup {Null}
Ahead == 0 .. (Horizon + ResumeDelay)

AssignmentStatus == {"APPROVED", "CONFIRMED", "COMPLETED"}
AttendanceStatus == {"NULL", "ON_TIME", "LATE", "EARLY", "LATE_AND_EARLY",
                     "ABSENT", "FORGOT_CHECKOUT"}
WorkflowState == {"ACTIVE", "OVERTIME_PENDING", "OVERTIME_APPROVED",
                  "COMPLETED_BY_EMPLOYEE", "AUTO_COMPLETED"}
RequestStatus == {"NONE", "PENDING", "APPROVED", "REJECTED", "CANCELLED"}

Assignment ==
  [status : AssignmentStatus, in : Instant, out : Instant,
   att : AttendanceStatus, late : Nat, auto : BOOLEAN,
   adjStart : Instant, adjEnd : Instant, worked : Nat]
ShiftEndWorkflow ==
  [state : WorkflowState, sched : Ahead, eff : Ahead,
   ot : Overtimes \cup {None}]
BonusWorkRequest ==
  [status : RequestStatus, a : Shifts \cup {None}, end : Ahead]
EmployeeLeaveRequest ==
  [status : RequestStatus, kind : {"LATE", "EARLY", "OFF"},
   a : Shifts \cup {None}, at : Instant]

(* The jobs of an end, named by it: reminders from the end on, and the     *)
(* automatic check-out after the grace.  A name that was run stays taken,  *)
(* so the automatic check-out of an end runs once, again only when the     *)
(* process died over it; a reminder may come at any time after the end.    *)
Job == [a : Shifts, end : Ahead]
Due(j, auto) == IF auto THEN j.end + Rules.lateCheckout ELSE j.end

Pcs == {"idle", "checkIn", "checkOut", "schedule", "complete", "markPending",
        "reprice", "price", "rewrite", "approve", "resume", "cancel",
        "cancelLeave", "adjust", "toPending", "sweep", "chain", "auto",
        "autoWrite"}
Op ==
  [pc : Pcs, a : Shifts \cup {None}, r : Overtimes \cup Leaves \cup {None},
   at : Ahead \cup {Null}, paid : Ahead \cup {Null}, due : BOOLEAN,
   by : {"sweep", "reminder", "auto", "approval", "rejection"},
   row : Assignment \cup {None}]
Do(pc, a) ==
  [pc |-> pc, a |-> a, r |-> None, at |-> Null, paid |-> Null,
   due |-> FALSE, by |-> "sweep", row |-> None]
Idle == Do("idle", None)

WindowIn(a, x) == EffectiveWindow(Slot[a], x.adjStart, x.adjEnd)
WindowOf(a) == WindowIn(a, asg[a])
CheckedIn(a) == asg[a].in # Null
Open(a) == asg[a].in # Null /\ asg[a].out = Null
Live(status) == status \in {"PENDING", "APPROVED"}
OvertimesOf(a, statuses) ==
  {r \in Overtimes : ot[r].a = a /\ ot[r].status \in statuses}
LiveOvertimes(a) == OvertimesOf(a, {"PENDING", "APPROVED"})

(* The end of approved overtime: the only thing that pays past the end.    *)
ApprovedOvertimeEnd(a) ==
  LET approved == OvertimesOf(a, {"APPROVED"})
  IN IF approved = {} THEN Null ELSE ot[CHOOSE r \in approved : TRUE].end

(* An absence that was granted covers the shift; lateness does not.        *)
LeaveCoversShift(a) ==
  \E l \in Leaves : /\ lv[l].status = "APPROVED"
                    /\ lv[l].kind = "OFF"
                    /\ lv[l].a = a

(* Queuing a job that is queued changes nothing.                           *)
ScheduleJobs(a, end) == jobs \cup {[a |-> a, end |-> end]}

-----------------------------------------------------------------------------
Init ==
  /\ now = 0
  /\ asg = [a \in Shifts |->
              [status |-> "APPROVED", in |-> Null, out |-> Null,
               att |-> "NULL", late |-> 0, auto |-> FALSE,
               adjStart |-> Null, adjEnd |-> Null, worked |-> 0]]
  /\ wf = [a \in Shifts |-> None]
  /\ ot = [r \in Overtimes |-> [status |-> "NONE", a |-> None, end |-> 0]]
  /\ lv = [l \in Leaves |->
             [status |-> "NONE", kind |-> "OFF", a |-> None, at |-> Null]]
  /\ jobs = {}
  /\ ran = {}
  /\ op = [w \in Workers |-> Idle]
  /\ logs = [a \in Shifts |-> [in |-> 0, out |-> 0]]
  /\ acts = 0
  /\ crashes = 0
  /\ late = {}

Busy == {w \in Workers : op[w] # Idle}
Takes(w, o) ==
  /\ op[w] = Idle
  /\ Cardinality(Busy) < MaxBusy
  /\ op' = [op EXCEPT ![w] = o]
Goes(w, o) == op' = [op EXCEPT ![w] = o]
Ends(w) == op' = [op EXCEPT ![w] = Idle]
At(w, pc) == op[w].pc = pc
Acting ==
  /\ now <= LastAct
  /\ acts < MaxActs
  /\ acts' = acts + 1

-----------------------------------------------------------------------------
(* Check-in                                                                *)

(* The reads of checkInWithFace, before the policy and the face are        *)
(* looked at: a shift already checked in answers as recorded, otherwise    *)
(* the shift is approved and neither over nor written off, no other shift  *)
(* of the employee is under way, and check-in has opened.                  *)
CheckInBegin(w, a) ==
  /\ Acting
  /\ IF CheckedIn(a) THEN Takes(w, Do("schedule", a))
     ELSE /\ asg[a].status = "APPROVED"
          /\ asg[a].att # "ABSENT"
          /\ now < WindowOf(a).end
          /\ \A b \in Shifts \ {a} :
               asg[b].status = "CONFIRMED" /\ asg[b].out = Null
                 => now >= WindowOf(b).end
          /\ now >= CheckInOpensAt(Slot[a].start, Rules)
          /\ Takes(w, Do("checkIn", a))
  /\ UNCHANGED <<now, ran, asg, wf, ot, lv, jobs, logs, crashes, late>>

(* The transaction of checkInWithFace, or a policy or face that refuses.   *)
CheckInCommit(w) ==
  LET a == op[w].a
      lateBy == ApplyGrace(LateMinutes(WindowOf(a).start, now), Rules.grace)
  IN
  /\ At(w, "checkIn")
  /\ \/ /\ ~CheckedIn(a)
        /\ asg[a].status = "APPROVED"
        /\ asg' = [asg EXCEPT ![a] =
                     [@ EXCEPT !.in = now, !.late = lateBy,
                               !.status = "CONFIRMED",
                               !.att = IF lateBy > 0 THEN "LATE" ELSE "ON_TIME"]]
        /\ logs' = [logs EXCEPT ![a].in = @ + 1]
        /\ Goes(w, Do("schedule", a))
     \/ /\ CheckedIn(a)
        /\ Goes(w, Do("schedule", a))
        /\ UNCHANGED <<asg, logs>>
     \/ /\ Ends(w)
        /\ UNCHANGED <<asg, logs>>
  /\ UNCHANGED <<acts, now, ran, wf, ot, lv, jobs, crashes, late>>

(* The workflow of a: what is there stays, and its jobs are queued again.  *)
(* The unique index makes the row once however many callers insert it.     *)
ScheduledWorkflow(a) ==
  LET end == OrElse(asg[a].adjEnd, Slot[a].end)
  IN IF wf[a] # None THEN wf[a]
     ELSE [state |-> "ACTIVE", sched |-> end, eff |-> end, ot |-> None]

ScheduleForAssignment(w) ==
  LET a == op[w].a IN
  /\ At(w, "schedule")
  /\ IF Open(a)
     THEN /\ wf' = [wf EXCEPT ![a] = ScheduledWorkflow(a)]
          /\ jobs' = ScheduleJobs(a, ScheduledWorkflow(a).eff)
     ELSE UNCHANGED <<wf, jobs>>
  /\ Ends(w)
  /\ UNCHANGED <<acts, now, ran, asg, ot, lv, logs, crashes, late>>

-----------------------------------------------------------------------------
(* Check-out                                                               *)

\* What a row x of shift a, as it was read, earns by a check-out.
WorkedIn(a, x, at, paid, capped) ==
  CreditedWorkedMinutes(WindowIn(a, x), x.in, at, Rules, x.late,
                        paid, Actual, capped)
Worked(a, at, paid, capped) == WorkedIn(a, asg[a], at, paid, capped)

(* The reads of checkOutWithFace; the approved overtime is looked up here, *)
(* before the transaction.                                                 *)
CheckOutBegin(w, a) ==
  /\ Acting
  /\ CheckedIn(a)
  /\ IF asg[a].out # Null THEN Takes(w, Do("complete", a))
     ELSE Takes(w, [Do("checkOut", a) EXCEPT
                      !.at = now, !.paid = ApprovedOvertimeEnd(a)])
  /\ UNCHANGED <<now, ran, asg, wf, ot, lv, jobs, logs, crashes, late>>

(* What the readings make of the day.                                      *)
StatusAtCheckOut(a, early) ==
  CASE asg[a].late > 0 /\ early > 0 -> "LATE_AND_EARLY"
    [] ~(asg[a].late > 0) /\ early > 0 -> "EARLY"
    [] OTHER -> IF asg[a].att = "NULL" THEN "ON_TIME" ELSE asg[a].att

CheckOutCommit(w) ==
  LET a == op[w].a
      early == ApplyGrace(EarlyMinutes(WindowOf(a).end, op[w].at),
                          Rules.earlyGrace)
  IN
  /\ At(w, "checkOut")
  /\ IF asg[a].out = Null
     THEN /\ asg' = [asg EXCEPT ![a] =
                       [@ EXCEPT !.out = op[w].at,
                                 !.worked = Worked(a, op[w].at, op[w].paid, FALSE),
                                 !.att = StatusAtCheckOut(a, early),
                                 !.status = "COMPLETED"]]
          /\ logs' = [logs EXCEPT ![a].out = @ + 1]
     ELSE UNCHANGED <<asg, logs>>
  /\ Goes(w, Do("complete", a))
  /\ UNCHANGED <<acts, now, ran, wf, ot, lv, jobs, crashes, late>>

(* After the answer: the workflow is closed and payroll is queued.         *)
MarkCompletedByEmployee(w) ==
  LET a == op[w].a IN
  /\ At(w, "complete")
  /\ wf' = IF wf[a] = None THEN wf
           ELSE [wf EXCEPT ![a].state = "COMPLETED_BY_EMPLOYEE"]
  /\ Ends(w)
  /\ UNCHANGED <<acts, now, ran, asg, ot, lv, jobs, logs, crashes, late>>

-----------------------------------------------------------------------------
(* Overtime                                                                *)

(* createBonusWorkRequest, under the row lock of the shift: one live       *)
(* request per shift, and none beside a live early leave.                  *)
RequestOvertime(w, a, r, end) ==
  /\ Acting
  /\ ot[r].status = "NONE"
  /\ asg[a].status \in {"APPROVED", "CONFIRMED"}
  /\ asg[a].out = Null
  /\ end > WindowOf(a).end
  /\ end - WindowOf(a).end <= MaxOvertime
  /\ LiveOvertimes(a) = {}
  /\ ~ \E l \in Leaves : lv[l].a = a /\ lv[l].kind = "EARLY" /\ Live(lv[l].status)
  /\ ot' = [ot EXCEPT ![r] = [status |-> "PENDING", a |-> a, end |-> end]]
  /\ Takes(w, [Do("markPending", a) EXCEPT !.r = r])
  /\ UNCHANGED <<now, ran, asg, wf, lv, jobs, logs, crashes, late>>

(* markOvertimePending, and the same statement of a reminder job that met  *)
(* a pending request: unconditional.                                       *)
MarkOvertimePending(w) ==
  LET a == op[w].a IN
  /\ op[w].pc \in {"markPending", "toPending"}
  /\ wf' = IF wf[a] = None THEN wf
           ELSE [wf EXCEPT ![a] = [@ EXCEPT !.state = "OVERTIME_PENDING",
                                            !.ot = op[w].r]]
  /\ Ends(w)
  /\ UNCHANGED <<acts, now, ran, asg, ot, lv, jobs, logs, crashes, late>>

(* decideBonusWorkRequest: conditional on the status that was read, so the *)
(* read and the update are one step; only a pending request is approved,   *)
(* an approved one may still be rejected.                                  *)
ApproveBonusWork(w, r) ==
  /\ Acting
  /\ ot[r].status = "PENDING"
  /\ ot' = [ot EXCEPT ![r].status = "APPROVED"]
  /\ late' = IF \E v \in Workers : op[v].pc \in {"checkOut", "rewrite"}
                                     /\ op[v].a = ot[r].a
             THEN late \cup {r} ELSE late
  /\ Takes(w, [Do("reprice", ot[r].a) EXCEPT !.r = r, !.by = "approval"])
  /\ UNCHANGED <<now, ran, asg, wf, lv, jobs, logs, crashes>>

RejectBonusWork(w, r) ==
  /\ Acting
  /\ Live(ot[r].status)
  /\ ot' = [ot EXCEPT ![r].status = "REJECTED"]
  /\ Takes(w, [Do("reprice", ot[r].a) EXCEPT !.r = r, !.by = "rejection"])
  /\ UNCHANGED <<now, ran, asg, wf, lv, jobs, logs, crashes, late>>

(* repriceCheckedOutOvertime: a shift the employee closed is paid again    *)
(* with the overtime that is approved now.  It reads the shift, ...        *)
Repriced(o) ==
  [o EXCEPT !.pc = IF o.by = "approval" THEN "approve" ELSE "resume", !.row = None]
RepriceCheckedOutOvertime(w) ==
  LET o == op[w] IN
  /\ At(w, "reprice")
  /\ Goes(w, IF asg[o.a].status = "COMPLETED" /\ ~asg[o.a].auto
             THEN [o EXCEPT !.pc = "price", !.row = asg[o.a]]
             ELSE Repriced(o))
  /\ UNCHANGED <<acts, now, ran, asg, wf, ot, lv, jobs, logs, crashes, late>>

(* ... then the approved overtime, ...                                     *)
PriceOvertime(w) ==
  LET o == op[w]
      minutes == WorkedIn(o.a, o.row, o.row.out, ApprovedOvertimeEnd(o.a), FALSE)
  IN
  /\ At(w, "price")
  /\ Goes(w, IF minutes = o.row.worked THEN Repriced(o)
             ELSE [o EXCEPT !.pc = "rewrite", !.row.worked = minutes])
  /\ UNCHANGED <<acts, now, ran, asg, wf, ot, lv, jobs, logs, crashes, late>>

(* ... and saves the minutes, whatever was decided or saved since.         *)
SaveRepriced(w) ==
  LET o == op[w] IN
  /\ At(w, "rewrite")
  /\ asg' = IF asg[o.a].status = "COMPLETED"
            THEN [asg EXCEPT ![o.a].worked = o.row.worked] ELSE asg
  /\ Goes(w, Repriced(o))
  /\ UNCHANGED <<acts, now, ran, wf, ot, lv, jobs, logs, crashes, late>>

(* approveOvertime: the end moves to the approved one.                     *)
ApproveOvertime(w) ==
  LET a == op[w].a IN
  /\ At(w, "approve")
  /\ IF wf[a] = None THEN UNCHANGED <<wf, jobs>>
     ELSE /\ wf' = [wf EXCEPT ![a] = [@ EXCEPT !.state = "OVERTIME_APPROVED",
                                               !.eff = ot[op[w].r].end,
                                               !.ot = op[w].r]]
          /\ jobs' = ScheduleJobs(a, ot[op[w].r].end)
  /\ Ends(w)
  /\ UNCHANGED <<acts, now, ran, asg, ot, lv, logs, crashes, late>>

(* resumeAfterOvertime: back to the scheduled end, or to a few minutes     *)
(* from now when that has passed.                                          *)
ResumeAfterOvertime(w) ==
  LET a == op[w].a
      end == IF now > wf[a].sched THEN now + ResumeDelay ELSE wf[a].sched
  IN
  /\ At(w, "resume")
  /\ IF wf[a] = None THEN UNCHANGED <<wf, jobs>>
     ELSE /\ wf' = [wf EXCEPT ![a] = [@ EXCEPT !.state = "ACTIVE", !.eff = end,
                                               !.ot = None]]
          /\ jobs' = ScheduleJobs(a, end)
  /\ Ends(w)
  /\ UNCHANGED <<acts, now, ran, asg, ot, lv, logs, crashes, late>>

(* cancelBonusWorkRequest: read and check, then a save that overwrites     *)
(* whatever the owner decided meanwhile.                                   *)
CancelBonusWorkBegin(w, r) ==
  /\ Acting
  /\ ot[r].status = "PENDING"
  /\ Takes(w, [Do("cancel", ot[r].a) EXCEPT !.r = r])
  /\ UNCHANGED <<now, ran, asg, wf, ot, lv, jobs, logs, crashes, late>>

CancelBonusWorkSave(w) ==
  /\ At(w, "cancel")
  /\ ot' = [ot EXCEPT ![op[w].r].status = "CANCELLED"]
  /\ Goes(w, [op[w] EXCEPT !.pc = "resume"])
  /\ UNCHANGED <<acts, now, ran, asg, wf, lv, jobs, logs, crashes, late>>

-----------------------------------------------------------------------------
(* Late arrival, early leave, absence                                      *)

(* createLeaveRequest with assertShiftChangeRequestFits, under the row     *)
(* lock of the shift.                                                      *)
CreateLeaveRequest(a, l, kind, at) ==
  /\ Acting
  /\ lv[l].status = "NONE"
  /\ ~ \E m \in Leaves :
         lv[m].a = a /\ lv[m].kind = kind /\ lv[m].status = "PENDING"
  /\ kind \in {"LATE", "EARLY"} =>
       /\ at \in (Slot[a].start + 1) .. (Slot[a].end - 1)
       /\ kind = "LATE" => at > now
       /\ ~ \E m \in Leaves :
              lv[m].a = a /\ lv[m].kind = kind /\ lv[m].status = "APPROVED"
       /\ kind = "EARLY" => LiveOvertimes(a) = {}
  /\ kind = "OFF" => at = Slot[a].start
  /\ lv' = [lv EXCEPT ![l] =
              [status |-> "PENDING", kind |-> kind, a |-> a, at |-> at]]
  /\ UNCHANGED <<now, ran, asg, wf, ot, jobs, op, logs, crashes, late>>

(* The row after a granted late arrival: the start moves to the requested  *)
(* instant, or to the check-in when that was earlier, never before the     *)
(* scheduled one.                                                          *)
AfterLate(a, at) ==
  LET x == asg[a]
      start == AtLeast(Slot[a].start,
                       IF x.in # Null /\ x.in < at THEN x.in ELSE at)
      lateBy == IF x.in = Null THEN x.late
                ELSE ApplyGrace(LateMinutes(start, x.in), Rules.grace)
  IN [x EXCEPT !.adjStart = start, !.late = lateBy]

(* The row after a granted early leave: the end moves to the requested     *)
(* instant, never into the past of a running shift nor before the          *)
(* check-out, and never past the current end.                              *)
AfterEarly(a, at) ==
  LET x == asg[a]
      wanted == CASE Open(a) -> AtLeast(at, now)
                  [] x.out # Null -> AtLeast(at, x.out)
                  [] ~CheckedIn(a) -> at
  IN [x EXCEPT !.adjEnd = AtMost(wanted, WindowOf(a).end)]

(* applyApprovedShiftChange: the window moves, and the recorded status is  *)
(* taken from the minutes again unless the check-out was forgotten.        *)
ApplyApprovedShiftChange(a, kind, at) ==
  LET x == IF kind = "LATE" THEN AfterLate(a, at) ELSE AfterEarly(a, at)
      fits == IF kind = "LATE" THEN at < WindowOf(a).end
              ELSE at > WindowOf(a).start
      earlyBy == IF x.out = Null THEN 0
                 ELSE ApplyGrace(EarlyMinutes(OrElse(x.adjEnd, Slot[a].end),
                                              x.out), Rules.earlyGrace)
  IN IF kind = "OFF" \/ ~fits \/ asg[a].att = "ABSENT" THEN asg[a]
     ELSE IF x.in = Null \/ x.att = "FORGOT_CHECKOUT" THEN x
     ELSE [x EXCEPT !.att = CASE x.late > 0 /\ earlyBy > 0 -> "LATE_AND_EARLY"
                              [] x.late > 0 /\ earlyBy = 0 -> "LATE"
                              [] x.late = 0 /\ earlyBy > 0 -> "EARLY"
                              [] x.late = 0 /\ earlyBy = 0 -> "ON_TIME"]

(* processRequest of a leave: conditional on PENDING, the change of the    *)
(* shift in the same transaction; an early leave granted during the shift  *)
(* then moves the end of its workflow.                                     *)
DecideLeave(w, l, approved) ==
  LET a == lv[l].a IN
  /\ Acting
  /\ lv[l].status = "PENDING"
  /\ lv' = [lv EXCEPT ![l].status = IF approved THEN "APPROVED" ELSE "REJECTED"]
  /\ IF approved
     THEN /\ asg' = [asg EXCEPT ![a] =
                       ApplyApprovedShiftChange(a, lv[l].kind, lv[l].at)]
          /\ Takes(w, IF lv[l].kind = "EARLY" /\ asg'[a] # asg[a] /\ Open(a)
                      THEN Do("adjust", a) ELSE Idle)
     ELSE /\ op[w] = Idle
          /\ UNCHANGED <<asg, op>>
  /\ UNCHANGED <<now, ran, wf, ot, jobs, logs, crashes, late>>

(* cancelLeaveRequest: read and check, then a save that overwrites.        *)
CancelLeaveBegin(w, l) ==
  /\ Acting
  /\ lv[l].status = "PENDING"
  /\ Takes(w, [Do("cancelLeave", lv[l].a) EXCEPT !.r = l])
  /\ UNCHANGED <<now, ran, asg, wf, ot, lv, jobs, logs, crashes, late>>

CancelLeaveSave(w) ==
  /\ At(w, "cancelLeave")
  /\ lv' = [lv EXCEPT ![op[w].r].status = "CANCELLED"]
  /\ Ends(w)
  /\ UNCHANGED <<acts, now, ran, asg, wf, ot, jobs, logs, crashes, late>>

(* applyAdjustedEnd: only an ACTIVE workflow moves, never into the past.   *)
ApplyAdjustedEnd(w) ==
  LET a == op[w].a
      end == AtLeast(asg[a].adjEnd, now)
  IN
  /\ At(w, "adjust")
  /\ IF ~Open(a) THEN UNCHANGED <<wf, jobs>>
     ELSE IF wf[a] = None
     THEN /\ wf' = [wf EXCEPT ![a] = ScheduledWorkflow(a)]
          /\ jobs' = ScheduleJobs(a, ScheduledWorkflow(a).eff)
     ELSE IF wf[a].state # "ACTIVE" THEN UNCHANGED <<wf, jobs>>
     ELSE /\ wf' = [wf EXCEPT ![a] = [@ EXCEPT !.sched = end, !.eff = end]]
          /\ jobs' = ScheduleJobs(a, end)
  /\ Ends(w)
  /\ UNCHANGED <<acts, now, ran, asg, ot, lv, logs, crashes, late>>

-----------------------------------------------------------------------------
(* The end of a shift                                                      *)

(* handleReminderJob: a job whose end has moved, or whose workflow is      *)
(* neither active nor in approved overtime, does nothing; a closed shift   *)
(* closes the workflow; pending overtime parks it; an active one is first  *)
(* offered to the next shift, before it is reminded or closed.             *)
HandleReminderJob(j, auto) ==
  LET a == j.a
      pending == OvertimesOf(a, {"PENDING"})
      current == /\ wf[a] # None
                 /\ wf[a].eff = j.end
                 /\ wf[a].state \in {"ACTIVE", "OVERTIME_APPROVED"}
                 /\ CheckedIn(a)
      mine(pc) == [Do(pc, a) EXCEPT !.at = j.end,
                                    !.by = IF auto THEN "auto" ELSE "reminder"]
  IN
  /\ now >= Due(j, auto)
  /\ IF auto THEN j \notin ran /\ ran' = ran \cup {j}
     ELSE 0 < Rules.lateCheckout /\ UNCHANGED ran
  /\ wf' = IF current /\ asg[a].out # Null
           THEN [wf EXCEPT ![a].state = "COMPLETED_BY_EMPLOYEE"] ELSE wf
  /\ Takes(JobWorker,
           IF ~current \/ asg[a].out # Null THEN Idle
           ELSE IF pending # {}
           THEN [mine("toPending") EXCEPT !.r = CHOOSE r \in pending : TRUE]
           ELSE IF wf[a].state = "ACTIVE" THEN mine("chain")
           ELSE IF auto THEN mine("auto") ELSE Idle)
  /\ UNCHANGED <<acts, now, asg, ot, lv, jobs, logs, crashes, late>>

(* A shift that begins at the very instant a ends, approved, not begun and *)
(* not covered by leave.                                                   *)
ChainedNext(a) ==
  {b \in Shifts \ {a} : /\ asg[b].status = "APPROVED"
                        /\ ~CheckedIn(b)
                        /\ WindowOf(b).start = WindowOf(a).end
                        /\ ~LeaveCoversShift(b)}

Chainable(a, b) ==
  /\ Open(a)
  /\ asg[a].status = "CONFIRMED"
  /\ now >= WindowOf(a).end
  /\ LiveOvertimes(a) = {}
  /\ b \in ChainedNext(a)
  /\ asg[b].att # "ABSENT"
  /\ now < WindowOf(b).end

(* chainIntoNextShift: one transaction under the locks of both rows closes *)
(* a at its end and opens b at the same instant; then payroll is queued    *)
(* and the workflow of b is made.                                          *)
ChainIntoNextShift(w, b) ==
  LET a == op[w].a
      end == WindowOf(a).end
  IN
  /\ At(w, "chain")
  /\ Chainable(a, b)
  /\ asg' = [asg EXCEPT
               ![a] = [@ EXCEPT !.out = end, !.status = "COMPLETED",
                                !.worked = Worked(a, end, Null, FALSE)],
               ![b] = [@ EXCEPT !.in = end, !.late = 0, !.att = "ON_TIME",
                                !.status = "CONFIRMED"]]
  /\ logs' = [logs EXCEPT ![a].out = @ + 1, ![b].in = @ + 1]
  /\ wf' = IF wf[a] = None THEN wf
           ELSE [wf EXCEPT ![a].state = "COMPLETED_BY_EMPLOYEE"]
  /\ Goes(w, Do("schedule", b))
  /\ UNCHANGED <<acts, now, ran, ot, lv, jobs, crashes, late>>

(* No next shift: the automatic check-out job closes the shift, the sweep  *)
(* does when the grace is over, the reminder job only reminds.             *)
NoNextShift(w) ==
  LET o == op[w] IN
  /\ At(w, "chain")
  /\ \A b \in Shifts : ~Chainable(o.a, b)
  /\ Goes(w, IF o.by = "auto" \/ (o.by = "sweep" /\ now >= o.at + Rules.lateCheckout)
             THEN [o EXCEPT !.pc = "auto"] ELSE Idle)
  /\ UNCHANGED <<acts, now, ran, asg, wf, ot, lv, jobs, logs, crashes, late>>

(* Mutant: overtime is over at its end, without the grace.                 *)
OvertimeOverAtOnce(r) == now >= ot[r].end

(* Approved overtime is over when its end and the grace are past.          *)
ApprovedOvertimeOver(r) == now >= ot[r].end + Rules.lateCheckout

(* The reads of autoCheckout: the shift is open, no pending overtime       *)
(* unless it has run out, and no approved overtime that is not over.       *)
AutoCheckoutRead(w) ==
  LET o == op[w]
      approved == OvertimesOf(o.a, {"APPROVED"})
      pending == OvertimesOf(o.a, {"PENDING"})
  IN
  /\ At(w, "auto")
  /\ Goes(w, IF /\ Open(o.a)
                /\ pending # {} => o.due
                /\ \A r \in approved : ApprovedOvertimeOver(r)
             THEN [o EXCEPT !.pc = "autoWrite",
                            !.r = IF pending = {} THEN None
                                  ELSE CHOOSE r \in pending : TRUE,
                            !.paid = ApprovedOvertimeEnd(o.a)]
             ELSE Idle)
  /\ UNCHANGED <<acts, now, ran, asg, wf, ot, lv, jobs, logs, crashes, late>>

(* Mutant: the update takes what was read for granted.                     *)
ClosedAsRead(a) == TRUE

(* The condition of the update that closes a shift automatically.          *)
StillToClose(a) == asg[a].out = Null /\ asg[a].status = "CONFIRMED"

(* Its writes: the shift is closed unless somebody closed it first, the    *)
(* pending request it saw expires if it is still pending.                  *)
AutoCheckoutWrite(w) ==
  LET o == op[w] IN
  /\ At(w, "autoWrite")
  /\ IF StillToClose(o.a)
     THEN /\ asg' = [asg EXCEPT ![o.a] =
                       [@ EXCEPT !.out = now, !.auto = TRUE,
                                 !.att = "FORGOT_CHECKOUT",
                                 !.status = "COMPLETED",
                                 !.worked = Worked(o.a, o.at, o.paid, TRUE)]]
          /\ ot' = IF o.r # None /\ ot[o.r].status = "PENDING"
                   THEN [ot EXCEPT ![o.r].status = "CANCELLED"] ELSE ot
          /\ logs' = [logs EXCEPT ![o.a].out = @ + 1]
          /\ wf' = IF wf[o.a] = None THEN wf
                   ELSE [wf EXCEPT ![o.a].state = "AUTO_COMPLETED"]
     ELSE UNCHANGED <<asg, ot, logs, wf>>
  /\ Ends(w)
  /\ UNCHANGED <<acts, now, ran, lv, jobs, crashes, late>>

-----------------------------------------------------------------------------
(* The minute sweep                                                        *)

(* Mutant: a request nobody decides keeps the shift open for ever.         *)
PendingForEver(f) == Horizon + 1

(* When pending overtime is over: the asked-for end and the grace.         *)
PendingOvertimeAutoCheckoutAt(f) ==
  (IF f.ot # None THEN AtLeast(f.eff, ot[f.ot].end) ELSE f.eff)
    + Rules.lateCheckout

(* reconcileActiveAssignments, for one shift that is checked in: its       *)
(* workflow and jobs are made if they are missing, then it is chained or   *)
(* closed when its time has come.                                          *)
ReconcileActive(a) ==
  LET f == ScheduledWorkflow(a)
      o(pc) == [Do(pc, a) EXCEPT !.at = f.eff,
                                 !.due = f.state = "OVERTIME_PENDING"]
  IN
  /\ asg[a].status = "CONFIRMED"
  /\ asg[a].out = Null
  /\ wf' = [wf EXCEPT ![a] = f]
  /\ jobs' = ScheduleJobs(a, f.eff)
  /\ Takes(CronWorker,
           CASE f.state = "ACTIVE" /\ now >= f.eff -> o("chain")
             [] f.state = "OVERTIME_APPROVED"
                /\ now >= f.eff + Rules.lateCheckout -> o("auto")
             [] f.state = "OVERTIME_PENDING"
                /\ now >= PendingOvertimeAutoCheckoutAt(f) -> o("auto")
             [] OTHER -> Idle)
  /\ UNCHANGED <<acts, now, ran, asg, ot, lv, logs, crashes, late>>

(* reconcileUnstartedAssignments: one conditional update writes off an     *)
(* approved shift nobody came to.                                          *)
MarkAbsent(a) ==
  /\ asg[a].status = "APPROVED"
  /\ asg[a].in = Null
  /\ asg[a].att = "NULL"
  /\ ~LeaveCoversShift(a)
  /\ now >= WindowOf(a).end
  /\ asg' = [asg EXCEPT ![a].att = "ABSENT"]
  /\ UNCHANGED <<acts, now, ran, wf, ot, lv, jobs, op, logs, crashes, late>>

-----------------------------------------------------------------------------
(* Past LastAct the clock waits for the requests in flight, so that their  *)
(* effects fall before the horizon.                                        *)
Tick ==
  /\ now < Horizon
  /\ now >= LastAct => \A w \in Http : op[w] = Idle
  /\ now' = now + 1
  /\ UNCHANGED <<acts, ran, asg, wf, ot, lv, jobs, op, logs, crashes, late>>

(* The process dies; a job it was running is delivered again.              *)
InFlight ==
  {j \in jobs : LET o == op[JobWorker]
                IN o # Idle /\ o.by = "auto" /\ o.a = j.a /\ o.at = j.end}
Crash ==
  /\ crashes < MaxCrashes
  /\ \E w \in Workers : op[w] # Idle
  /\ crashes' = crashes + 1
  /\ ran' = ran \ InFlight
  /\ op' = [w \in Workers |-> Idle]
  /\ UNCHANGED <<acts, now, asg, wf, ot, lv, jobs, logs, late>>

(* A request is served by a free worker; which one makes no difference.    *)
IdleHttp == {w \in Http : op[w] = Idle}

Requests(w) ==
  \/ \E a \in Shifts : CheckInBegin(w, a) \/ CheckOutBegin(w, a)
  \/ \E a \in Shifts, r \in Overtimes, end \in OvertimeEnds :
       RequestOvertime(w, a, r, end)
  \/ \E r \in Overtimes : \/ ApproveBonusWork(w, r)
                          \/ RejectBonusWork(w, r)
                          \/ CancelBonusWorkBegin(w, r)
  \/ \E l \in Leaves : \/ \E approved \in BOOLEAN : DecideLeave(w, l, approved)
                       \/ CancelLeaveBegin(w, l)

Continue(w) ==
  \/ CheckInCommit(w)
  \/ ScheduleForAssignment(w)
  \/ CheckOutCommit(w)
  \/ MarkCompletedByEmployee(w)
  \/ MarkOvertimePending(w)
  \/ RepriceCheckedOutOvertime(w)
  \/ PriceOvertime(w)
  \/ SaveRepriced(w)
  \/ ApproveOvertime(w)
  \/ ResumeAfterOvertime(w)
  \/ CancelBonusWorkSave(w)
  \/ CancelLeaveSave(w)
  \/ ApplyAdjustedEnd(w)
  \/ \E b \in Shifts : ChainIntoNextShift(w, b)
  \/ NoNextShift(w)
  \/ AutoCheckoutRead(w)
  \/ AutoCheckoutWrite(w)

Next ==
  \/ /\ IdleHttp # {}
     /\ Requests(CHOOSE w \in IdleHttp : TRUE)
  \/ \E w \in Workers : Continue(w)
  \/ \E a \in Shifts, l \in Leaves, kind \in LeaveKinds, at \in Time :
       CreateLeaveRequest(a, l, kind, at)
  \/ \E j \in jobs, auto \in BOOLEAN : HandleReminderJob(j, auto)
  \/ \E a \in Shifts : ReconcileActive(a) \/ MarkAbsent(a)
  \/ Tick
  \/ Crash

Spec == Init /\ [][Next]_vars

(* Time passes, what was begun is carried on, the sweep, which runs every  *)
(* minute, comes to every shift again and again, and the queue delivers    *)
(* the automatic check-out of every end.  Reminders are promised nothing.  *)
Fairness ==
  /\ WF_vars(Tick)
  /\ \A w \in Workers : WF_vars(Continue(w))
  /\ \A a \in Shifts : SF_vars(ReconcileActive(a)) /\ WF_vars(MarkAbsent(a))
  /\ SF_vars(\E j \in jobs : HandleReminderJob(j, TRUE))

FairSpec == Spec /\ Fairness

-----------------------------------------------------------------------------
TypeOK ==
  /\ now \in Time
  /\ asg \in [Shifts -> Assignment]
  /\ wf \in [Shifts -> ShiftEndWorkflow \cup {None}]
  /\ ot \in [Overtimes -> BonusWorkRequest]
  /\ lv \in [Leaves -> EmployeeLeaveRequest]
  /\ jobs \subseteq Job
  /\ ran \subseteq jobs
  /\ op \in [Workers -> Op]
  /\ logs \in [Shifts -> [in : Nat, out : Nat]]
  /\ acts \in 0 .. MaxActs
  /\ crashes \in 0 .. MaxCrashes
  /\ late \subseteq Overtimes

(* However the employee, the automatic check-out job, the chaining and the *)
(* sweep race, a shift is begun once and closed once: every reading has    *)
(* one log row, and a shift is COMPLETED exactly when it was closed.       *)
ReadOnce ==
  \A a \in Shifts :
    /\ logs[a].in = IF CheckedIn(a) THEN 1 ELSE 0
    /\ logs[a].out = IF asg[a].out # Null THEN 1 ELSE 0
    /\ asg[a].status = "COMPLETED" <=> asg[a].out # Null

(* A shift written off as absent was not worked: no check-in, early or     *)
(* late, and no chaining brings a shift and its absence together.          *)
AbsentWasNotWorked ==
  \A a \in Shifts : asg[a].att = "ABSENT" => asg[a].in = Null

(* Overtime and early leave exclude each other: each is refused while the  *)
(* other is pending or granted, whichever is filed first.                  *)
OvertimeOrEarlyLeave ==
  \A a \in Shifts :
    LiveOvertimes(a) # {} =>
      ~ \E l \in Leaves :
          lv[l].a = a /\ lv[l].kind = "EARLY" /\ Live(lv[l].status)

(* Overtime that is approved is paid: once nothing about the shift is in   *)
(* flight, a shift the employee closed carries the minutes up to the       *)
(* approved end, unless the approval fell between the reads and the write  *)
(* of a check-out or of another repricing, or a granted late arrival or    *)
(* early leave has moved the window, which nothing pays again.             *)
PaidWith(r) == Worked(ot[r].a, asg[ot[r].a].out, ot[r].end, FALSE)
OwesOvertime(r) ==
  LET a == ot[r].a IN
  /\ ot[r].status = "APPROVED"
  /\ r \notin late
  /\ asg[a].status = "COMPLETED"
  /\ ~asg[a].auto
  /\ asg[a].adjStart = Null /\ asg[a].adjEnd = Null
  /\ crashes = 0
ApprovedOvertimeIsPaid ==
  \A r \in Overtimes :
    OwesOvertime(r) /\ (\A w \in Workers : op[w].a # ot[r].a)
      => asg[ot[r].a].worked = PaidWith(r)

(* What makes that inductive: requests are for shifts, a shift has one     *)
(* live overtime request, a check-out under way knows of the overtime it   *)
(* must pay, and a closed shift that is not paid yet has its repricing     *)
(* under way.                                                              *)
RequestsNameShifts ==
  /\ \A r \in Overtimes : ot[r].status # "NONE" => ot[r].a \in Shifts
  /\ \A l \in Leaves :
       lv[l].status # "NONE" => lv[l].a \in Shifts /\ lv[l].at \in Time
OneLiveOvertime ==
  \A r, s \in Overtimes :
    Live(ot[r].status) /\ Live(ot[s].status) /\ ot[r].a = ot[s].a => r = s
CheckOutKnowsOvertime ==
  \A w \in Workers, r \in Overtimes :
    At(w, "checkOut") /\ op[w].a = ot[r].a /\ ot[r].status = "APPROVED"
      => r \in late \/ op[w].paid = ot[r].end
PaidOrRepricing ==
  \A r \in Overtimes :
    OwesOvertime(r) =>
      \/ asg[ot[r].a].worked = PaidWith(r)
      \/ \E w \in Workers :
           /\ op[w].a = ot[r].a
           /\ \/ op[w].pc \in {"reprice", "rewrite"}
              \/ At(w, "price") /\ op[w].row.worked = asg[ot[r].a].worked

(* A repricing under way has read the row as it is but for its minutes and *)
(* a window moved since, and is about to save what the shift is owed.      *)
SameDay(x, y) ==
  /\ x.in = y.in /\ x.out = y.out
  /\ y.adjStart = Null /\ y.adjEnd = Null =>
       x.adjStart = Null /\ x.adjEnd = Null /\ x.late = y.late
RepricingsRead ==
  \A w \in Workers :
    LET o == op[w] IN
    o.pc \in {"price", "rewrite"} =>
      /\ asg[o.a].status = "COMPLETED" /\ ~asg[o.a].auto
      /\ SameDay(o.row, asg[o.a])
      /\ At(w, "rewrite") => \A r \in Overtimes :
           OwesOvertime(r) /\ ot[r].a = o.a => o.row.worked = PaidWith(r)

(* What an operation carries from its reads to its writes: the automatic   *)
(* check-out comes only after the end it was made for, and after the       *)
(* overtime it found approved, each with the grace.                        *)
Overdue(o) == now >= o.at + Rules.lateCheckout
OpsAreSound ==
  \A w \in Workers :
    LET o == op[w] IN
    /\ o.pc # "idle" => o.a \in Shifts
    /\ o.pc \in {"markPending", "toPending", "reprice", "price", "rewrite",
                 "approve", "resume", "cancel"}
         => o.r \in Overtimes
    /\ o.pc \in {"price", "rewrite"} => o.row \in Assignment
    /\ o.pc = "cancel" => ot[o.r].status # "NONE"
    /\ o.pc = "cancelLeave" => o.r \in Leaves /\ lv[o.r].status # "NONE"
    /\ o.pc = "checkOut" => o.at \in Time /\ CheckedIn(o.a)
    /\ o.pc \in {"chain", "auto", "autoWrite"} => o.at \in Ahead
    /\ o.pc = "chain" /\ o.by = "auto" => Overdue(o)
    /\ o.pc \in {"auto", "autoWrite"} => Overdue(o)
    /\ o.pc = "autoWrite" =>
         /\ o.r \in Overtimes \cup {None}
         /\ o.paid # Null => now >= o.paid + Rules.lateCheckout

(* What a working day keeps true, whoever acts on it at the same time.     *)
WorkdayInv ==
  /\ TypeOK
  /\ OpsAreSound
  /\ ReadOnce
  /\ AbsentWasNotWorked
  /\ OvertimeOrEarlyLeave
  /\ RequestsNameShifts
  /\ OneLiveOvertime
  /\ CheckOutKnowsOvertime
  /\ PaidOrRepricing
  /\ RepricingsRead
  /\ ApprovedOvertimeIsPaid

(* The automatic check-out gives every shift its grace: it never closes    *)
(* one before the end that was in force, and never while the overtime it   *)
(* found approved runs.                                                    *)
NoEarlyAutoCheckout ==
  [][\A a \in Shifts :
       asg'[a].auto /\ ~asg[a].auto =>
         \E w \in Workers : /\ At(w, "autoWrite")
                            /\ op[w].a = a
                            /\ now >= op[w].at + Rules.lateCheckout
                            /\ op[w].paid # Null
                                 => now >= op[w].paid + Rules.lateCheckout]_vars

(* What becomes of every shift in the end.  One that was begun is closed,  *)
(* whoever forgets what: through pending, approved, rejected and cancelled *)
(* overtime, moved ends and chaining.  One way out is left, and only by a  *)
(* crash: a request is saved, the process dies before its workflow is      *)
(* parked, and the automatic check-out job has already run.  One nobody    *)
(* came to is written off, or it was granted as absence.                   *)
Stranded(a) ==
  /\ crashes > 0
  /\ wf[a] # None /\ wf[a].state = "ACTIVE"
  /\ OvertimesOf(a, {"PENDING"}) # {}
Settled(a) ==
  IF CheckedIn(a) THEN asg[a].out # Null \/ Stranded(a)
  ELSE asg[a].att = "ABSENT" \/ LeaveCoversShift(a)
EveryShiftSettles == \A a \in Shifts : <>[]Settled(a)
=============================================================================
