------------------------ MODULE ShiftAttendanceProofs ------------------------
(***************************************************************************)
(* What a working day keeps true, for any shifts, requests, workers and    *)
(* crashes.  The rows, requests and operations keep their types; a shift   *)
(* is begun and closed once; absence, overtime and early leave exclude     *)
(* what they must; approved overtime is paid; and the automatic check-out  *)
(* comes only after the end and the grace.                                 *)
(***************************************************************************)
EXTENDS ShiftAttendance, TLAPS

-----------------------------------------------------------------------------
(* Types                                                                   *)

LEMMA Constants ==
  /\ Horizon \in Nat /\ ResumeDelay \in Nat
  /\ Time \subseteq Nat /\ Time \subseteq Ahead /\ Ahead \subseteq Nat
  /\ Time \subseteq Int /\ Ahead \subseteq Int
  /\ Null \in Int /\ Null \notin Nat /\ Instant \subseteq Int
  /\ \A a \in Shifts : Slot[a].start \in Time /\ Slot[a].end \in Time
  /\ OvertimeEnds \subseteq Time
  /\ Rules.grace \in Nat /\ Rules.earlyGrace \in Nat
  /\ Rules.earlyCheckin \in Nat /\ Rules.lateCheckout \in Nat
  /\ JobWorker \in Workers /\ CronWorker \in Workers /\ Http \subseteq Workers
BY WorkdayAssumption DEF Time, Ahead, Null, Instant, Workers

LEMMA NowType == TypeOK => now \in Time /\ now \in Nat /\ now \in Int
<1>1. TypeOK => now \in Time
  BY DEF TypeOK
<1> QED BY <1>1, Constants

LEMMA WindowType ==
  ASSUME TypeOK, NEW a \in Shifts
  PROVE  /\ WindowOf(a).start \in Time /\ WindowOf(a).end \in Time
         /\ asg[a].adjStart = Null => WindowOf(a).start = Slot[a].start
         /\ asg[a].adjEnd = Null => WindowOf(a).end = Slot[a].end
<1>1. asg[a].adjStart \in Instant /\ asg[a].adjEnd \in Instant
  BY DEF TypeOK, Assignment
<1> QED
  BY <1>1, Constants DEF WindowOf, WindowIn, EffectiveWindow, OrElse, Present,
     Instant

LEMMA RowType ==
  ASSUME TypeOK, NEW a \in Shifts
  PROVE  /\ asg[a] \in Assignment
         /\ asg[a].in \in Instant /\ asg[a].out \in Instant
         /\ asg[a].late \in Nat /\ asg[a].worked \in Nat
         /\ asg[a].adjEnd \in Instant /\ asg[a].adjStart \in Instant
BY DEF TypeOK, Assignment

(* A request is decided, a workflow moves: one field of one row.            *)
LEMMA OvertimeUpdate ==
  ASSUME TypeOK, NEW r \in Overtimes, NEW s \in RequestStatus
  PROVE  [ot EXCEPT ![r].status = s] \in [Overtimes -> BonusWorkRequest]
<1>1. ot[r] \in BonusWorkRequest /\ ot \in [Overtimes -> BonusWorkRequest]
  BY DEF TypeOK
<1>2. [ot[r] EXCEPT !.status = s] \in BonusWorkRequest
  BY <1>1 DEF BonusWorkRequest
<1> QED BY <1>1, <1>2

LEMMA LeaveUpdate ==
  ASSUME TypeOK, NEW l \in Leaves, NEW s \in RequestStatus
  PROVE  [lv EXCEPT ![l].status = s] \in [Leaves -> EmployeeLeaveRequest]
<1>1. lv[l] \in EmployeeLeaveRequest /\ lv \in [Leaves -> EmployeeLeaveRequest]
  BY DEF TypeOK
<1>2. [lv[l] EXCEPT !.status = s] \in EmployeeLeaveRequest
  BY <1>1 DEF EmployeeLeaveRequest
<1> QED BY <1>1, <1>2

LEMMA WorkflowMoves ==
  ASSUME TypeOK, NEW a \in Shifts, wf[a] # None, NEW s \in WorkflowState
  PROVE  [wf EXCEPT ![a].state = s] \in [Shifts -> ShiftEndWorkflow \cup {None}]
<1>1. wf[a] \in ShiftEndWorkflow /\ wf \in [Shifts -> ShiftEndWorkflow \cup {None}]
  BY DEF TypeOK
<1>2. [wf[a] EXCEPT !.state = s] \in ShiftEndWorkflow
  BY <1>1 DEF ShiftEndWorkflow
<1> QED BY <1>1, <1>2

LEMMA GraceType ==
  ASSUME NEW raw \in Int, NEW allowed \in Nat
  PROVE  ApplyGrace(AtLeast(0, raw), allowed) \in Nat
BY DEF ApplyGrace, AtLeast

LEMMA WorkedInType ==
  ASSUME NEW a \in Shifts, NEW x \in Assignment, NEW at \in Int, NEW paid \in Int,
         NEW capped \in BOOLEAN
  PROVE  WorkedIn(a, x, at, paid, capped) \in Nat
<1>1. /\ WindowIn(a, x).start \in Int /\ WindowIn(a, x).end \in Int
      /\ x.in \in Int
  BY Constants DEF WindowIn, EffectiveWindow, OrElse, Present, Assignment
<1>2. ASSUME NEW f \in Int, NEW t \in Int PROVE AtLeast(0, t - f) \in Nat
  BY DEF AtLeast
<1>3. AtMost(at, AtLeast(WindowIn(a, x).end, paid)) \in Int
  BY <1>1 DEF AtLeast, AtMost
<1> QED
  BY <1>1, <1>2, <1>3 DEF WorkedIn, CreditedWorkedMinutes

LEMMA WorkedType ==
  ASSUME TypeOK, NEW a \in Shifts, NEW at \in Int, NEW paid \in Int,
         NEW capped \in BOOLEAN
  PROVE  Worked(a, at, paid, capped) \in Nat
BY WorkedInType, RowType DEF Worked

LEMMA OvertimeEndType ==
  ASSUME TypeOK, NEW a
  PROVE  ApprovedOvertimeEnd(a) \in Ahead \cup {Null}
<1>1. OvertimesOf(a, {"APPROVED"}) \subseteq Overtimes
  BY DEF OvertimesOf
<1>2. \A r \in Overtimes : ot[r].end \in Ahead
  BY DEF TypeOK, BonusWorkRequest
<1> QED BY <1>1, <1>2 DEF ApprovedOvertimeEnd

(* The operations an action may hand to a worker.                          *)
LEMMA DoType ==
  ASSUME NEW pc \in Pcs, NEW a \in Shifts \cup {None}
  PROVE  /\ Do(pc, a) \in Op
         /\ \A r \in Overtimes \cup Leaves : [Do(pc, a) EXCEPT !.r = r] \in Op
         /\ Idle \in Op
BY DEF Do, Op, Idle, Pcs

LEMMA RepriceOps ==
  ASSUME NEW a \in Shifts, NEW r \in Overtimes, NEW by \in {"approval", "rejection"}
  PROVE  [Do("reprice", a) EXCEPT !.r = r, !.by = by] \in Op
BY DEF Do, Op, Pcs

LEMMA RepricedType ==
  ASSUME NEW o \in Op
  PROVE  /\ Repriced(o) \in Op /\ Repriced(o).pc \in {"approve", "resume"}
         /\ Repriced(o).a = o.a /\ Repriced(o).r = o.r /\ Repriced(o).paid = o.paid
<1> DEFINE pc == IF o.by = "approval" THEN "approve" ELSE "resume"
<1>1. pc \in {"approve", "resume"} /\ Repriced(o) = [o EXCEPT !.pc = pc, !.row = None]
  BY DEF Repriced
<1> HIDE DEF pc
<1> QED BY <1>1 DEF Op, Pcs

LEMMA OpUpdate ==
  ASSUME TypeOK, NEW w, NEW o \in Op, op' = [op EXCEPT ![w] = o]
  PROVE  op' \in [Workers -> Op]
BY DEF TypeOK

LEMMA ScheduledType ==
  ASSUME TypeOK, NEW a \in Shifts
  PROVE  /\ ScheduledWorkflow(a) \in ShiftEndWorkflow
         /\ ScheduledWorkflow(a).eff \in Ahead
<1>1. OrElse(asg[a].adjEnd, Slot[a].end) \in Ahead
  BY RowType, Constants DEF OrElse, Present, Instant
<1>2. wf[a] # None => wf[a] \in ShiftEndWorkflow
  BY DEF TypeOK
<1>3. wf[a] # None => ScheduledWorkflow(a) \in ShiftEndWorkflow
  BY <1>2 DEF ScheduledWorkflow
<1>4. wf[a] = None => ScheduledWorkflow(a) \in ShiftEndWorkflow
  BY <1>1 DEF ScheduledWorkflow, ShiftEndWorkflow, WorkflowState
<1> QED BY <1>3, <1>4 DEF ShiftEndWorkflow

LEMMA JobsType ==
  ASSUME TypeOK, NEW a \in Shifts, NEW end \in Ahead
  PROVE  ScheduleJobs(a, end) \subseteq Job /\ jobs \subseteq ScheduleJobs(a, end)
BY DEF TypeOK, ScheduleJobs, Job

(* What OpsAreSound and the types say of the operation of one worker.      *)
LEMMA OpFacts ==
  ASSUME TypeOK, OpsAreSound, NEW w \in Workers
  PROVE  /\ op[w] \in Op
         /\ op[w].a \in Shifts \cup {None}
         /\ op[w].at \in Ahead \cup {Null} /\ op[w].paid \in Ahead \cup {Null}
         /\ op[w].pc # "idle" => op[w].a \in Shifts
         /\ op[w].pc \in {"markPending", "toPending", "reprice", "price", "rewrite",
                          "approve", "resume", "cancel"}
              => op[w].r \in Overtimes
         /\ op[w].pc \in {"price", "rewrite"} =>
              /\ op[w].row \in Assignment
              /\ op[w].row.out \in Int /\ op[w].row.worked \in Nat
         /\ op[w].pc = "cancelLeave" => op[w].r \in Leaves
         /\ op[w].pc = "checkOut" => op[w].at \in Time /\ CheckedIn(op[w].a)
         /\ op[w].pc \in {"chain", "auto", "autoWrite"} => op[w].at \in Ahead
         /\ op[w].pc = "autoWrite" => op[w].r \in Overtimes \cup {None}
BY Constants DEF TypeOK, Op, OpsAreSound, Assignment

LEMMA CheckInCommitType ==
  ASSUME TypeOK, OpsAreSound, NEW w \in Workers, CheckInCommit(w)
  PROVE  TypeOK'
<1> DEFINE a == op[w].a
           lateBy == ApplyGrace(LateMinutes(WindowOf(a).start, now), Rules.grace)
<1>1. a \in Shifts /\ Do("schedule", a) \in Op /\ Idle \in Op
  BY OpFacts, DoType DEF CheckInCommit, At, Pcs
<1>2. lateBy \in Nat
  <2>1. now - WindowOf(a).start \in Int
    <3>1. WindowOf(a).start \in Int
      BY <1>1, WindowType, Constants
    <3> QED BY <3>1, NowType
  <2> QED BY <2>1, Constants, GraceType DEF LateMinutes
<1>3. op' \in [Workers -> Op]
  BY <1>1, OpUpdate DEF CheckInCommit, Goes, Ends
<1>4. asg' \in [Shifts -> Assignment] /\ logs' \in [Shifts -> [in : Nat, out : Nat]]
  <2>1. CASE UNCHANGED <<asg, logs>>
    BY <2>1 DEF TypeOK
  <2> DEFINE x == [asg[a] EXCEPT !.in = now, !.late = lateBy,
                                 !.status = "CONFIRMED",
                                 !.att = IF lateBy > 0 THEN "LATE" ELSE "ON_TIME"]
  <2>2. x \in Assignment
    <3>1. /\ asg[a] \in Assignment /\ now \in Instant
          /\ {"LATE", "ON_TIME"} \subseteq AttendanceStatus /\ "CONFIRMED" \in AssignmentStatus
      BY <1>1, RowType, NowType DEF Instant, AssignmentStatus, AttendanceStatus
    <3> HIDE DEF a, lateBy
    <3> QED
      BY <1>2, <3>1 DEF Assignment
  <2>3. CASE /\ asg' = [asg EXCEPT ![a] = x]
             /\ logs' = [logs EXCEPT ![a].in = @ + 1]
    BY <1>1, <2>2, <2>3 DEF TypeOK
  <2> QED BY <2>1, <2>3 DEF CheckInCommit
<1> QED BY <1>3, <1>4 DEF TypeOK, CheckInCommit

LEMMA CheckOutCommitType ==
  ASSUME TypeOK, OpsAreSound, NEW w \in Workers, CheckOutCommit(w)
  PROVE  TypeOK'
<1> DEFINE a == op[w].a
           early == ApplyGrace(EarlyMinutes(WindowOf(a).end, op[w].at),
                               Rules.earlyGrace)
           worked == Worked(a, op[w].at, op[w].paid, FALSE)
<1>1. /\ a \in Shifts /\ op[w].at \in Time
      /\ op[w].at \in Int /\ op[w].paid \in Int
      /\ Do("complete", a) \in Op
  BY OpFacts, DoType, Constants DEF CheckOutCommit, At, Pcs
<1>2. worked \in Nat /\ StatusAtCheckOut(a, early) \in AttendanceStatus
  BY <1>1, WorkedType DEF StatusAtCheckOut, AttendanceStatus, TypeOK, Assignment
<1>3. op' \in [Workers -> Op]
  BY <1>1, OpUpdate DEF CheckOutCommit, Goes
<1>4. asg' \in [Shifts -> Assignment] /\ logs' \in [Shifts -> [in : Nat, out : Nat]]
  <2>1. CASE UNCHANGED <<asg, logs>>
    BY <2>1 DEF TypeOK
  <2> DEFINE x == [asg[a] EXCEPT !.out = op[w].at, !.worked = worked,
                                 !.att = StatusAtCheckOut(a, early),
                                 !.status = "COMPLETED"]
  <2>2. x \in Assignment
    <3>1. /\ asg[a] \in Assignment /\ op[w].at \in Instant
          /\ "COMPLETED" \in AssignmentStatus
      BY <1>1, RowType DEF Instant, AssignmentStatus
    <3> HIDE DEF a, worked, early
    <3> QED
      BY <1>2, <3>1 DEF Assignment
  <2>3. CASE /\ asg' = [asg EXCEPT ![a] = x]
             /\ logs' = [logs EXCEPT ![a].out = @ + 1]
    BY <1>1, <2>2, <2>3 DEF TypeOK
  <2> QED BY <2>1, <2>3 DEF CheckOutCommit
<1> QED BY <1>3, <1>4 DEF TypeOK, CheckOutCommit

(* A repricing on its way: what it carries to its next step.                *)
PriceOf(o) == WorkedIn(o.a, o.row, o.row.out, ApprovedOvertimeEnd(o.a), FALSE)
WithRow(o) == [o EXCEPT !.pc = "price", !.row = asg[o.a]]
WithPrice(o) == [o EXCEPT !.pc = "rewrite", !.row.worked = PriceOf(o)]

LEMMA RepricingOps ==
  ASSUME TypeOK, OpsAreSound, NEW w \in Workers
  PROVE  LET o == op[w] IN
         /\ At(w, "reprice") =>
              LET x == WithRow(o) IN
              /\ x \in Op /\ x.pc = "price" /\ x.a = o.a /\ x.r = o.r
              /\ x.row = asg[o.a] /\ x.row \in Assignment
         /\ At(w, "price") =>
              LET y == WithPrice(o) IN
              /\ y \in Op /\ y.pc = "rewrite" /\ y.a = o.a /\ y.r = o.r
              /\ y.row \in Assignment /\ y.row.worked = PriceOf(o)
              /\ y.row.in = o.row.in /\ y.row.out = o.row.out
              /\ y.row.late = o.row.late
              /\ y.row.adjStart = o.row.adjStart /\ y.row.adjEnd = o.row.adjEnd
<1> DEFINE o == op[w]
           row == [o.row EXCEPT !.worked = PriceOf(o)]
<1>1. CASE At(w, "reprice")
  <2>1. o \in Op /\ asg[o.a] \in Assignment
    BY <1>1, OpFacts, RowType DEF At
  <2> QED BY <1>1, <2>1 DEF Op, Pcs, At, WithRow
<1>2. CASE At(w, "price")
  <2>1. o \in Op /\ o.a \in Shifts /\ o.row \in Assignment /\ PriceOf(o) \in Nat
    BY <1>2, OpFacts, OvertimeEndType, WorkedInType, Constants DEF At, PriceOf
  <2>2. WithPrice(o) = [o EXCEPT !.pc = "rewrite", !.row = row]
    BY <2>1 DEF Op, WithPrice
  <2>3. /\ row \in Assignment /\ row.worked = PriceOf(o)
        /\ row.in = o.row.in /\ row.out = o.row.out /\ row.late = o.row.late
        /\ row.adjStart = o.row.adjStart /\ row.adjEnd = o.row.adjEnd
    BY <2>1 DEF Assignment
  <2> HIDE DEF row
  <2> QED BY <1>2, <2>1, <2>2, <2>3 DEF Op, Pcs, At
<1> QED BY <1>1, <1>2 DEF At

LEMMA RepricingSteps ==
  ASSUME TypeOK, NEW w \in Workers
  PROVE  LET o == op[w] IN
         /\ RepriceCheckedOutOvertime(w) =>
              /\ At(w, "reprice") /\ UNCHANGED asg
              /\ \/ /\ asg[o.a].status = "COMPLETED" /\ ~asg[o.a].auto
                    /\ op' = [op EXCEPT ![w] = WithRow(o)] /\ op'[w] = WithRow(o)
                 \/ /\ ~(asg[o.a].status = "COMPLETED" /\ ~asg[o.a].auto)
                    /\ op' = [op EXCEPT ![w] = Repriced(o)] /\ op'[w] = Repriced(o)
         /\ PriceOvertime(w) =>
              /\ At(w, "price") /\ UNCHANGED <<asg, ot, late, crashes>>
              /\ \/ op' = [op EXCEPT ![w] = WithPrice(o)] /\ op'[w] = WithPrice(o)
                 \/ /\ PriceOf(o) = o.row.worked
                    /\ op' = [op EXCEPT ![w] = Repriced(o)] /\ op'[w] = Repriced(o)
         /\ SaveRepriced(w) =>
              /\ At(w, "rewrite")
              /\ op' = [op EXCEPT ![w] = Repriced(o)] /\ op'[w] = Repriced(o)
<1>1. op \in [Workers -> Op]
  BY DEF TypeOK
<1>2. ASSUME NEW x, op' = [op EXCEPT ![w] = x] PROVE op'[w] = x
  BY <1>1, <1>2
<1> QED
  BY <1>2 DEF RepriceCheckedOutOvertime, PriceOvertime, SaveRepriced, Goes,
     WithRow, WithPrice, PriceOf

LEMMA RepriceType ==
  ASSUME TypeOK, OpsAreSound, NEW w \in Workers,
         RepriceCheckedOutOvertime(w) \/ PriceOvertime(w) \/ SaveRepriced(w)
  PROVE  TypeOK'
<1> DEFINE a == op[w].a
<1>1. a \in Shifts /\ op[w] \in Op
  BY OpFacts DEF RepriceCheckedOutOvertime, PriceOvertime, SaveRepriced, At
<1>2. op' \in [Workers -> Op]
  <2>1. PICK x \in Op : op' = [op EXCEPT ![w] = x]
    BY <1>1, RepricingOps, RepricingSteps, RepricedType
  <2> QED BY <2>1, OpUpdate
<1>3. asg' \in [Shifts -> Assignment]
  <2> DEFINE x == [asg[a] EXCEPT !.worked = op[w].row.worked]
  <2>1. asg' = asg \/ (At(w, "rewrite") /\ asg' = [asg EXCEPT ![a] = x])
    BY <1>1 DEF RepriceCheckedOutOvertime, PriceOvertime, SaveRepriced, TypeOK
  <2>2. At(w, "rewrite") => x \in Assignment
    BY <1>1, OpFacts, RowType DEF Assignment, At
  <2> HIDE DEF x
  <2> QED BY <1>1, <2>1, <2>2 DEF TypeOK
<1> QED
  BY <1>2, <1>3 DEF TypeOK, RepriceCheckedOutOvertime, PriceOvertime, SaveRepriced

LEMMA ChainType ==
  ASSUME TypeOK, OpsAreSound, NEW w \in Workers, NEW b \in Shifts,
         ChainIntoNextShift(w, b)
  PROVE  TypeOK'
<1> DEFINE a == op[w].a
           end == WindowOf(a).end
           worked == Worked(a, end, Null, FALSE)
<1>1. a \in Shifts /\ a # b /\ Do("schedule", b) \in Op
  BY OpFacts, DoType DEF ChainIntoNextShift, At, Chainable, ChainedNext, Pcs
<1>2. end \in Time /\ worked \in Nat
  BY <1>1, WindowType, WorkedType, Constants
<1>3. op' \in [Workers -> Op]
  BY <1>1, OpUpdate DEF ChainIntoNextShift, Goes
<1>4. asg' \in [Shifts -> Assignment]
  <2> DEFINE x == [asg[a] EXCEPT !.out = end, !.status = "COMPLETED",
                                 !.worked = worked]
             y == [asg[b] EXCEPT !.in = end, !.late = 0, !.att = "ON_TIME",
                                 !.status = "CONFIRMED"]
  <2> HIDE DEF end, worked
  <2>1. x \in Assignment /\ y \in Assignment
    <3>1. asg[a] \in Assignment /\ asg[b] \in Assignment /\ end \in Instant
      BY <1>1, <1>2, RowType DEF Instant
    <3>2. x \in Assignment
      BY <1>2, <3>1 DEF Assignment, AssignmentStatus
    <3>3. y \in Assignment
      BY <3>1 DEF Assignment, AssignmentStatus, AttendanceStatus
    <3> QED
      BY <3>2, <3>3
  <2> USE DEF end, worked
  <2>2. asg' = [asg EXCEPT ![a] = x, ![b] = y]
    BY <1>1 DEF ChainIntoNextShift
  <2> HIDE DEF x, y
  <2> QED BY <1>1, <2>1, <2>2 DEF TypeOK
<1>5. logs' \in [Shifts -> [in : Nat, out : Nat]]
  <2> DEFINE x == [logs[a] EXCEPT !.out = logs[a].out + 1]
             y == [logs[b] EXCEPT !.in = logs[b].in + 1]
  <2>1. x \in [in : Nat, out : Nat] /\ y \in [in : Nat, out : Nat]
    BY <1>1 DEF TypeOK
  <2>2. logs' = [logs EXCEPT ![a] = x, ![b] = y]
    BY <1>1 DEF ChainIntoNextShift, TypeOK
  <2> HIDE DEF x, y
  <2> QED BY <1>1, <2>1, <2>2 DEF TypeOK
<1>6. wf' \in [Shifts -> ShiftEndWorkflow \cup {None}]
  BY <1>1 DEF TypeOK, ChainIntoNextShift, ShiftEndWorkflow, WorkflowState
<1> QED BY <1>3, <1>4, <1>5, <1>6 DEF TypeOK, ChainIntoNextShift

LEMMA AutoWriteType ==
  ASSUME TypeOK, OpsAreSound, NEW w \in Workers, AutoCheckoutWrite(w)
  PROVE  TypeOK'
<1> DEFINE a == op[w].a
           worked == Worked(a, op[w].at, op[w].paid, TRUE)
<1>1. /\ a \in Shifts /\ op[w].at \in Int /\ op[w].paid \in Int
      /\ op[w].r \in Overtimes \cup {None}
  BY OpFacts, Constants DEF AutoCheckoutWrite, At
<1>2. worked \in Nat
  BY <1>1, WorkedType
<1>3. op' \in [Workers -> Op]
  BY DoType, OpUpdate DEF AutoCheckoutWrite, Ends, Pcs
<1>4. CASE UNCHANGED <<asg, ot, logs, wf>>
  BY <1>3, <1>4 DEF TypeOK, AutoCheckoutWrite
<1>5. CASE StillToClose(a)
  <2> DEFINE x == [asg[a] EXCEPT !.out = now, !.auto = TRUE,
                                 !.att = "FORGOT_CHECKOUT",
                                 !.status = "COMPLETED", !.worked = worked]
  <2>0. /\ asg' = [asg EXCEPT ![a] = x]
        /\ ot' = IF op[w].r # None /\ ot[op[w].r].status = "PENDING"
                 THEN [ot EXCEPT ![op[w].r].status = "CANCELLED"] ELSE ot
        /\ logs' = [logs EXCEPT ![a].out = @ + 1]
        /\ wf' = IF wf[a] = None THEN wf
                 ELSE [wf EXCEPT ![a].state = "AUTO_COMPLETED"]
    BY <1>5 DEF AutoCheckoutWrite
  <2>1. asg' \in [Shifts -> Assignment]
    <3>0. /\ asg[a] \in Assignment /\ now \in Instant /\ worked \in Nat
          /\ "COMPLETED" \in AssignmentStatus
          /\ "FORGOT_CHECKOUT" \in AttendanceStatus
      BY <1>1, <1>2, RowType, NowType DEF Instant, AssignmentStatus, AttendanceStatus
    <3> HIDE DEF worked, a
    <3>1. x \in Assignment
      BY <3>0 DEF Assignment
    <3> QED BY <1>1, <2>0, <3>1 DEF TypeOK
  <2>2. ot' \in [Overtimes -> BonusWorkRequest]
    BY <1>1, <2>0, OvertimeUpdate DEF TypeOK, RequestStatus
  <2>3. logs' \in [Shifts -> [in : Nat, out : Nat]]
    BY <1>1, <2>0 DEF TypeOK
  <2>4. wf' \in [Shifts -> ShiftEndWorkflow \cup {None}]
    <3>1. CASE wf[a] = None
      BY <2>0, <3>1 DEF TypeOK
    <3>2. CASE wf[a] # None
      BY <1>1, <2>0, <3>2, WorkflowMoves DEF WorkflowState
    <3> QED BY <3>1, <3>2
  <2> QED BY <1>3, <2>1, <2>2, <2>3, <2>4 DEF TypeOK, AutoCheckoutWrite
<1> QED BY <1>4, <1>5 DEF AutoCheckoutWrite

(* What a granted late arrival or early leave does to a row.               *)
LEMMA ShiftChange ==
  ASSUME TypeOK, NEW a \in Shifts, NEW kind, NEW at \in Time
  PROVE  LET x == ApplyApprovedShiftChange(a, kind, at) IN
         /\ x \in Assignment
         /\ x.in = asg[a].in /\ x.out = asg[a].out
         /\ x.status = asg[a].status /\ x.auto = asg[a].auto
         /\ x.att = "ABSENT" => asg[a].att = "ABSENT"
         /\ x = asg[a] \/ x.adjStart # Null \/ x.adjEnd # Null
<1> DEFINE start == AtLeast(Slot[a].start,
                            IF asg[a].in # Null /\ asg[a].in < at
                            THEN asg[a].in ELSE at)
           lateBy == IF asg[a].in = Null THEN asg[a].late
                     ELSE ApplyGrace(LateMinutes(start, asg[a].in), Rules.grace)
           wanted == CASE Open(a) -> AtLeast(at, now)
                       [] asg[a].out # Null -> AtLeast(at, asg[a].out)
                       [] ~CheckedIn(a) -> at
           end == AtMost(wanted, WindowOf(a).end)
<1>1. /\ asg[a] \in Assignment /\ asg[a].late \in Nat
      /\ asg[a].in \in Instant /\ asg[a].out \in Instant
  BY RowType
<1>2. start \in Time
  BY <1>1, Constants DEF AtLeast, Instant, Time
<1>3. lateBy \in Nat
  <2>1. asg[a].in - start \in Int
    <3>1. asg[a].in \in Int /\ start \in Int
      BY <1>1, <1>2, Constants
    <3> HIDE DEF start
    <3> QED BY <3>1
  <2> HIDE DEF start
  <2> QED BY <1>1, <2>1, Constants, GraceType DEF LateMinutes
<1>4. end \in Time
  <2>1. wanted \in Nat
    <3>1. AtLeast(at, now) \in Nat
      BY NowType, Constants DEF AtLeast
    <3>2. asg[a].out # Null => AtLeast(at, asg[a].out) \in Nat
      BY <1>1, Constants DEF AtLeast, Instant
    <3>3. Open(a) \/ asg[a].out # Null \/ ~CheckedIn(a)
      BY DEF Open, CheckedIn
    <3> QED BY <3>1, <3>2, <3>3, Constants
  <2> HIDE DEF wanted
  <2>2. WindowOf(a).end \in Time
    BY WindowType
  <2> QED BY <2>1, <2>2, Constants DEF AtMost, Time
<1> HIDE DEF start, lateBy, wanted, end
<1>5. /\ AfterLate(a, at) = [asg[a] EXCEPT !.adjStart = start, !.late = lateBy]
      /\ AfterEarly(a, at) = [asg[a] EXCEPT !.adjEnd = end]
  BY DEF AfterLate, AfterEarly, start, lateBy, wanted, end
<1> DEFINE x == IF kind = "LATE" THEN AfterLate(a, at) ELSE AfterEarly(a, at)
<1>6. /\ x \in Assignment
      /\ x.in = asg[a].in /\ x.out = asg[a].out
      /\ x.status = asg[a].status /\ x.att = asg[a].att
      /\ x.auto = asg[a].auto
      /\ x.adjStart # Null \/ x.adjEnd # Null
      /\ x.late \in Nat /\ x.adjEnd \in Instant
  <2>1. /\ asg[a] \in Assignment /\ start \in Instant \ {Null} /\ end \in Instant \ {Null}
        /\ lateBy \in Nat
    BY <1>1, <1>2, <1>3, <1>4, Constants DEF Instant
  <2>2. CASE kind = "LATE"
    BY <1>5, <2>1, <2>2 DEF Assignment
  <2>3. CASE kind # "LATE"
    BY <1>5, <2>1, <2>3 DEF Assignment
  <2> QED BY <2>2, <2>3
<1> DEFINE earlyBy == IF x.out = Null THEN 0
                      ELSE ApplyGrace(EarlyMinutes(OrElse(x.adjEnd, Slot[a].end),
                                                   x.out), Rules.earlyGrace)
           att == CASE x.late > 0 /\ earlyBy > 0 -> "LATE_AND_EARLY"
                    [] x.late > 0 /\ earlyBy = 0 -> "LATE"
                    [] x.late = 0 /\ earlyBy > 0 -> "EARLY"
                    [] x.late = 0 /\ earlyBy = 0 -> "ON_TIME"
<1>7. earlyBy \in Nat
  <2>1. OrElse(x.adjEnd, Slot[a].end) \in Int /\ x.out \in Int
    BY <1>1, <1>6, Constants DEF OrElse
  <2> HIDE DEF x
  <2>2. OrElse(x.adjEnd, Slot[a].end) - x.out \in Int
    BY <2>1
  <2> QED BY <2>2, Constants, GraceType DEF EarlyMinutes
<1>8. att \in AttendanceStatus /\ att # "ABSENT"
  <2> HIDE DEF x, earlyBy
  <2> QED BY <1>6, <1>7 DEF AttendanceStatus
<1> HIDE DEF att
<1>9. ApplyApprovedShiftChange(a, kind, at) \in
        {asg[a], x, [x EXCEPT !.att = att]}
  BY DEF ApplyApprovedShiftChange, att
<1> HIDE DEF x
<1>10. /\ [x EXCEPT !.att = att] \in Assignment
       /\ [x EXCEPT !.att = att].att = att
       /\ [x EXCEPT !.att = att].in = x.in /\ [x EXCEPT !.att = att].out = x.out
       /\ [x EXCEPT !.att = att].status = x.status
       /\ [x EXCEPT !.att = att].auto = x.auto
       /\ [x EXCEPT !.att = att].adjStart = x.adjStart
       /\ [x EXCEPT !.att = att].adjEnd = x.adjEnd
  BY <1>6, <1>8 DEF Assignment
<1> QED BY <1>1, <1>6, <1>8, <1>9, <1>10

LEMMA WorkflowUpdate ==
  ASSUME TypeOK, NEW a \in Shifts, NEW f \in ShiftEndWorkflow,
         wf' = [wf EXCEPT ![a] = f]
  PROVE  wf' \in [Shifts -> ShiftEndWorkflow \cup {None}]
BY DEF TypeOK

LEMMA WorkflowOf ==
  ASSUME TypeOK, NEW a \in Shifts, wf[a] # None
  PROVE  /\ wf[a] \in ShiftEndWorkflow
         /\ wf[a].sched \in Ahead /\ wf[a].eff \in Ahead
BY DEF TypeOK, ShiftEndWorkflow

LEMMA RequestsType ==
  ASSUME TypeOK, OpsAreSound, RequestsNameShifts,
         NEW w \in Http, Requests(w)
  PROVE  TypeOK'
<1> USE DEF Acting, Takes, Goes, Ends
<1>0. w \in Workers
  BY Constants
<1>1. ASSUME NEW a \in Shifts, CheckInBegin(w, a) PROVE TypeOK'
  <2>1. Do("schedule", a) \in Op /\ Do("checkIn", a) \in Op
    BY DoType DEF Pcs
  <2>2. op' \in [Workers -> Op]
    BY <1>1, <2>1, OpUpdate DEF CheckInBegin
  <2> QED BY <1>1, <2>2, WorkdayAssumption DEF TypeOK, CheckInBegin
<1>2. ASSUME NEW a \in Shifts, CheckOutBegin(w, a) PROVE TypeOK'
  <2> DEFINE o == [Do("checkOut", a) EXCEPT !.at = now, !.paid = ApprovedOvertimeEnd(a)]
  <2>1. Do("complete", a) \in Op
    BY DoType DEF Pcs
  <2>2. o \in Op
    <3>1. /\ Do("checkOut", a) \in Op /\ now \in Ahead
          /\ ApprovedOvertimeEnd(a) \in Ahead \cup {Null}
      BY DoType, NowType, OvertimeEndType, Constants DEF Pcs
    <3> QED BY <3>1 DEF Op
  <2>3. op' = [op EXCEPT ![w] = Do("complete", a)] \/ op' = [op EXCEPT ![w] = o]
    BY <1>2 DEF CheckOutBegin
  <2>4. op' \in [Workers -> Op]
    BY <2>1, <2>2, <2>3, OpUpdate
  <2> QED BY <1>2, <2>4, WorkdayAssumption DEF TypeOK, CheckOutBegin
<1>3. ASSUME NEW a \in Shifts, NEW r \in Overtimes, NEW end \in OvertimeEnds,
             RequestOvertime(w, a, r, end)
      PROVE  TypeOK'
  <2>1. [status |-> "PENDING", a |-> a, end |-> end] \in BonusWorkRequest
    BY Constants DEF BonusWorkRequest, RequestStatus
  <2>2. [Do("markPending", a) EXCEPT !.r = r] \in Op
    BY DoType DEF Pcs
  <2>3. op' \in [Workers -> Op]
    BY <1>3, <2>2, OpUpdate DEF RequestOvertime
  <2> QED BY <1>3, <2>1, <2>3, WorkdayAssumption DEF TypeOK, RequestOvertime
<1>4. ASSUME NEW r \in Overtimes, ApproveBonusWork(w, r) PROVE TypeOK'
  <2>1. ot[r].a \in Shifts
    BY <1>4 DEF ApproveBonusWork, RequestsNameShifts
  <2>2. [Do("reprice", ot[r].a) EXCEPT !.r = r, !.by = "approval"] \in Op
    BY <2>1, RepriceOps
  <2>3. op' \in [Workers -> Op]
    BY <1>4, <2>2, OpUpdate DEF ApproveBonusWork
  <2>4. ot' \in [Overtimes -> BonusWorkRequest]
    BY <1>4 DEF TypeOK, ApproveBonusWork, BonusWorkRequest, RequestStatus
  <2> QED BY <1>4, <2>3, <2>4, WorkdayAssumption DEF TypeOK, ApproveBonusWork
<1>5. ASSUME NEW r \in Overtimes, RejectBonusWork(w, r) PROVE TypeOK'
  <2>1. ot[r].a \in Shifts
    BY <1>5 DEF RejectBonusWork, RequestsNameShifts, Live
  <2>2. [Do("reprice", ot[r].a) EXCEPT !.r = r, !.by = "rejection"] \in Op
    BY <2>1, RepriceOps
  <2>3. op' \in [Workers -> Op]
    BY <1>5, <2>2, OpUpdate DEF RejectBonusWork
  <2>4. ot' \in [Overtimes -> BonusWorkRequest]
    BY <1>5 DEF TypeOK, RejectBonusWork, BonusWorkRequest, RequestStatus
  <2> QED BY <1>5, <2>3, <2>4, WorkdayAssumption DEF TypeOK, RejectBonusWork
<1>6. ASSUME NEW r \in Overtimes, CancelBonusWorkBegin(w, r) PROVE TypeOK'
  <2>1. ot[r].a \in Shifts
    BY <1>6 DEF CancelBonusWorkBegin, RequestsNameShifts
  <2>2. [Do("cancel", ot[r].a) EXCEPT !.r = r] \in Op
    BY <2>1, DoType DEF Pcs
  <2>3. op' \in [Workers -> Op]
    BY <1>6, <2>2, OpUpdate DEF CancelBonusWorkBegin
  <2> QED BY <1>6, <2>3, WorkdayAssumption DEF TypeOK, CancelBonusWorkBegin
<1>7. ASSUME NEW l \in Leaves, NEW approved \in BOOLEAN, DecideLeave(w, l, approved)
      PROVE  TypeOK'
  <2> DEFINE a == lv[l].a
  <2>1. a \in Shifts /\ lv[l].at \in Time
    BY <1>7 DEF DecideLeave, RequestsNameShifts
  <2>2. ApplyApprovedShiftChange(a, lv[l].kind, lv[l].at) \in Assignment
    BY <2>1, ShiftChange
  <2>3. asg' \in [Shifts -> Assignment]
    BY <1>7, <2>1, <2>2 DEF TypeOK, DecideLeave
  <2>4. Do("adjust", a) \in Op /\ Idle \in Op
    BY <2>1, DoType DEF Pcs
  <2>5. op' \in [Workers -> Op]
    <3>1. CASE approved
      BY <1>7, <2>4, <3>1, OpUpdate DEF DecideLeave
    <3>2. CASE ~approved
      BY <1>7, <3>2 DEF DecideLeave, TypeOK
    <3> QED BY <3>1, <3>2
  <2>6. lv' \in [Leaves -> EmployeeLeaveRequest]
    <3> DEFINE status == IF approved THEN "APPROVED" ELSE "REJECTED"
    <3>1. status \in RequestStatus /\ lv' = [lv EXCEPT ![l].status = status]
      BY <1>7 DEF DecideLeave, RequestStatus
    <3> HIDE DEF status
    <3> QED BY <3>1 DEF TypeOK, EmployeeLeaveRequest
  <2> QED BY <1>7, <2>3, <2>5, <2>6, WorkdayAssumption DEF TypeOK, DecideLeave
<1>8. ASSUME NEW l \in Leaves, CancelLeaveBegin(w, l) PROVE TypeOK'
  <2>1. lv[l].a \in Shifts
    BY <1>8 DEF CancelLeaveBegin, RequestsNameShifts
  <2>2. [Do("cancelLeave", lv[l].a) EXCEPT !.r = l] \in Op
    BY <2>1, DoType DEF Pcs
  <2>3. op' \in [Workers -> Op]
    BY <1>8, <2>2, OpUpdate DEF CancelLeaveBegin
  <2> QED BY <1>8, <2>3, WorkdayAssumption DEF TypeOK, CancelLeaveBegin
<1> QED
  BY <1>1, <1>2, <1>3, <1>4, <1>5, <1>6, <1>7, <1>8 DEF Requests

LEMMA ContinueType ==
  ASSUME TypeOK, OpsAreSound, RequestsNameShifts,
         NEW w \in Workers, Continue(w)
  PROVE  TypeOK'
<1> USE DEF Goes, Ends
<1> DEFINE a == op[w].a
<1>0. Idle \in Op
  BY DoType DEF Pcs
<1>1. ASSUME ScheduleForAssignment(w) PROVE TypeOK'
  <2>1. a \in Shifts
    BY <1>1, OpFacts DEF ScheduleForAssignment, At
  <2>2. op' \in [Workers -> Op]
    BY <1>0, <1>1, OpUpdate DEF ScheduleForAssignment
  <2>3. CASE UNCHANGED <<wf, jobs>>
    BY <1>1, <2>2, <2>3 DEF TypeOK, ScheduleForAssignment
  <2>4. CASE /\ wf' = [wf EXCEPT ![a] = ScheduledWorkflow(a)]
             /\ jobs' = ScheduleJobs(a, ScheduledWorkflow(a).eff)
    <3>1. wf' \in [Shifts -> ShiftEndWorkflow \cup {None}]
      BY <2>1, <2>4, ScheduledType, WorkflowUpdate
    <3>2. jobs' \subseteq Job /\ jobs \subseteq jobs'
      BY <2>1, <2>4, ScheduledType, JobsType
    <3> QED BY <1>1, <2>2, <3>1, <3>2 DEF TypeOK, ScheduleForAssignment
  <2> QED BY <1>1, <2>3, <2>4 DEF ScheduleForAssignment
<1>2. ASSUME MarkCompletedByEmployee(w) PROVE TypeOK'
  <2>1. a \in Shifts
    BY <1>2, OpFacts DEF MarkCompletedByEmployee, At
  <2>2. op' \in [Workers -> Op]
    BY <1>0, <1>2, OpUpdate DEF MarkCompletedByEmployee
  <2>3. wf' \in [Shifts -> ShiftEndWorkflow \cup {None}]
    BY <1>2, <2>1 DEF MarkCompletedByEmployee, TypeOK, ShiftEndWorkflow, WorkflowState
  <2> QED BY <1>2, <2>2, <2>3 DEF TypeOK, MarkCompletedByEmployee
<1>3. ASSUME MarkOvertimePending(w) PROVE TypeOK'
  <2>1. a \in Shifts /\ op[w].r \in Overtimes
    BY <1>3, OpFacts DEF MarkOvertimePending
  <2>2. op' \in [Workers -> Op]
    BY <1>0, <1>3, OpUpdate DEF MarkOvertimePending
  <2> DEFINE f == [wf[a] EXCEPT !.state = "OVERTIME_PENDING", !.ot = op[w].r]
  <2>3. CASE wf[a] # None
    <3>1. f \in ShiftEndWorkflow
      BY <2>1, <2>3, WorkflowOf DEF ShiftEndWorkflow, WorkflowState
    <3>2. wf' = [wf EXCEPT ![a] = f]
      BY <1>3, <2>3 DEF MarkOvertimePending
    <3>3. wf' \in [Shifts -> ShiftEndWorkflow \cup {None}]
      BY <2>1, <3>1, <3>2, WorkflowUpdate
    <3> QED BY <1>3, <2>2, <3>3 DEF TypeOK, MarkOvertimePending
  <2>4. CASE wf[a] = None
    BY <1>3, <2>2, <2>4 DEF TypeOK, MarkOvertimePending
  <2> QED BY <2>3, <2>4
<1>4. ASSUME ApproveOvertime(w) PROVE TypeOK'
  <2>1. a \in Shifts /\ op[w].r \in Overtimes /\ ot[op[w].r].end \in Ahead
    <3>1. a \in Shifts /\ op[w].r \in Overtimes
      BY <1>4, OpFacts DEF ApproveOvertime, At
    <3> QED BY <3>1 DEF TypeOK, BonusWorkRequest
  <2>2. op' \in [Workers -> Op]
    BY <1>0, <1>4, OpUpdate DEF ApproveOvertime
  <2> DEFINE f == [wf[a] EXCEPT !.state = "OVERTIME_APPROVED",
                                !.eff = ot[op[w].r].end, !.ot = op[w].r]
  <2>3. CASE wf[a] # None
    <3>1. f \in ShiftEndWorkflow
      <4>1. wf[a] \in ShiftEndWorkflow
        BY <2>1, <2>3, WorkflowOf
      <4> QED BY <2>1, <4>1 DEF ShiftEndWorkflow, WorkflowState
    <3>2. wf' = [wf EXCEPT ![a] = f] /\ jobs' = ScheduleJobs(a, ot[op[w].r].end)
      BY <1>4, <2>3 DEF ApproveOvertime
    <3>3. wf' \in [Shifts -> ShiftEndWorkflow \cup {None}]
      BY <2>1, <3>1, <3>2, WorkflowUpdate
    <3>4. jobs' \subseteq Job /\ jobs \subseteq jobs'
      BY <2>1, <3>2, JobsType
    <3> QED BY <1>4, <2>2, <3>3, <3>4 DEF TypeOK, ApproveOvertime
  <2>4. CASE wf[a] = None
    BY <1>4, <2>2, <2>4 DEF TypeOK, ApproveOvertime
  <2> QED BY <2>3, <2>4
<1>5. ASSUME ResumeAfterOvertime(w) PROVE TypeOK'
  <2>1. a \in Shifts
    BY <1>5, OpFacts DEF ResumeAfterOvertime, At
  <2>2. op' \in [Workers -> Op]
    BY <1>0, <1>5, OpUpdate DEF ResumeAfterOvertime
  <2> DEFINE end == IF now > wf[a].sched THEN now + ResumeDelay ELSE wf[a].sched
             f == [wf[a] EXCEPT !.state = "ACTIVE", !.eff = end, !.ot = None]
  <2>3. CASE wf[a] # None
    <3>1. end \in Ahead
      <4>1. now + ResumeDelay \in Ahead
        BY NowType, Constants DEF Ahead, Time
      <4> QED BY <2>1, <2>3, <4>1, WorkflowOf
    <3> HIDE DEF end
    <3>2. f \in ShiftEndWorkflow
      BY <2>1, <2>3, <3>1, WorkflowOf DEF ShiftEndWorkflow, WorkflowState
    <3>3. wf' = [wf EXCEPT ![a] = f] /\ jobs' = ScheduleJobs(a, end)
      BY <1>5, <2>3 DEF ResumeAfterOvertime, end
    <3>4. wf' \in [Shifts -> ShiftEndWorkflow \cup {None}]
      BY <2>1, <3>2, <3>3, WorkflowUpdate
    <3>5. jobs' \subseteq Job /\ jobs \subseteq jobs'
      BY <2>1, <3>1, <3>3, JobsType
    <3> QED BY <1>5, <2>2, <3>4, <3>5 DEF TypeOK, ResumeAfterOvertime
  <2>4. CASE wf[a] = None
    BY <1>5, <2>2, <2>4 DEF TypeOK, ResumeAfterOvertime
  <2> QED BY <2>3, <2>4
<1>6. ASSUME CancelBonusWorkSave(w) PROVE TypeOK'
  <2>1. op[w].r \in Overtimes
    BY <1>6, OpFacts DEF CancelBonusWorkSave, At
  <2>2. [op[w] EXCEPT !.pc = "resume"] \in Op
    BY OpFacts DEF Op, Pcs
  <2>3. op' \in [Workers -> Op]
    BY <1>6, <2>2, OpUpdate DEF CancelBonusWorkSave
  <2>4. ot' \in [Overtimes -> BonusWorkRequest]
    BY <1>6, <2>1, OvertimeUpdate DEF TypeOK, CancelBonusWorkSave, RequestStatus
  <2> QED BY <1>6, <2>3, <2>4 DEF TypeOK, CancelBonusWorkSave
<1>7. ASSUME CancelLeaveSave(w) PROVE TypeOK'
  <2>1. op[w].r \in Leaves
    BY <1>7, OpFacts DEF CancelLeaveSave, At
  <2>3. op' \in [Workers -> Op]
    BY <1>0, <1>7, OpUpdate DEF CancelLeaveSave
  <2>4. lv' \in [Leaves -> EmployeeLeaveRequest]
    BY <1>7, <2>1, LeaveUpdate DEF TypeOK, CancelLeaveSave, RequestStatus
  <2> QED BY <1>7, <2>3, <2>4 DEF TypeOK, CancelLeaveSave
<1>8. ASSUME ApplyAdjustedEnd(w) PROVE TypeOK'
  <2> DEFINE end == AtLeast(asg[a].adjEnd, now)
             f == [wf[a] EXCEPT !.sched = end, !.eff = end]
  <2>1. a \in Shifts /\ end \in Ahead
    <3>1. a \in Shifts
      BY <1>8, OpFacts DEF ApplyAdjustedEnd, At
    <3>2. asg[a].adjEnd \in Instant
      BY <3>1, RowType
    <3> QED BY <3>1, <3>2, NowType, Constants DEF AtLeast, Instant, Time, Ahead, Null
  <2>2. op' \in [Workers -> Op]
    BY <1>0, <1>8, OpUpdate DEF ApplyAdjustedEnd
  <2>3. CASE UNCHANGED <<wf, jobs>>
    BY <1>8, <2>2, <2>3 DEF TypeOK, ApplyAdjustedEnd
  <2>4. CASE /\ wf' = [wf EXCEPT ![a] = ScheduledWorkflow(a)]
             /\ jobs' = ScheduleJobs(a, ScheduledWorkflow(a).eff)
    <3>1. wf' \in [Shifts -> ShiftEndWorkflow \cup {None}]
      BY <2>1, <2>4, ScheduledType, WorkflowUpdate
    <3>2. jobs' \subseteq Job /\ jobs \subseteq jobs'
      BY <2>1, <2>4, ScheduledType, JobsType
    <3> QED BY <1>8, <2>2, <3>1, <3>2 DEF TypeOK, ApplyAdjustedEnd
  <2> HIDE DEF end
  <2>5. CASE wf[a] # None /\ wf' = [wf EXCEPT ![a] = f] /\ jobs' = ScheduleJobs(a, end)
    <3>1. f \in ShiftEndWorkflow
      BY <2>1, <2>5, WorkflowOf DEF ShiftEndWorkflow
    <3>2. wf' \in [Shifts -> ShiftEndWorkflow \cup {None}]
      BY <2>1, <2>5, <3>1, WorkflowUpdate
    <3>3. jobs' \subseteq Job /\ jobs \subseteq jobs'
      BY <2>1, <2>5, JobsType
    <3> QED BY <1>8, <2>2, <3>2, <3>3 DEF TypeOK, ApplyAdjustedEnd
  <2> QED BY <1>8, <2>3, <2>4, <2>5 DEF ApplyAdjustedEnd, end
<1>9. ASSUME NoNextShift(w) PROVE TypeOK'
  <2>1. [op[w] EXCEPT !.pc = "auto"] \in Op
    BY OpFacts DEF Op, Pcs
  <2>2. op' \in [Workers -> Op]
    BY <1>0, <1>9, <2>1, OpUpdate DEF NoNextShift
  <2> QED BY <1>9, <2>2 DEF TypeOK, NoNextShift
<1>10. ASSUME AutoCheckoutRead(w) PROVE TypeOK'
  <2> DEFINE pending == OvertimesOf(a, {"PENDING"})
             r == IF pending = {} THEN None ELSE CHOOSE s \in pending : TRUE
             o == [op[w] EXCEPT !.pc = "autoWrite", !.r = r,
                                !.paid = ApprovedOvertimeEnd(a)]
  <2>1. r \in Overtimes \cup {None}
    BY DEF OvertimesOf
  <2>2. op' = [op EXCEPT ![w] = o] \/ op' = [op EXCEPT ![w] = Idle]
    BY <1>10 DEF AutoCheckoutRead
  <2> HIDE DEF r, pending
  <2>3. o \in Op
    BY <2>1, OpFacts, OvertimeEndType DEF Op, Pcs
  <2> HIDE DEF o
  <2>4. op' \in [Workers -> Op]
    BY <1>0, <2>2, <2>3, OpUpdate
  <2> QED BY <1>10, <2>4 DEF TypeOK, AutoCheckoutRead
<1> QED
  BY <1>1, <1>2, <1>3, <1>4, <1>5, <1>6, <1>7, <1>8, <1>9, <1>10,
     CheckInCommitType, CheckOutCommitType, RepriceType, ChainType, AutoWriteType
     DEF Continue

LEMMA TypeStep ==
  ASSUME TypeOK, OpsAreSound, RequestsNameShifts, [Next]_vars
  PROVE  TypeOK'
<1>0. Idle \in Op
  BY DoType DEF Pcs
<1>1. ASSUME NEW a \in Shifts, NEW l \in Leaves, NEW kind \in LeaveKinds,
             NEW at \in Time, CreateLeaveRequest(a, l, kind, at)
      PROVE  TypeOK'
  <2>1. [status |-> "PENDING", kind |-> kind, a |-> a, at |-> at]
          \in EmployeeLeaveRequest
    BY WorkdayAssumption DEF EmployeeLeaveRequest, RequestStatus, Instant
  <2> QED BY <1>1, <2>1, WorkdayAssumption DEF TypeOK, CreateLeaveRequest, Acting
<1>2. ASSUME NEW j \in jobs, NEW auto \in BOOLEAN, HandleReminderJob(j, auto)
      PROVE  TypeOK'
  <2> DEFINE a == j.a
             pending == OvertimesOf(a, {"PENDING"})
             r == CHOOSE s \in pending : TRUE
             by == IF auto THEN "auto" ELSE "reminder"
             mine(pc) == [Do(pc, a) EXCEPT !.at = j.end, !.by = by]
  <2>1. a \in Shifts /\ j.end \in Ahead
    BY DEF TypeOK, Job
  <2>2. \A pc \in Pcs : mine(pc) \in Op
    <3> SUFFICES ASSUME NEW pc \in Pcs PROVE mine(pc) \in Op
      OBVIOUS
    <3>1. Do(pc, a) \in Op
      BY <2>1, DoType
    <3>2. by \in {"sweep", "reminder", "auto"}
      OBVIOUS
    <3> HIDE DEF by, a
    <3> QED BY <2>1, <3>1, <3>2 DEF Op
  <2>3. pending # {} => [mine("toPending") EXCEPT !.r = r] \in Op
    <3>1. mine("toPending") \in Op
      BY <2>2 DEF Pcs
    <3>2. pending # {} => r \in Overtimes
      BY DEF OvertimesOf
    <3> HIDE DEF mine, r, pending
    <3> QED BY <3>1, <3>2 DEF Op
  <2>4. /\ mine("chain") \in Op /\ mine("auto") \in Op
    BY <2>2 DEF Pcs
  <2>5. \/ op' = [op EXCEPT ![JobWorker] = Idle]
        \/ pending # {} /\ op' = [op EXCEPT ![JobWorker] = [mine("toPending") EXCEPT !.r = r]]
        \/ op' = [op EXCEPT ![JobWorker] = mine("chain")]
        \/ op' = [op EXCEPT ![JobWorker] = mine("auto")]
    BY <1>2 DEF HandleReminderJob, Takes
  <2>6. op' \in [Workers -> Op]
    <3> HIDE DEF mine, r, pending
    <3> QED BY <1>0, <2>3, <2>4, <2>5, OpUpdate
  <2>7. wf' \in [Shifts -> ShiftEndWorkflow \cup {None}]
    <3> DEFINE f == [wf[a] EXCEPT !.state = "COMPLETED_BY_EMPLOYEE"]
    <3>1. wf' = wf \/ (wf[a] # None /\ wf' = [wf EXCEPT ![a] = f])
      BY <1>2 DEF HandleReminderJob
    <3>2. wf[a] # None => f \in ShiftEndWorkflow
      BY <2>1, WorkflowOf DEF ShiftEndWorkflow, WorkflowState
    <3> HIDE DEF f, a
    <3> QED BY <2>1, <3>1, <3>2 DEF TypeOK
  <2>8. ran' \subseteq jobs
    BY <1>2 DEF HandleReminderJob, TypeOK
  <2> QED BY <1>2, <2>6, <2>7, <2>8 DEF TypeOK, HandleReminderJob
<1>3. ASSUME NEW a \in Shifts, ReconcileActive(a) PROVE TypeOK'
  <2> DEFINE f == ScheduledWorkflow(a)
             o(pc) == [Do(pc, a) EXCEPT !.at = f.eff,
                                        !.due = f.state = "OVERTIME_PENDING"]
  <2>1. f \in ShiftEndWorkflow /\ f.eff \in Ahead
    BY ScheduledType
  <2>2. o("chain") \in Op /\ o("auto") \in Op
    <3>1. Do("chain", a) \in Op /\ Do("auto", a) \in Op
      BY DoType DEF Pcs
    <3> HIDE DEF f
    <3>2. (f.state = "OVERTIME_PENDING") \in BOOLEAN
      OBVIOUS
    <3>3. ASSUME NEW c \in Op, NEW at \in Ahead, NEW due \in BOOLEAN
          PROVE  [c EXCEPT !.at = at, !.due = due] \in Op
      BY DEF Op
    <3> QED BY <2>1, <3>1, <3>2, <3>3
  <2>3. \/ op' = [op EXCEPT ![CronWorker] = Idle]
        \/ op' = [op EXCEPT ![CronWorker] = o("chain")]
        \/ op' = [op EXCEPT ![CronWorker] = o("auto")]
    BY <1>3 DEF ReconcileActive, Takes
  <2> HIDE DEF o, f
  <2>4. op' \in [Workers -> Op]
    BY <1>0, <2>2, <2>3, OpUpdate
  <2>5. wf' = [wf EXCEPT ![a] = f] /\ jobs' = ScheduleJobs(a, f.eff)
    BY <1>3 DEF ReconcileActive, f
  <2>6. wf' \in [Shifts -> ShiftEndWorkflow \cup {None}]
    BY <2>1, <2>5, WorkflowUpdate
  <2>7. jobs' \subseteq Job /\ jobs \subseteq jobs'
    BY <2>1, <2>5, JobsType
  <2> QED BY <1>3, <2>4, <2>6, <2>7 DEF TypeOK, ReconcileActive
<1>4. ASSUME NEW a \in Shifts, MarkAbsent(a) PROVE TypeOK'
  <2>1. [asg[a] EXCEPT !.att = "ABSENT"] \in Assignment
    BY RowType DEF Assignment, AttendanceStatus
  <2> QED
    BY <1>4, <2>1 DEF TypeOK, MarkAbsent
<1>5. CASE Tick
  BY <1>5, WorkdayAssumption DEF TypeOK, Tick, Time
<1>6. CASE Crash
  BY <1>0, <1>6, WorkdayAssumption DEF TypeOK, Crash
<1>7. CASE UNCHANGED vars
  BY <1>7 DEF TypeOK, vars
<1>8. ASSUME IdleHttp # {}, Requests(CHOOSE w \in IdleHttp : TRUE) PROVE TypeOK'
  <2>1. (CHOOSE w \in IdleHttp : TRUE) \in Http
    BY <1>8 DEF IdleHttp
  <2> QED BY <1>8, <2>1, RequestsType
<1> QED
  BY <1>1, <1>2, <1>3, <1>4, <1>5, <1>6, <1>7, <1>8, ContinueType DEF Next

-----------------------------------------------------------------------------
(* What the steps that write a shift do to the rows, field by field        *)

Elsewhere(a) ==
  \A s \in Shifts \ {a} : asg'[s] = asg[s] /\ logs'[s] = logs[s]
WindowKept(a) ==
  asg'[a].adjStart = asg[a].adjStart /\ asg'[a].adjEnd = asg[a].adjEnd

LEMMA CheckInEffect ==
  ASSUME TypeOK, OpsAreSound, NEW w \in Workers, CheckInCommit(w)
  PROVE  LET a == op[w].a IN
         \/ UNCHANGED <<asg, logs>>
         \/ /\ a \in Shifts /\ ~CheckedIn(a) /\ asg[a].status = "APPROVED"
            /\ asg'[a].in = now /\ asg'[a].out = asg[a].out
            /\ asg'[a].status = "CONFIRMED" /\ asg'[a].att # "ABSENT"
            /\ asg'[a].auto = asg[a].auto
            /\ logs'[a].in = logs[a].in + 1 /\ logs'[a].out = logs[a].out
            /\ Elsewhere(a)
<1> DEFINE a == op[w].a
           lateBy == ApplyGrace(LateMinutes(WindowOf(a).start, now), Rules.grace)
           att == IF lateBy > 0 THEN "LATE" ELSE "ON_TIME"
           x == [asg[a] EXCEPT !.in = now, !.late = lateBy,
                               !.status = "CONFIRMED", !.att = att]
<1>1. a \in Shifts
  BY OpFacts DEF CheckInCommit, At
<1>2. \/ UNCHANGED <<asg, logs>>
      \/ /\ ~CheckedIn(a) /\ asg[a].status = "APPROVED"
         /\ asg' = [asg EXCEPT ![a] = x] /\ logs' = [logs EXCEPT ![a].in = @ + 1]
  BY DEF CheckInCommit
<1>3. att # "ABSENT"
  OBVIOUS
<1> HIDE DEF lateBy, att
<1>4. /\ x.in = now /\ x.out = asg[a].out /\ x.status = "CONFIRMED"
      /\ x.att = att /\ x.auto = asg[a].auto
  BY <1>1, RowType DEF Assignment
<1> HIDE DEF x
<1> QED BY <1>1, <1>2, <1>3, <1>4 DEF Elsewhere, TypeOK

LEMMA CheckOutEffect ==
  ASSUME TypeOK, OpsAreSound, NEW w \in Workers, CheckOutCommit(w)
  PROVE  LET a == op[w].a IN
         /\ a \in Shifts /\ CheckedIn(a)
         /\ \/ UNCHANGED <<asg, logs>>
            \/ /\ asg[a].out = Null /\ op[w].at \in Time
               /\ asg'[a].out = op[w].at /\ asg'[a].in = asg[a].in
               /\ asg'[a].late = asg[a].late /\ WindowKept(a)
               /\ asg'[a].status = "COMPLETED" /\ asg'[a].auto = asg[a].auto
               /\ asg'[a].att = "ABSENT" => asg[a].att = "ABSENT"
               /\ asg'[a].worked = Worked(a, op[w].at, op[w].paid, FALSE)
               /\ logs'[a].in = logs[a].in /\ logs'[a].out = logs[a].out + 1
               /\ Elsewhere(a)
<1> DEFINE a == op[w].a
           early == ApplyGrace(EarlyMinutes(WindowOf(a).end, op[w].at),
                               Rules.earlyGrace)
           att == StatusAtCheckOut(a, early)
           worked == Worked(a, op[w].at, op[w].paid, FALSE)
           x == [asg[a] EXCEPT !.out = op[w].at, !.worked = worked,
                               !.att = att, !.status = "COMPLETED"]
<1>1. a \in Shifts /\ CheckedIn(a) /\ op[w].at \in Time
  BY OpFacts DEF CheckOutCommit, At
<1>2. \/ UNCHANGED <<asg, logs>>
      \/ /\ asg[a].out = Null
         /\ asg' = [asg EXCEPT ![a] = x] /\ logs' = [logs EXCEPT ![a].out = @ + 1]
  BY DEF CheckOutCommit
<1>3. att = "ABSENT" => asg[a].att = "ABSENT"
  BY DEF StatusAtCheckOut
<1> HIDE DEF att, worked, early
<1>4. /\ x.out = op[w].at /\ x.in = asg[a].in /\ x.late = asg[a].late
      /\ x.adjStart = asg[a].adjStart /\ x.adjEnd = asg[a].adjEnd
      /\ x.status = "COMPLETED" /\ x.auto = asg[a].auto
      /\ x.att = att /\ x.worked = worked
  BY <1>1, RowType DEF Assignment
<1> HIDE DEF x
<1>5. CASE UNCHANGED <<asg, logs>>
  BY <1>1, <1>5
<1>6. CASE /\ asg[a].out = Null
           /\ asg' = [asg EXCEPT ![a] = x] /\ logs' = [logs EXCEPT ![a].out = @ + 1]
  <2>1. asg'[a] = x /\ Elsewhere(a)
    BY <1>1, <1>6 DEF Elsewhere, TypeOK
  <2>2. logs'[a].in = logs[a].in /\ logs'[a].out = logs[a].out + 1
    BY <1>1, <1>6 DEF TypeOK
  <2> QED BY <1>1, <1>3, <1>4, <1>6, <2>1, <2>2 DEF WindowKept, worked
<1> QED BY <1>2, <1>5, <1>6

LEMMA RepriceEffect ==
  ASSUME TypeOK, OpsAreSound, NEW w \in Workers, SaveRepriced(w)
  PROVE  LET a == op[w].a IN
         /\ a \in Shifts
         /\ \/ asg[a].status # "COMPLETED" /\ UNCHANGED asg
            \/ /\ asg'[a].in = asg[a].in /\ asg'[a].out = asg[a].out
               /\ asg'[a].late = asg[a].late /\ WindowKept(a)
               /\ asg'[a].status = asg[a].status /\ asg'[a].auto = asg[a].auto
               /\ asg'[a].att = asg[a].att
               /\ asg'[a].worked = op[w].row.worked
               /\ \A s \in Shifts \ {a} : asg'[s] = asg[s]
<1> DEFINE a == op[w].a
           worked == op[w].row.worked
           x == [asg[a] EXCEPT !.worked = worked]
<1>1. a \in Shifts
  BY OpFacts DEF SaveRepriced, At
<1>2. \/ asg[a].status # "COMPLETED" /\ UNCHANGED asg
      \/ asg' = [asg EXCEPT ![a] = x]
  BY <1>1 DEF SaveRepriced, TypeOK
<1> HIDE DEF worked
<1>3. /\ x.in = asg[a].in /\ x.out = asg[a].out /\ x.late = asg[a].late
      /\ x.adjStart = asg[a].adjStart /\ x.adjEnd = asg[a].adjEnd
      /\ x.status = asg[a].status /\ x.auto = asg[a].auto
      /\ x.att = asg[a].att /\ x.worked = worked
  BY <1>1, RowType DEF Assignment
<1> HIDE DEF x
<1>4. CASE asg' = [asg EXCEPT ![a] = x]
  <2>1. asg'[a] = x /\ \A s \in Shifts \ {a} : asg'[s] = asg[s]
    BY <1>1, <1>4 DEF TypeOK
  <2> QED BY <1>1, <1>3, <2>1 DEF WindowKept, worked
<1> QED BY <1>1, <1>2, <1>4

LEMMA ChainEffect ==
  ASSUME TypeOK, OpsAreSound, NEW w \in Workers, NEW b \in Shifts,
         ChainIntoNextShift(w, b)
  PROVE  LET a == op[w].a IN
         /\ a \in Shifts /\ a # b /\ Open(a) /\ LiveOvertimes(a) = {}
         /\ ~CheckedIn(b) /\ asg[b].status = "APPROVED"
         /\ asg'[a].in = asg[a].in /\ asg'[a].out \in Time
         /\ asg'[a].status = "COMPLETED" /\ asg'[a].att = asg[a].att
         /\ asg'[a].auto = asg[a].auto
         /\ asg'[b].in \in Time /\ asg'[b].out = asg[b].out
         /\ asg'[b].status = "CONFIRMED" /\ asg'[b].att = "ON_TIME"
         /\ asg'[b].auto = asg[b].auto
         /\ logs'[a].in = logs[a].in /\ logs'[a].out = logs[a].out + 1
         /\ logs'[b].in = logs[b].in + 1 /\ logs'[b].out = logs[b].out
         /\ \A s \in Shifts \ {a, b} : asg'[s] = asg[s] /\ logs'[s] = logs[s]
<1> DEFINE a == op[w].a
           end == WindowOf(a).end
           worked == Worked(a, end, Null, FALSE)
           x == [asg[a] EXCEPT !.out = end, !.status = "COMPLETED",
                               !.worked = worked]
           y == [asg[b] EXCEPT !.in = end, !.late = 0, !.att = "ON_TIME",
                               !.status = "CONFIRMED"]
<1>1. /\ a \in Shifts /\ a # b /\ Open(a) /\ LiveOvertimes(a) = {}
      /\ ~CheckedIn(b) /\ asg[b].status = "APPROVED"
  BY OpFacts DEF ChainIntoNextShift, At, Chainable, ChainedNext
<1>2. end \in Time
  BY <1>1, WindowType
<1>3. /\ asg' = [asg EXCEPT ![a] = x, ![b] = y]
      /\ logs' = [logs EXCEPT ![a].out = @ + 1, ![b].in = @ + 1]
  BY DEF ChainIntoNextShift
<1> HIDE DEF worked, end
<1>4. /\ x.in = asg[a].in /\ x.out = end /\ x.status = "COMPLETED"
      /\ x.att = asg[a].att /\ x.auto = asg[a].auto
      /\ y.in = end /\ y.out = asg[b].out /\ y.status = "CONFIRMED"
      /\ y.att = "ON_TIME" /\ y.auto = asg[b].auto
  BY <1>1, RowType DEF Assignment
<1> HIDE DEF x, y
<1>5. /\ asg'[a] = x /\ asg'[b] = y
      /\ \A s \in Shifts \ {a, b} : asg'[s] = asg[s]
  BY <1>1, <1>3 DEF TypeOK
<1>6. /\ logs'[a].in = logs[a].in /\ logs'[a].out = logs[a].out + 1
      /\ logs'[b].in = logs[b].in + 1 /\ logs'[b].out = logs[b].out
      /\ \A s \in Shifts \ {a, b} : logs'[s] = logs[s]
  BY <1>1, <1>3 DEF TypeOK
<1> QED BY <1>1, <1>2, <1>4, <1>5, <1>6

LEMMA AutoEffect ==
  ASSUME TypeOK, OpsAreSound, NEW w \in Workers, AutoCheckoutWrite(w)
  PROVE  LET a == op[w].a IN
         /\ a \in Shifts
         /\ \/ UNCHANGED <<asg, ot, logs>>
            \/ /\ asg[a].out = Null
               /\ asg'[a].out = now /\ asg'[a].in = asg[a].in
               /\ asg'[a].status = "COMPLETED" /\ asg'[a].auto = TRUE
               /\ asg'[a].att = "FORGOT_CHECKOUT"
               /\ logs'[a].in = logs[a].in /\ logs'[a].out = logs[a].out + 1
               /\ Elsewhere(a)
               /\ \/ UNCHANGED ot
                  \/ /\ op[w].r \in Overtimes
                     /\ ot[op[w].r].status = "PENDING"
                     /\ ot' = [ot EXCEPT ![op[w].r].status = "CANCELLED"]
<1> DEFINE a == op[w].a
           worked == Worked(a, op[w].at, op[w].paid, TRUE)
           x == [asg[a] EXCEPT !.out = now, !.auto = TRUE,
                               !.att = "FORGOT_CHECKOUT",
                               !.status = "COMPLETED", !.worked = worked]
<1>1. a \in Shifts /\ op[w].r \in Overtimes \cup {None}
  BY OpFacts DEF AutoCheckoutWrite, At
<1>2. \/ UNCHANGED <<asg, ot, logs>>
      \/ /\ asg[a].out = Null
         /\ asg' = [asg EXCEPT ![a] = x] /\ logs' = [logs EXCEPT ![a].out = @ + 1]
         /\ \/ UNCHANGED ot
            \/ /\ op[w].r # None /\ ot[op[w].r].status = "PENDING"
               /\ ot' = [ot EXCEPT ![op[w].r].status = "CANCELLED"]
  BY DEF AutoCheckoutWrite, StillToClose
<1> HIDE DEF worked
<1>3. /\ x.out = now /\ x.in = asg[a].in /\ x.status = "COMPLETED"
      /\ x.auto = TRUE /\ x.att = "FORGOT_CHECKOUT"
  BY <1>1, RowType DEF Assignment
<1> HIDE DEF x
<1>4. CASE /\ asg[a].out = Null
           /\ asg' = [asg EXCEPT ![a] = x] /\ logs' = [logs EXCEPT ![a].out = @ + 1]
           /\ \/ UNCHANGED ot
              \/ /\ op[w].r # None /\ ot[op[w].r].status = "PENDING"
                 /\ ot' = [ot EXCEPT ![op[w].r].status = "CANCELLED"]
  <2>1. asg'[a] = x /\ Elsewhere(a)
    BY <1>1, <1>4 DEF Elsewhere, TypeOK
  <2>2. logs'[a].in = logs[a].in /\ logs'[a].out = logs[a].out + 1
    BY <1>1, <1>4 DEF TypeOK
  <2> QED BY <1>1, <1>3, <1>4, <2>1, <2>2
<1> QED BY <1>1, <1>2, <1>4

LEMMA DecideEffect ==
  ASSUME TypeOK, RequestsNameShifts, NEW w, NEW l \in Leaves,
         NEW approved \in BOOLEAN, DecideLeave(w, l, approved)
  PROVE  LET a == lv[l].a IN
         \/ UNCHANGED asg
         \/ /\ a \in Shifts
            /\ asg'[a].in = asg[a].in /\ asg'[a].out = asg[a].out
            /\ asg'[a].status = asg[a].status /\ asg'[a].auto = asg[a].auto
            /\ asg'[a].att = "ABSENT" => asg[a].att = "ABSENT"
            /\ asg'[a].adjStart # Null \/ asg'[a].adjEnd # Null
            /\ \A s \in Shifts \ {a} : asg'[s] = asg[s]
<1> DEFINE a == lv[l].a
           x == ApplyApprovedShiftChange(a, lv[l].kind, lv[l].at)
<1>1. a \in Shifts /\ lv[l].at \in Time
  BY DEF DecideLeave, RequestsNameShifts
<1>2. /\ x.in = asg[a].in /\ x.out = asg[a].out /\ x.status = asg[a].status
      /\ x.auto = asg[a].auto
      /\ x.att = "ABSENT" => asg[a].att = "ABSENT"
      /\ x = asg[a] \/ x.adjStart # Null \/ x.adjEnd # Null
  BY <1>1, ShiftChange
<1>3. UNCHANGED asg \/ asg' = [asg EXCEPT ![a] = x]
  BY DEF DecideLeave
<1> HIDE DEF x
<1>4. asg \in [Shifts -> Assignment]
  BY DEF TypeOK
<1>5. CASE x = asg[a]
  BY <1>1, <1>3, <1>4, <1>5
<1>6. CASE x # asg[a] /\ asg' = [asg EXCEPT ![a] = x]
  <2>1. asg'[a] = x /\ \A s \in Shifts \ {a} : asg'[s] = asg[s]
    BY <1>1, <1>4, <1>6
  <2> QED BY <1>1, <1>2, <1>6, <2>1
<1> QED BY <1>3, <1>5, <1>6

LEMMA AbsentEffect ==
  ASSUME TypeOK, NEW a \in Shifts, MarkAbsent(a)
  PROVE  /\ ~CheckedIn(a) /\ asg[a].status = "APPROVED"
         /\ asg'[a].in = asg[a].in /\ asg'[a].out = asg[a].out
         /\ asg'[a].status = asg[a].status /\ asg'[a].auto = asg[a].auto
         /\ \A s \in Shifts \ {a} : asg'[s] = asg[s]
BY DEF MarkAbsent, CheckedIn, TypeOK, Assignment

(* What may become of one row in one step: nothing; begun, closed, paid    *)
(* again, moved by a granted request, or written off.                      *)
Kept(s) == asg'[s] = asg[s] /\ logs'[s] = logs[s]
Begun(s) ==
  /\ ~CheckedIn(s) /\ asg[s].status = "APPROVED"
  /\ asg'[s].in \in Time /\ asg'[s].out = asg[s].out
  /\ asg'[s].status = "CONFIRMED" /\ asg'[s].att # "ABSENT"
  /\ asg'[s].auto = asg[s].auto
  /\ logs'[s].in = logs[s].in + 1 /\ logs'[s].out = logs[s].out
ClosedByEmployee(s, w) ==
  /\ At(w, "checkOut") /\ op[w].a = s
  /\ asg'[s].auto = asg[s].auto
  /\ asg'[s].late = asg[s].late /\ WindowKept(s)
  /\ asg'[s].out = op[w].at
  /\ asg'[s].worked = Worked(s, op[w].at, op[w].paid, FALSE)
Closed(s) ==
  /\ asg[s].out = Null
  /\ asg'[s].out \in Time /\ asg'[s].in = asg[s].in
  /\ asg'[s].status = "COMPLETED"
  /\ asg'[s].att = "ABSENT" => asg[s].att = "ABSENT"
  /\ logs'[s].in = logs[s].in /\ logs'[s].out = logs[s].out + 1
  /\ \/ \E w \in Workers : ClosedByEmployee(s, w)
     \/ asg'[s].auto /\ \E w \in Workers : At(w, "autoWrite") /\ op[w].a = s
     \/ asg'[s].auto = asg[s].auto /\ LiveOvertimes(s) = {}
PaidAgain(s) ==
  /\ asg'[s].in = asg[s].in /\ asg'[s].out = asg[s].out
  /\ asg'[s].late = asg[s].late /\ WindowKept(s)
  /\ asg'[s].status = asg[s].status /\ asg'[s].auto = asg[s].auto
  /\ asg'[s].att = asg[s].att
  /\ logs'[s] = logs[s] /\ ot' = ot
  /\ \E w \in Workers : /\ At(w, "rewrite") /\ op[w].a = s
                        /\ asg'[s].worked = op[w].row.worked
Moved(s) ==
  /\ asg'[s].in = asg[s].in /\ asg'[s].out = asg[s].out
  /\ asg'[s].status = asg[s].status /\ asg'[s].auto = asg[s].auto
  /\ asg'[s].att = "ABSENT" => asg[s].att = "ABSENT"
  /\ asg'[s].adjStart # Null \/ asg'[s].adjEnd # Null
  /\ logs'[s] = logs[s]
WrittenOff(s) ==
  /\ ~CheckedIn(s) /\ asg[s].status = "APPROVED"
  /\ asg'[s].in = asg[s].in /\ asg'[s].out = asg[s].out
  /\ asg'[s].status = asg[s].status /\ asg'[s].auto = asg[s].auto
  /\ logs'[s] = logs[s]

LEMMA RowStep ==
  ASSUME TypeOK, OpsAreSound, RequestsNameShifts, [Next]_vars, NEW s \in Shifts
  PROVE  Kept(s) \/ Begun(s) \/ Closed(s) \/ PaidAgain(s) \/ Moved(s) \/ WrittenOff(s)
<1> DEFINE Goal == Kept(s) \/ Begun(s) \/ Closed(s) \/ PaidAgain(s) \/ Moved(s)
                     \/ WrittenOff(s)
<1> HIDE DEF Goal
<1>1. ASSUME UNCHANGED <<asg, logs>> PROVE Goal
  BY <1>1 DEF Goal, Kept
<1>2. ASSUME NEW w \in Workers, CheckInCommit(w) PROVE Goal
  <2>1. CASE UNCHANGED <<asg, logs>>
    BY <1>1, <2>1
  <2>2. CASE s = op[w].a /\ ~UNCHANGED <<asg, logs>>
    BY <1>2, <2>2, CheckInEffect, NowType DEF Goal, Begun
  <2>3. CASE s # op[w].a
    BY <1>2, <2>3, CheckInEffect DEF Goal, Kept, Elsewhere
  <2> QED BY <2>1, <2>2, <2>3
<1>3. ASSUME NEW w \in Workers, CheckOutCommit(w) PROVE Goal
  <2>1. CASE UNCHANGED <<asg, logs>>
    BY <1>1, <2>1
  <2>2. CASE s = op[w].a /\ ~UNCHANGED <<asg, logs>>
    <3>1. ClosedByEmployee(s, w)
      BY <1>3, <2>2, CheckOutEffect DEF ClosedByEmployee, CheckOutCommit
    <3> QED BY <1>3, <2>2, <3>1, CheckOutEffect DEF Goal, Closed
  <2>3. CASE s # op[w].a
    BY <1>3, <2>3, CheckOutEffect DEF Goal, Kept, Elsewhere
  <2> QED BY <2>1, <2>2, <2>3
<1>4. ASSUME NEW w \in Workers, SaveRepriced(w) PROVE Goal
  <2>0. UNCHANGED <<logs, ot>> /\ At(w, "rewrite")
    BY <1>4 DEF SaveRepriced
  <2>1. CASE UNCHANGED asg
    BY <1>1, <2>0, <2>1
  <2>2. CASE s = op[w].a /\ ~UNCHANGED asg
    BY <1>4, <2>0, <2>2, RepriceEffect DEF Goal, PaidAgain
  <2>3. CASE s # op[w].a
    BY <1>4, <2>0, <2>3, RepriceEffect DEF Goal, Kept
  <2> QED BY <2>1, <2>2, <2>3
<1>5. ASSUME NEW w \in Workers, NEW b \in Shifts, ChainIntoNextShift(w, b) PROVE Goal
  <2>1. CASE s = op[w].a
    BY <1>5, <2>1, ChainEffect DEF Goal, Closed, Open
  <2>2. CASE s = b
    BY <1>5, <2>2, ChainEffect DEF Goal, Begun
  <2>3. CASE s # op[w].a /\ s # b
    BY <1>5, <2>3, ChainEffect DEF Goal, Kept
  <2> QED BY <2>1, <2>2, <2>3
<1>6. ASSUME NEW w \in Workers, AutoCheckoutWrite(w) PROVE Goal
  <2>1. CASE UNCHANGED <<asg, logs>>
    BY <1>1, <2>1
  <2>2. CASE s = op[w].a /\ ~UNCHANGED <<asg, logs>>
    <3>1. At(w, "autoWrite")
      BY <1>6 DEF AutoCheckoutWrite
    <3> QED BY <1>6, <2>2, <3>1, AutoEffect, NowType DEF Goal, Closed
  <2>3. CASE s # op[w].a
    BY <1>6, <2>3, AutoEffect DEF Goal, Kept, Elsewhere
  <2> QED BY <2>1, <2>2, <2>3
<1>7. ASSUME NEW w, NEW l \in Leaves, NEW approved \in BOOLEAN, DecideLeave(w, l, approved)
      PROVE  Goal
  <2>0. UNCHANGED logs
    BY <1>7 DEF DecideLeave
  <2>1. CASE UNCHANGED asg
    BY <1>1, <2>0, <2>1
  <2>2. CASE s = lv[l].a /\ ~UNCHANGED asg
    BY <1>7, <2>0, <2>2, DecideEffect DEF Goal, Moved
  <2>3. CASE s # lv[l].a
    BY <1>7, <2>0, <2>3, DecideEffect DEF Goal, Kept
  <2> QED BY <2>1, <2>2, <2>3
<1>8. ASSUME NEW a \in Shifts, MarkAbsent(a) PROVE Goal
  <2>0. UNCHANGED logs
    BY <1>8 DEF MarkAbsent
  <2>1. CASE s = a
    BY <1>8, <2>0, <2>1, AbsentEffect DEF Goal, WrittenOff
  <2>2. CASE s # a
    BY <1>8, <2>0, <2>2, AbsentEffect DEF Goal, Kept
  <2> QED BY <2>1, <2>2
<1>9. ASSUME NEW w, Requests(w) PROVE Goal
  <2>1. \/ UNCHANGED <<asg, logs>>
        \/ \E l \in Leaves, approved \in BOOLEAN : DecideLeave(w, l, approved)
    BY <1>9 DEF Requests, CheckInBegin, CheckOutBegin, RequestOvertime,
       ApproveBonusWork, RejectBonusWork, CancelBonusWorkBegin, CancelLeaveBegin
  <2> QED BY <1>1, <1>7, <2>1
<1>10. ASSUME NEW w \in Workers, Continue(w) PROVE Goal
  <2>1. \/ UNCHANGED <<asg, logs>>
        \/ CheckInCommit(w) \/ CheckOutCommit(w)
        \/ SaveRepriced(w) \/ AutoCheckoutWrite(w)
        \/ \E b \in Shifts : ChainIntoNextShift(w, b)
    BY <1>10 DEF Continue, RepriceCheckedOutOvertime, PriceOvertime,
       ScheduleForAssignment, MarkCompletedByEmployee,
       MarkOvertimePending, ApproveOvertime, ResumeAfterOvertime,
       CancelBonusWorkSave, CancelLeaveSave, ApplyAdjustedEnd, NoNextShift,
       AutoCheckoutRead
  <2> QED BY <1>1, <1>2, <1>3, <1>4, <1>5, <1>6, <2>1
<1>11. ASSUME \/ \E a \in Shifts, l \in Leaves, kind \in LeaveKinds, at \in Time :
                   CreateLeaveRequest(a, l, kind, at)
              \/ \E j \in jobs, auto \in BOOLEAN : HandleReminderJob(j, auto)
              \/ \E a \in Shifts : ReconcileActive(a)
              \/ Tick \/ Crash \/ UNCHANGED vars
       PROVE  Goal
  BY <1>1, <1>11 DEF CreateLeaveRequest, HandleReminderJob, ReconcileActive,
     Tick, Crash, vars
<1>12. Goal
  BY <1>8, <1>9, <1>10, <1>11 DEF Next
<1> QED BY <1>12 DEF Goal

LEMMA CheckInStays ==
  ASSUME TypeOK, OpsAreSound, RequestsNameShifts, [Next]_vars,
         NEW s \in Shifts, asg[s].in # Null
  PROVE  asg'[s].in # Null
BY RowStep, Constants DEF Kept, Begun, Closed, PaidAgain, Moved, WrittenOff

(* A shift is begun once and closed once.                                  *)
LEMMA ReadOnceStep ==
  ASSUME TypeOK, OpsAreSound, RequestsNameShifts, ReadOnce, [Next]_vars
  PROVE  ReadOnce'
<1> SUFFICES ASSUME NEW a \in Shifts
             PROVE  /\ logs'[a].in = IF asg'[a].in # Null THEN 1 ELSE 0
                    /\ logs'[a].out = IF asg'[a].out # Null THEN 1 ELSE 0
                    /\ asg'[a].status = "COMPLETED" <=> asg'[a].out # Null
  BY DEF ReadOnce, CheckedIn
<1>1. /\ logs[a].in = IF asg[a].in # Null THEN 1 ELSE 0
      /\ logs[a].out = IF asg[a].out # Null THEN 1 ELSE 0
      /\ asg[a].status = "COMPLETED" <=> asg[a].out # Null
  BY DEF ReadOnce, CheckedIn
<1>2. CASE Begun(a)
  BY <1>1, <1>2, Constants DEF Begun, CheckedIn
<1>3. CASE Closed(a)
  BY <1>1, <1>3, Constants DEF Closed
<1>4. CASE Kept(a) \/ PaidAgain(a) \/ Moved(a) \/ WrittenOff(a)
  BY <1>1, <1>4 DEF Kept, PaidAgain, Moved, WrittenOff
<1> QED BY <1>2, <1>3, <1>4, RowStep

LEMMA AbsentStep ==
  ASSUME TypeOK, OpsAreSound, RequestsNameShifts, AbsentWasNotWorked, [Next]_vars
  PROVE  AbsentWasNotWorked'
<1> SUFFICES ASSUME NEW a \in Shifts, asg'[a].att = "ABSENT"
             PROVE  asg'[a].in = Null
  BY DEF AbsentWasNotWorked
<1>1. asg[a].att = "ABSENT" => asg[a].in = Null
  BY DEF AbsentWasNotWorked
<1> QED
  BY <1>1, RowStep DEF Kept, Begun, Closed, PaidAgain, Moved, WrittenOff, CheckedIn

(* Only the update of an automatic check-out marks a shift as forgotten.   *)
LEMMA AutoStep ==
  ASSUME TypeOK, OpsAreSound, RequestsNameShifts, [Next]_vars,
         NEW a \in Shifts, asg'[a].auto, ~asg[a].auto
  PROVE  \E w \in Workers : At(w, "autoWrite") /\ op[w].a = a
BY RowStep DEF Kept, Begun, Closed, ClosedByEmployee, PaidAgain, Moved, WrittenOff

-----------------------------------------------------------------------------
(* What a step does to the requests                                        *)

Ended(r) ==
  /\ ot'[r].a = ot[r].a /\ ot'[r].end = ot[r].end
  /\ ot[r].status # "NONE" /\ ot'[r].status \in {"REJECTED", "CANCELLED"}
OvertimesEnd == \A r \in Overtimes : ot'[r] = ot[r] \/ Ended(r)

LEMMA EndOvertime ==
  ASSUME TypeOK, NEW r \in Overtimes, ot[r].status # "NONE",
         NEW status \in {"REJECTED", "CANCELLED"},
         ot' = [ot EXCEPT ![r].status = status]
  PROVE  OvertimesEnd
BY DEF OvertimesEnd, Ended, TypeOK, BonusWorkRequest

LEMMA OvertimeStep ==
  ASSUME TypeOK, OpsAreSound, [Next]_vars
  PROVE  \/ OvertimesEnd
         \/ \E w \in Http, r \in Overtimes : ApproveBonusWork(w, r)
         \/ \E w \in Http, a \in Shifts, r \in Overtimes, end \in OvertimeEnds :
              RequestOvertime(w, a, r, end)
<1>1. ASSUME UNCHANGED ot PROVE OvertimesEnd
  BY <1>1 DEF OvertimesEnd
<1>2. ASSUME NEW w \in Workers, Continue(w) PROVE OvertimesEnd
  <2>1. CASE CancelBonusWorkSave(w)
    <3>1. op[w].r \in Overtimes /\ ot[op[w].r].status # "NONE"
      BY <2>1 DEF CancelBonusWorkSave, At, OpsAreSound
    <3> QED BY <2>1, <3>1, EndOvertime DEF CancelBonusWorkSave
  <2>2. CASE AutoCheckoutWrite(w)
    BY <1>1, <2>2, AutoEffect, EndOvertime
  <2> QED
    BY <1>1, <1>2, <2>1, <2>2 DEF Continue, CheckInCommit, CheckOutCommit,
       RepriceCheckedOutOvertime, PriceOvertime, SaveRepriced,
       ChainIntoNextShift, ScheduleForAssignment,
       MarkCompletedByEmployee, MarkOvertimePending, ApproveOvertime,
       ResumeAfterOvertime, CancelLeaveSave, ApplyAdjustedEnd, NoNextShift,
       AutoCheckoutRead
<1>3. ASSUME NEW w \in Http, Requests(w)
      PROVE  \/ OvertimesEnd
             \/ \E r \in Overtimes : ApproveBonusWork(w, r)
             \/ \E a \in Shifts, r \in Overtimes, end \in OvertimeEnds :
                  RequestOvertime(w, a, r, end)
  <2>1. ASSUME NEW r \in Overtimes, RejectBonusWork(w, r) PROVE OvertimesEnd
    BY <2>1, EndOvertime DEF RejectBonusWork, Live
  <2> QED
    BY <1>1, <1>3, <2>1 DEF Requests, CheckInBegin, CheckOutBegin,
       CancelBonusWorkBegin, DecideLeave, CancelLeaveBegin
<1>4. ASSUME \/ \E a \in Shifts, l \in Leaves, kind \in LeaveKinds, at \in Time :
                  CreateLeaveRequest(a, l, kind, at)
             \/ \E j \in jobs, auto \in BOOLEAN : HandleReminderJob(j, auto)
             \/ \E a \in Shifts : ReconcileActive(a) \/ MarkAbsent(a)
             \/ Tick \/ Crash \/ UNCHANGED vars
      PROVE  OvertimesEnd
  BY <1>1, <1>4 DEF CreateLeaveRequest, HandleReminderJob, ReconcileActive,
     MarkAbsent, Tick, Crash, vars
<1>5. IdleHttp # {} => (CHOOSE w \in IdleHttp : TRUE) \in Http
  BY DEF IdleHttp
<1> QED BY <1>2, <1>3, <1>4, <1>5 DEF Next

Judged(l) ==
  /\ lv'[l].a = lv[l].a /\ lv'[l].kind = lv[l].kind /\ lv'[l].at = lv[l].at
  /\ lv[l].status # "NONE" /\ lv'[l].status # "NONE"
  /\ Live(lv'[l].status) => Live(lv[l].status)
LeavesJudged == \A l \in Leaves : lv'[l] = lv[l] \/ Judged(l)

LEMMA LeaveStep ==
  ASSUME TypeOK, OpsAreSound, [Next]_vars
  PROVE  \/ LeavesJudged
         \/ \E a \in Shifts, l \in Leaves, kind \in LeaveKinds, at \in Time :
              CreateLeaveRequest(a, l, kind, at)
<1>1. ASSUME UNCHANGED lv PROVE LeavesJudged
  BY <1>1 DEF LeavesJudged
<1>2. ASSUME NEW w \in Workers, Continue(w) PROVE LeavesJudged
  <2>1. CASE CancelLeaveSave(w)
    <3>1. op[w].r \in Leaves /\ lv[op[w].r].status # "NONE"
      BY <2>1 DEF CancelLeaveSave, At, OpsAreSound
    <3> QED
      BY <2>1, <3>1 DEF CancelLeaveSave, LeavesJudged, Judged, Live, TypeOK,
         EmployeeLeaveRequest
  <2> QED
    BY <1>1, <1>2, <2>1 DEF Continue, CheckInCommit, CheckOutCommit,
       RepriceCheckedOutOvertime, PriceOvertime, SaveRepriced,
       ChainIntoNextShift, ScheduleForAssignment,
       MarkCompletedByEmployee, MarkOvertimePending, ApproveOvertime,
       ResumeAfterOvertime, CancelBonusWorkSave, ApplyAdjustedEnd, NoNextShift,
       AutoCheckoutRead, AutoCheckoutWrite
<1>3. ASSUME NEW w, Requests(w) PROVE LeavesJudged
  <2>1. ASSUME NEW l \in Leaves, NEW approved \in BOOLEAN, DecideLeave(w, l, approved)
        PROVE  LeavesJudged
    <3> DEFINE status == IF approved THEN "APPROVED" ELSE "REJECTED"
    <3>1. /\ status # "NONE" /\ lv[l].status = "PENDING"
          /\ lv' = [lv EXCEPT ![l].status = status]
      BY <2>1 DEF DecideLeave
    <3> HIDE DEF status
    <3> QED BY <3>1 DEF LeavesJudged, Judged, Live, TypeOK, EmployeeLeaveRequest
  <2> QED
    BY <1>1, <1>3, <2>1 DEF Requests, CheckInBegin, CheckOutBegin,
       RequestOvertime, ApproveBonusWork, RejectBonusWork,
       CancelBonusWorkBegin, CancelLeaveBegin
<1>4. ASSUME \/ \E j \in jobs, auto \in BOOLEAN : HandleReminderJob(j, auto)
             \/ \E a \in Shifts : ReconcileActive(a) \/ MarkAbsent(a)
             \/ Tick \/ Crash \/ UNCHANGED vars
      PROVE  LeavesJudged
  BY <1>1, <1>4 DEF HandleReminderJob, ReconcileActive, MarkAbsent, Tick, Crash, vars
<1> QED BY <1>2, <1>3, <1>4 DEF Next

(* The request a step files, if it files one, and the rest as they were.   *)
LEMMA OvertimeFiled ==
  ASSUME TypeOK, NEW w, NEW a \in Shifts, NEW r \in Overtimes,
         NEW end \in OvertimeEnds, RequestOvertime(w, a, r, end)
  PROVE  /\ ot'[r].status = "PENDING" /\ ot'[r].a = a /\ ot'[r].end = end
         /\ ot[r].status = "NONE"
         /\ \A s \in Overtimes \ {r} : ot'[s] = ot[s]
         /\ UNCHANGED <<asg, lv, late>>
BY DEF RequestOvertime, TypeOK

LEMMA OvertimeApproved ==
  ASSUME TypeOK, NEW w, NEW r \in Overtimes, ApproveBonusWork(w, r)
  PROVE  /\ ot[r].status = "PENDING"
         /\ ot'[r].status = "APPROVED"
         /\ ot'[r].a = ot[r].a /\ ot'[r].end = ot[r].end
         /\ \A s \in Overtimes \ {r} : ot'[s] = ot[s]
         /\ UNCHANGED <<asg, lv>>
BY DEF ApproveBonusWork, TypeOK, BonusWorkRequest

LEMMA LeaveFiled ==
  ASSUME TypeOK, NEW a \in Shifts, NEW l \in Leaves, NEW kind \in LeaveKinds,
         NEW at \in Time, CreateLeaveRequest(a, l, kind, at)
  PROVE  /\ lv'[l].status = "PENDING" /\ lv'[l].a = a
         /\ lv'[l].kind = kind /\ lv'[l].at = at
         /\ lv[l].status = "NONE"
         /\ \A m \in Leaves \ {l} : lv'[m] = lv[m]
         /\ UNCHANGED <<asg, ot>>
BY DEF CreateLeaveRequest, TypeOK

LEMMA OvertimeStaysFiled ==
  ASSUME TypeOK, OpsAreSound, [Next]_vars,
         NEW r \in Overtimes, ot[r].status # "NONE"
  PROVE  ot'[r].status # "NONE" /\ ot'[r].a = ot[r].a /\ ot'[r].end = ot[r].end
<1>1. CASE OvertimesEnd
  BY <1>1 DEF OvertimesEnd, Ended
<1>2. ASSUME NEW w, NEW s \in Overtimes, ApproveBonusWork(w, s)
      PROVE  ot'[r].status # "NONE" /\ ot'[r].a = ot[r].a /\ ot'[r].end = ot[r].end
  BY <1>2, OvertimeApproved
<1>3. ASSUME NEW w, NEW a \in Shifts, NEW s \in Overtimes, NEW end \in OvertimeEnds,
             RequestOvertime(w, a, s, end)
      PROVE  ot'[r].status # "NONE" /\ ot'[r].a = ot[r].a /\ ot'[r].end = ot[r].end
  BY <1>3, OvertimeFiled
<1> QED BY <1>1, <1>2, <1>3, OvertimeStep

LEMMA LeaveStaysFiled ==
  ASSUME TypeOK, OpsAreSound, [Next]_vars,
         NEW l \in Leaves, lv[l].status # "NONE"
  PROVE  lv'[l].status # "NONE" /\ lv'[l].a = lv[l].a /\ lv'[l].at = lv[l].at
<1>1. CASE LeavesJudged
  BY <1>1 DEF LeavesJudged, Judged
<1>2. ASSUME NEW a \in Shifts, NEW m \in Leaves, NEW kind \in LeaveKinds,
             NEW at \in Time, CreateLeaveRequest(a, m, kind, at)
      PROVE  lv'[l].status # "NONE" /\ lv'[l].a = lv[l].a /\ lv'[l].at = lv[l].at
  BY <1>2, LeaveFiled
<1> QED BY <1>1, <1>2, LeaveStep

LEMMA RequestsStep ==
  ASSUME TypeOK, OpsAreSound, RequestsNameShifts, [Next]_vars
  PROVE  RequestsNameShifts'
<1>1. ASSUME NEW r \in Overtimes, ot'[r].status # "NONE" PROVE ot'[r].a \in Shifts
  <2>1. CASE ot[r].status # "NONE"
    BY <2>1, OvertimeStaysFiled DEF RequestsNameShifts
  <2>2. CASE ot[r].status = "NONE"
    <3>1. CASE OvertimesEnd
      BY <1>1, <2>2, <3>1 DEF OvertimesEnd, Ended
    <3>2. ASSUME NEW w, NEW s \in Overtimes, ApproveBonusWork(w, s) PROVE FALSE
      BY <1>1, <2>2, <3>2, OvertimeApproved
    <3>3. ASSUME NEW w, NEW a \in Shifts, NEW s \in Overtimes,
                 NEW end \in OvertimeEnds, RequestOvertime(w, a, s, end)
          PROVE  ot'[r].a \in Shifts
      BY <1>1, <2>2, <3>3, OvertimeFiled
    <3> QED BY <3>1, <3>2, <3>3, OvertimeStep
  <2> QED BY <2>1, <2>2
<1>2. ASSUME NEW l \in Leaves, lv'[l].status # "NONE"
      PROVE  lv'[l].a \in Shifts /\ lv'[l].at \in Time
  <2>1. CASE lv[l].status # "NONE"
    BY <2>1, LeaveStaysFiled DEF RequestsNameShifts
  <2>2. CASE lv[l].status = "NONE"
    <3>1. CASE LeavesJudged
      BY <1>2, <2>2, <3>1 DEF LeavesJudged, Judged
    <3>2. ASSUME NEW a \in Shifts, NEW m \in Leaves, NEW kind \in LeaveKinds,
                 NEW at \in Time, CreateLeaveRequest(a, m, kind, at)
          PROVE  lv'[l].a \in Shifts /\ lv'[l].at \in Time
      BY <1>2, <2>2, <3>2, LeaveFiled
    <3> QED BY <3>1, <3>2, LeaveStep
  <2> QED BY <2>1, <2>2
<1> QED BY <1>1, <1>2 DEF RequestsNameShifts

(* One live overtime request per shift.                                    *)
LEMMA OneLiveStep ==
  ASSUME TypeOK, OpsAreSound, OneLiveOvertime, [Next]_vars
  PROVE  OneLiveOvertime'
<1> SUFFICES ASSUME NEW r \in Overtimes, NEW s \in Overtimes,
                    Live(ot'[r].status), Live(ot'[s].status), ot'[r].a = ot'[s].a
             PROVE  r = s
  BY DEF OneLiveOvertime, Live
<1>1. Live(ot[r].status) /\ Live(ot[s].status) /\ ot[r].a = ot[s].a => r = s
  BY DEF OneLiveOvertime
<1>2. CASE OvertimesEnd
  BY <1>1, <1>2 DEF OvertimesEnd, Ended, Live
<1>3. ASSUME NEW w, NEW q \in Overtimes, ApproveBonusWork(w, q) PROVE r = s
  BY <1>1, <1>3, OvertimeApproved DEF Live
<1>4. ASSUME NEW w, NEW a \in Shifts, NEW q \in Overtimes, NEW end \in OvertimeEnds,
             RequestOvertime(w, a, q, end)
      PROVE  r = s
  <2>1. \A p \in Overtimes : ot[p].a = a => ~Live(ot[p].status)
    BY <1>4 DEF RequestOvertime, LiveOvertimes, OvertimesOf, Live
  <2>2. ot'[q].a = a /\ \A p \in Overtimes \ {q} : ot'[p] = ot[p]
    BY <1>4, OvertimeFiled
  <2>3. CASE r = q /\ s # q
    BY <2>1, <2>2, <2>3
  <2>4. CASE s = q /\ r # q
    BY <2>1, <2>2, <2>4
  <2> QED BY <1>1, <2>2, <2>3, <2>4
<1> QED BY <1>2, <1>3, <1>4, OvertimeStep

(* Overtime and early leave exclude each other.                            *)
LEMMA ExclusiveStep ==
  ASSUME TypeOK, OpsAreSound, OvertimeOrEarlyLeave, [Next]_vars
  PROVE  OvertimeOrEarlyLeave'
<1> SUFFICES ASSUME NEW a \in Shifts, NEW r \in Overtimes, NEW l \in Leaves,
                    ot'[r].a = a, Live(ot'[r].status),
                    lv'[l].a = a, lv'[l].kind = "EARLY", Live(lv'[l].status)
             PROVE  FALSE
  BY DEF OvertimeOrEarlyLeave, LiveOvertimes, OvertimesOf, Live
<1>1. ~(/\ ot[r].a = a /\ Live(ot[r].status)
        /\ lv[l].a = a /\ lv[l].kind = "EARLY" /\ Live(lv[l].status))
  BY DEF OvertimeOrEarlyLeave, LiveOvertimes, OvertimesOf, Live
<1>2. ASSUME NEW w, NEW q \in Overtimes, ApproveBonusWork(w, q) PROVE FALSE
  BY <1>1, <1>2, OvertimeApproved DEF Live
<1>3. ASSUME NEW w, NEW b \in Shifts, NEW q \in Overtimes, NEW end \in OvertimeEnds,
             RequestOvertime(w, b, q, end)
      PROVE  FALSE
  <2>1. ~(lv[l].a = b /\ lv[l].kind = "EARLY" /\ Live(lv[l].status))
    BY <1>3 DEF RequestOvertime
  <2> QED BY <1>1, <1>3, <2>1, OvertimeFiled
<1>4. ASSUME NEW b \in Shifts, NEW m \in Leaves, NEW kind \in LeaveKinds,
             NEW at \in Time, CreateLeaveRequest(b, m, kind, at)
      PROVE  FALSE
  <2>1. kind = "EARLY" => ~(ot[r].a = b /\ Live(ot[r].status))
    BY <1>4 DEF CreateLeaveRequest, LiveOvertimes, OvertimesOf, Live
  <2> QED BY <1>1, <1>4, <2>1, LeaveFiled
<1>5. CASE OvertimesEnd /\ LeavesJudged
  BY <1>1, <1>5 DEF OvertimesEnd, LeavesJudged, Ended, Judged, Live
<1> QED BY <1>2, <1>3, <1>4, <1>5, OvertimeStep, LeaveStep

-----------------------------------------------------------------------------
(* What a step does to the operations in flight                            *)

(* OpsAreSound for one operation, at instant t and with the given rows.    *)
SoundAt(o, t, rows, ots, lvs) ==
  /\ o.pc # "idle" => o.a \in Shifts
  /\ o.pc \in {"markPending", "toPending", "reprice", "price", "rewrite",
               "approve", "resume", "cancel"}
       => o.r \in Overtimes
  /\ o.pc \in {"price", "rewrite"} => o.row \in Assignment
  /\ o.pc = "cancel" => ots[o.r].status # "NONE"
  /\ o.pc = "cancelLeave" => o.r \in Leaves /\ lvs[o.r].status # "NONE"
  /\ o.pc = "checkOut" => o.at \in Time /\ rows[o.a].in # Null
  /\ o.pc \in {"chain", "auto", "autoWrite"} => o.at \in Ahead
  /\ o.pc = "chain" /\ o.by = "auto" => t >= o.at + Rules.lateCheckout
  /\ o.pc \in {"auto", "autoWrite"} => t >= o.at + Rules.lateCheckout
  /\ o.pc = "autoWrite" =>
       /\ o.r \in Overtimes \cup {None}
       /\ o.paid # Null => t >= o.paid + Rules.lateCheckout

LEMMA OpsSound ==
  /\ OpsAreSound <=> \A w \in Workers : SoundAt(op[w], now, asg, ot, lv)
  /\ OpsAreSound' <=> \A w \in Workers : SoundAt(op'[w], now', asg', ot', lv')
BY DEF OpsAreSound, SoundAt, Overdue, CheckedIn

LEMMA SoundStays ==
  ASSUME TypeOK, OpsAreSound, RequestsNameShifts, [Next]_vars,
         NEW o, SoundAt(o, now, asg, ot, lv),
         o.paid \in Ahead \cup {Null}
  PROVE  SoundAt(o, now', asg', ot', lv')
<1>1. now \in Int /\ now' \in Int /\ now' >= now
  <2>1. ASSUME NEW w, Requests(w) PROVE now' = now
    BY <2>1 DEF Requests, CheckInBegin, CheckOutBegin, RequestOvertime,
       ApproveBonusWork, RejectBonusWork, CancelBonusWorkBegin, DecideLeave,
       CancelLeaveBegin
  <2>2. ASSUME NEW w, Continue(w) PROVE now' = now
    BY <2>2 DEF Continue, CheckInCommit, ScheduleForAssignment, CheckOutCommit,
       MarkCompletedByEmployee, MarkOvertimePending, RepriceCheckedOutOvertime,
       PriceOvertime, SaveRepriced, ApproveOvertime, ResumeAfterOvertime, CancelBonusWorkSave,
       CancelLeaveSave, ApplyAdjustedEnd, ChainIntoNextShift, NoNextShift,
       AutoCheckoutRead, AutoCheckoutWrite
  <2>3. now' = now \/ now' = now + 1
    BY <2>1, <2>2 DEF Next, CreateLeaveRequest, HandleReminderJob,
       ReconcileActive, MarkAbsent, Tick, Crash, vars
  <2> QED BY <2>3, NowType
<1>2. o.pc = "checkOut" => asg'[o.a].in # Null
  BY CheckInStays DEF SoundAt
<1>3. o.pc = "cancel" => ot'[o.r].status # "NONE"
  BY OvertimeStaysFiled DEF SoundAt
<1>4. o.pc = "cancelLeave" => lv'[o.r].status # "NONE"
  BY LeaveStaysFiled DEF SoundAt
<1>5. ASSUME NEW t \in Ahead, now >= t + Rules.lateCheckout
      PROVE  now' >= t + Rules.lateCheckout
  BY <1>1, <1>5, Constants
<1> QED BY <1>2, <1>3, <1>4, <1>5 DEF SoundAt

(* What an action may hand to a worker, and that it touches that one only. *)
Prices(w) == RepriceCheckedOutOvertime(w) \/ PriceOvertime(w)
Given(o) ==
  /\ SoundAt(o, now, asg, ot, lv)
  /\ o.pc = "checkOut" => UNCHANGED ot /\ o.paid = ApprovedOvertimeEnd(o.a)
  /\ o.pc \in {"price", "rewrite"} =>
       \E w \in Workers : Prices(w) /\ op'[w] = o
Hands(w) ==
  /\ w \in Workers
  /\ \A v \in Workers \ {w} : op'[v] = op[v]
  /\ Given(op'[w])

LEMMA HandsOver ==
  ASSUME TypeOK, NEW w \in Workers, NEW o, Given(o), op' = [op EXCEPT ![w] = o]
  PROVE  Hands(w)
<1>1. op'[w] = o /\ \A v \in Workers \ {w} : op'[v] = op[v]
  BY DEF TypeOK
<1> QED BY <1>1 DEF Hands

LEMMA GivenSimple ==
  ASSUME NEW pc \in {"idle", "schedule", "checkIn", "complete", "adjust"},
         NEW a \in Shifts
  PROVE  Given(Do(pc, a)) /\ Given(Idle)
BY DEF Given, SoundAt, Do, Idle

LEMMA GivenOvertime ==
  ASSUME NEW a \in Shifts, NEW r \in Overtimes, NEW by
  PROVE  /\ Given([Do("markPending", a) EXCEPT !.r = r])
         /\ Given([Do("reprice", a) EXCEPT !.r = r, !.by = by])
BY DEF Given, SoundAt, Do

LEMMA GivenIdle == Given(Idle)
BY DEF Given, SoundAt, Do, Idle

LEMMA RequestsHand ==
  ASSUME TypeOK, RequestsNameShifts, NEW w \in Http, Requests(w)
  PROVE  op' = op \/ (Hands(w) /\ op[w] = Idle)
<1> USE DEF Takes
<1>0. w \in Workers
  BY Constants
<1>1. ASSUME NEW a \in Shifts, CheckInBegin(w, a) PROVE Hands(w) /\ op[w] = Idle
  BY <1>0, <1>1, GivenSimple, HandsOver DEF CheckInBegin
<1>2. ASSUME NEW a \in Shifts, CheckOutBegin(w, a) PROVE Hands(w) /\ op[w] = Idle
  <2> DEFINE o == [Do("checkOut", a) EXCEPT !.at = now, !.paid = ApprovedOvertimeEnd(a)]
  <2>1. asg[a].in # Null /\ UNCHANGED ot /\ op[w] = Idle
    BY <1>2 DEF CheckOutBegin, CheckedIn
  <2>2. o.pc = "checkOut" /\ o.a = a /\ o.at = now /\ o.paid = ApprovedOvertimeEnd(a)
    BY DEF Do
  <2>3. op' = [op EXCEPT ![w] = Do("complete", a)] \/ op' = [op EXCEPT ![w] = o]
    BY <1>2 DEF CheckOutBegin
  <2> HIDE DEF o
  <2>4. Given(o)
    BY <2>1, <2>2, NowType DEF Given, SoundAt
  <2> QED BY <1>0, <2>1, <2>3, <2>4, GivenSimple, HandsOver
<1>3. ASSUME NEW a \in Shifts, NEW r \in Overtimes, NEW end \in OvertimeEnds,
             RequestOvertime(w, a, r, end)
      PROVE  Hands(w) /\ op[w] = Idle
  BY <1>0, <1>3, GivenOvertime, HandsOver DEF RequestOvertime
<1>4. ASSUME NEW r \in Overtimes, ApproveBonusWork(w, r) PROVE Hands(w) /\ op[w] = Idle
  <2>1. ot[r].a \in Shifts
    BY <1>4 DEF ApproveBonusWork, RequestsNameShifts
  <2> QED BY <1>0, <1>4, <2>1, GivenOvertime, HandsOver DEF ApproveBonusWork
<1>5. ASSUME NEW r \in Overtimes, RejectBonusWork(w, r) PROVE Hands(w) /\ op[w] = Idle
  <2>1. ot[r].a \in Shifts
    BY <1>5 DEF RejectBonusWork, RequestsNameShifts, Live
  <2> QED BY <1>0, <1>5, <2>1, GivenOvertime, HandsOver DEF RejectBonusWork
<1>6. ASSUME NEW r \in Overtimes, CancelBonusWorkBegin(w, r) PROVE Hands(w) /\ op[w] = Idle
  <2>1. ot[r].a \in Shifts /\ ot[r].status = "PENDING"
    BY <1>6 DEF CancelBonusWorkBegin, RequestsNameShifts
  <2>2. Given([Do("cancel", ot[r].a) EXCEPT !.r = r])
    BY <2>1 DEF Given, SoundAt, Do
  <2> QED BY <1>0, <1>6, <2>2, HandsOver DEF CancelBonusWorkBegin
<1>7. ASSUME NEW l \in Leaves, NEW approved \in BOOLEAN, DecideLeave(w, l, approved)
      PROVE  op' = op \/ (Hands(w) /\ op[w] = Idle)
  <2>1. lv[l].a \in Shifts
    BY <1>7 DEF DecideLeave, RequestsNameShifts
  <2>2. \/ op' = op
        \/ /\ op[w] = Idle
           /\ \/ op' = [op EXCEPT ![w] = Do("adjust", lv[l].a)]
              \/ op' = [op EXCEPT ![w] = Idle]
    BY <1>7 DEF DecideLeave
  <2> QED BY <1>0, <2>1, <2>2, GivenSimple, HandsOver
<1>8. ASSUME NEW l \in Leaves, CancelLeaveBegin(w, l) PROVE Hands(w) /\ op[w] = Idle
  <2>1. lv[l].a \in Shifts /\ lv[l].status = "PENDING"
    BY <1>8 DEF CancelLeaveBegin, RequestsNameShifts
  <2>2. Given([Do("cancelLeave", lv[l].a) EXCEPT !.r = l])
    BY <2>1 DEF Given, SoundAt, Do
  <2> QED BY <1>0, <1>8, <2>2, HandsOver DEF CancelLeaveBegin
<1> QED
  BY <1>1, <1>2, <1>3, <1>4, <1>5, <1>6, <1>7, <1>8 DEF Requests

LEMMA ContinueHands ==
  ASSUME TypeOK, OpsAreSound, NEW w \in Workers, Continue(w)
  PROVE  Hands(w)
<1> USE DEF Goes, Ends, At
<1> DEFINE a == op[w].a
<1>0. SoundAt(op[w], now, asg, ot, lv) /\ op[w] \in Op
  BY OpsSound DEF TypeOK
<1>1. ASSUME \/ ScheduleForAssignment(w) \/ MarkCompletedByEmployee(w)
             \/ MarkOvertimePending(w) \/ ApproveOvertime(w)
             \/ ResumeAfterOvertime(w) \/ CancelLeaveSave(w)
             \/ ApplyAdjustedEnd(w) \/ AutoCheckoutWrite(w)
      PROVE  Hands(w)
  <2>1. op' = [op EXCEPT ![w] = Idle]
    BY <1>1 DEF ScheduleForAssignment, MarkCompletedByEmployee,
       MarkOvertimePending, ApproveOvertime, ResumeAfterOvertime,
       CancelLeaveSave, ApplyAdjustedEnd, AutoCheckoutWrite
  <2> QED BY <2>1, GivenIdle, HandsOver
<1>2. ASSUME CheckInCommit(w) PROVE Hands(w)
  <2>1. a \in Shifts
    BY <1>2, OpFacts DEF CheckInCommit
  <2>2. op' = [op EXCEPT ![w] = Do("schedule", a)] \/ op' = [op EXCEPT ![w] = Idle]
    BY <1>2 DEF CheckInCommit
  <2> QED BY <2>1, <2>2, GivenSimple, HandsOver
<1>3. ASSUME CheckOutCommit(w) PROVE Hands(w)
  <2>1. a \in Shifts
    BY <1>3, OpFacts DEF CheckOutCommit
  <2>2. op' = [op EXCEPT ![w] = Do("complete", a)]
    BY <1>3 DEF CheckOutCommit
  <2> QED BY <2>1, <2>2, GivenSimple, HandsOver
<1>4. ASSUME NEW b \in Shifts, ChainIntoNextShift(w, b) PROVE Hands(w)
  BY <1>4, GivenSimple, HandsOver DEF ChainIntoNextShift
<1>5. ASSUME CancelBonusWorkSave(w) PROVE Hands(w)
  <2>1. op' = [op EXCEPT ![w] = [op[w] EXCEPT !.pc = "resume"]]
    BY <1>5 DEF CancelBonusWorkSave
  <2>2. a \in Shifts /\ op[w].r \in Overtimes
    BY <1>5, OpFacts DEF CancelBonusWorkSave
  <2>3. Given([op[w] EXCEPT !.pc = "resume"])
    BY <1>0, <2>2 DEF Given, SoundAt, Op
  <2> QED BY <2>1, <2>3, HandsOver
<1>8. ASSUME Prices(w) \/ SaveRepriced(w) PROVE Hands(w)
  <2>1. a \in Shifts /\ op[w].r \in Overtimes
    BY <1>8, OpFacts DEF Prices, RepriceCheckedOutOvertime, PriceOvertime, SaveRepriced
  <2>2. Given(Repriced(op[w]))
    BY <1>0, <2>1, RepricedType DEF Given, SoundAt
  <2>3. ASSUME NEW o, op' = [op EXCEPT ![w] = o], o.pc \in {"price", "rewrite"},
               o.a = a, o.r = op[w].r, o.row \in Assignment, Prices(w)
        PROVE  Hands(w)
    <3>1. op'[w] = o
      BY <2>3 DEF TypeOK
    <3>2. Given(o)
      BY <2>1, <2>3, <3>1 DEF Given, SoundAt
    <3> QED BY <2>3, <3>2, HandsOver
  <2>4. CASE op' = [op EXCEPT ![w] = Repriced(op[w])]
    BY <2>2, <2>4, HandsOver
  <2>5. CASE Prices(w)
    BY <2>3, <2>4, <2>5, RepricingOps, RepricingSteps DEF Prices
  <2> QED BY <1>8, <2>4, <2>5 DEF SaveRepriced
<1>6. ASSUME NoNextShift(w) PROVE Hands(w)
  <2> DEFINE o == [op[w] EXCEPT !.pc = "auto"]
  <2>1. /\ o.pc = "auto" /\ o.a = a /\ o.at = op[w].at /\ o.r = op[w].r
        /\ o.paid = op[w].paid
    BY <1>0 DEF Op
  <2>2. \/ op' = [op EXCEPT ![w] = Idle]
        \/ /\ op' = [op EXCEPT ![w] = o]
           /\ op[w].by = "auto" \/ now >= op[w].at + Rules.lateCheckout
    BY <1>6 DEF NoNextShift
  <2>3. op[w].pc = "chain"
    BY <1>6 DEF NoNextShift
  <2> HIDE DEF o
  <2>4. op' = [op EXCEPT ![w] = o] /\ ~(op' = [op EXCEPT ![w] = Idle]) => Given(o)
    BY <1>0, <2>1, <2>2, <2>3 DEF Given, SoundAt
  <2> QED BY <2>2, <2>4, GivenIdle, HandsOver
<1>7. ASSUME AutoCheckoutRead(w) PROVE Hands(w)
  <2> DEFINE pending == OvertimesOf(a, {"PENDING"})
             r == IF pending = {} THEN None ELSE CHOOSE s \in pending : TRUE
             o == [op[w] EXCEPT !.pc = "autoWrite", !.r = r,
                                !.paid = ApprovedOvertimeEnd(a)]
  <2>1. r \in Overtimes \cup {None}
    BY DEF OvertimesOf
  <2>2. \/ op' = [op EXCEPT ![w] = Idle]
        \/ /\ op' = [op EXCEPT ![w] = o]
           /\ \A s \in OvertimesOf(a, {"APPROVED"}) : ApprovedOvertimeOver(s)
    BY <1>7 DEF AutoCheckoutRead
  <2>3. op[w].pc = "auto"
    BY <1>7 DEF AutoCheckoutRead
  <2> HIDE DEF r
  <2>4. /\ o.pc = "autoWrite" /\ o.a = a /\ o.at = op[w].at /\ o.r = r
        /\ o.paid = ApprovedOvertimeEnd(a)
    BY <1>0 DEF Op
  <2>5. ASSUME \A s \in OvertimesOf(a, {"APPROVED"}) : ApprovedOvertimeOver(s)
        PROVE  Given(o)
    <3>1. ApprovedOvertimeEnd(a) # Null
            => now >= ApprovedOvertimeEnd(a) + Rules.lateCheckout
      BY <2>5 DEF ApprovedOvertimeEnd, ApprovedOvertimeOver
    <3> HIDE DEF o
    <3> QED BY <1>0, <2>1, <2>3, <2>4, <3>1 DEF Given, SoundAt
  <2> HIDE DEF o
  <2> QED BY <2>2, <2>5, GivenIdle, HandsOver
<1> QED
  BY <1>1, <1>2, <1>3, <1>4, <1>5, <1>6, <1>7, <1>8 DEF Continue, Prices

(* The reminder job and the sweep close only what is overdue.              *)
LEMMA JobHands ==
  ASSUME TypeOK, NEW j \in jobs, NEW auto \in BOOLEAN, HandleReminderJob(j, auto)
  PROVE  Hands(JobWorker) /\ op[JobWorker] = Idle
<1> DEFINE a == j.a
           pending == OvertimesOf(a, {"PENDING"})
           r == CHOOSE s \in pending : TRUE
           by == IF auto THEN "auto" ELSE "reminder"
           mine(pc) == [Do(pc, a) EXCEPT !.at = j.end, !.by = by]
<1>1. a \in Shifts /\ j.end \in Ahead
  BY DEF TypeOK, Job
<1>2. auto => now >= j.end + Rules.lateCheckout
  BY DEF HandleReminderJob, Due
<1>3. \A pc : /\ mine(pc).pc = pc /\ mine(pc).a = a /\ mine(pc).at = j.end
              /\ mine(pc).by = by
  BY DEF Do
<1>4. /\ [mine("toPending") EXCEPT !.r = r].pc = "toPending"
      /\ [mine("toPending") EXCEPT !.r = r].a = a
      /\ [mine("toPending") EXCEPT !.r = r].r = r
  BY DEF Do
<1>5. op[JobWorker] = Idle
  BY DEF HandleReminderJob, Takes
<1>6. \/ op' = [op EXCEPT ![JobWorker] = Idle]
      \/ pending # {} /\ op' = [op EXCEPT ![JobWorker] = [mine("toPending") EXCEPT !.r = r]]
      \/ op' = [op EXCEPT ![JobWorker] = mine("chain")]
      \/ auto /\ op' = [op EXCEPT ![JobWorker] = mine("auto")]
  BY DEF HandleReminderJob, Takes
<1>7. pending # {} => r \in Overtimes
  BY DEF OvertimesOf
<1>8. by = "auto" => auto
  OBVIOUS
<1> HIDE DEF mine, r, pending, by
<1>9. Given(mine("chain")) /\ (auto => Given(mine("auto")))
  BY <1>1, <1>2, <1>3, <1>8 DEF Given, SoundAt
<1>10. pending # {} => Given([mine("toPending") EXCEPT !.r = r])
  BY <1>1, <1>4, <1>7 DEF Given, SoundAt
<1> QED BY <1>5, <1>6, <1>9, <1>10, GivenIdle, HandsOver, Constants

LEMMA SweepHands ==
  ASSUME TypeOK, NEW a \in Shifts, ReconcileActive(a)
  PROVE  Hands(CronWorker) /\ op[CronWorker] = Idle
<1> DEFINE f == ScheduledWorkflow(a)
           due == f.state = "OVERTIME_PENDING"
           o(pc) == [Do(pc, a) EXCEPT !.at = f.eff, !.due = due]
<1>1. f \in ShiftEndWorkflow /\ f.eff \in Ahead
  BY ScheduledType
<1>2. op[CronWorker] = Idle
  BY DEF ReconcileActive, Takes
<1>3. \/ op' = [op EXCEPT ![CronWorker] = Idle]
      \/ op' = [op EXCEPT ![CronWorker] = o("chain")]
      \/ /\ op' = [op EXCEPT ![CronWorker] = o("auto")]
         /\ now >= f.eff + Rules.lateCheckout \/ now >= PendingOvertimeAutoCheckoutAt(f)
  BY DEF ReconcileActive, Takes
<1> HIDE DEF f, due
<1>4. \A pc : /\ o(pc).pc = pc /\ o(pc).a = a /\ o(pc).at = f.eff
              /\ o(pc).by = "sweep"
  BY DEF Do
<1>5. now >= PendingOvertimeAutoCheckoutAt(f) => now >= f.eff + Rules.lateCheckout
  <2>1. f.ot \in Overtimes \cup {None} /\ f.eff \in Int
    BY <1>1, Constants DEF ShiftEndWorkflow
  <2>2. f.ot # None => ot[f.ot].end \in Int
    BY <2>1, Constants DEF TypeOK, BonusWorkRequest
  <2>3. now \in Int /\ Rules.lateCheckout \in Int
    BY NowType, Constants
  <2> QED BY <2>1, <2>2, <2>3 DEF PendingOvertimeAutoCheckoutAt, AtLeast
<1> HIDE DEF o
<1>6. /\ Given(o("chain"))
      /\ now >= f.eff + Rules.lateCheckout => Given(o("auto"))
  BY <1>1, <1>4 DEF Given, SoundAt
<1> QED BY <1>2, <1>3, <1>5, <1>6, GivenIdle, HandsOver, Constants

LEMMA OpStep ==
  ASSUME TypeOK, OpsAreSound, RequestsNameShifts, [Next]_vars
  PROVE  \/ op' = op
         \/ crashes' = crashes + 1 /\ op' = [w \in Workers |-> Idle]
         \/ \E w \in Workers : Hands(w) /\ (op[w] = Idle \/ Continue(w))
<1>1. IdleHttp # {} => (CHOOSE w \in IdleHttp : TRUE) \in Http
  BY DEF IdleHttp
<1>2. CASE \/ Tick \/ Crash \/ UNCHANGED vars \/ \E a \in Shifts : MarkAbsent(a)
           \/ \E a \in Shifts, l \in Leaves, kind \in LeaveKinds, at \in Time :
                CreateLeaveRequest(a, l, kind, at)
  BY <1>2 DEF Tick, Crash, vars, MarkAbsent, CreateLeaveRequest
<1> QED
  BY <1>1, <1>2, Constants, RequestsHand, ContinueHands, JobHands, SweepHands DEF Next

LEMMA SoundStep ==
  ASSUME TypeOK, OpsAreSound, RequestsNameShifts, [Next]_vars
  PROVE  OpsAreSound'
<1>1. \A w \in Workers : SoundAt(op[w], now, asg, ot, lv)
  BY OpsSound
<1>2. \A w \in Workers : op'[w].paid \in Ahead \cup {Null}
  BY TypeStep DEF TypeOK, Op
<1>3. SUFFICES ASSUME NEW w \in Workers PROVE SoundAt(op'[w], now, asg, ot, lv)
  BY <1>2, SoundStays, OpsSound
<1>4. SoundAt(Idle, now, asg, ot, lv)
  BY DEF SoundAt, Idle, Do
<1> QED BY <1>1, <1>4, OpStep DEF Hands, Given

-----------------------------------------------------------------------------
(* Approved overtime is paid                                               *)

LEMMA LateGrows ==
  ASSUME [Next]_vars
  PROVE  /\ late \subseteq late'
         /\ crashes' = crashes \/ crashes' = crashes + 1
<1>1. ASSUME NEW w, Requests(w)
      PROVE  late \subseteq late' /\ crashes' = crashes
  BY <1>1 DEF Requests, CheckInBegin, CheckOutBegin, RequestOvertime,
     ApproveBonusWork, RejectBonusWork, CancelBonusWorkBegin, DecideLeave,
     CancelLeaveBegin
<1>2. ASSUME NEW w, Continue(w) PROVE late' = late /\ crashes' = crashes
  BY <1>2 DEF Continue, CheckInCommit, ScheduleForAssignment, CheckOutCommit,
     MarkCompletedByEmployee, MarkOvertimePending, RepriceCheckedOutOvertime,
     PriceOvertime, SaveRepriced, ApproveOvertime, ResumeAfterOvertime, CancelBonusWorkSave,
     CancelLeaveSave, ApplyAdjustedEnd, ChainIntoNextShift, NoNextShift,
     AutoCheckoutRead, AutoCheckoutWrite
<1> QED
  BY <1>1, <1>2 DEF Next, CreateLeaveRequest, HandleReminderJob,
     ReconcileActive, MarkAbsent, Tick, Crash, vars

(* The end of approved overtime is that of the one request there is.       *)
LEMMA TheApprovedEnd ==
  ASSUME OneLiveOvertime, NEW r \in Overtimes, ot[r].status = "APPROVED"
  PROVE  ApprovedOvertimeEnd(ot[r].a) = ot[r].end
<1> DEFINE approved == OvertimesOf(ot[r].a, {"APPROVED"})
<1>1. r \in approved /\ \A s \in approved : s = r
  BY DEF OneLiveOvertime, OvertimesOf, Live
<1>2. (CHOOSE s \in approved : TRUE) = r
  BY <1>1
<1> QED BY <1>1, <1>2 DEF ApprovedOvertimeEnd

(* Overtime that is approved after a step: it was, or the step approved it *)
(* and left a worker to pay it.                                            *)
LEMMA ApprovedBefore ==
  ASSUME TypeOK, OpsAreSound, [Next]_vars,
         NEW r \in Overtimes, ot'[r].status = "APPROVED"
  PROVE  /\ ot'[r].a = ot[r].a /\ ot'[r].end = ot[r].end
         /\ \/ ot[r].status = "APPROVED"
            \/ \E w \in Http : ApproveBonusWork(w, r)
<1>1. CASE OvertimesEnd
  BY <1>1 DEF OvertimesEnd, Ended
<1>2. ASSUME NEW w \in Http, NEW s \in Overtimes, ApproveBonusWork(w, s)
      PROVE  /\ ot'[r].a = ot[r].a /\ ot'[r].end = ot[r].end
             /\ ot[r].status = "APPROVED" \/ r = s
  BY <1>2, OvertimeApproved
<1>3. ASSUME NEW w, NEW a \in Shifts, NEW s \in Overtimes, NEW end \in OvertimeEnds,
             RequestOvertime(w, a, s, end)
      PROVE  /\ ot'[r].a = ot[r].a /\ ot'[r].end = ot[r].end
             /\ ot[r].status = "APPROVED"
  BY <1>3, OvertimeFiled
<1> QED BY <1>1, <1>2, <1>3, OvertimeStep

LEMMA CheckOutKnowsStep ==
  ASSUME TypeOK, OpsAreSound, RequestsNameShifts, OneLiveOvertime,
         CheckOutKnowsOvertime, [Next]_vars
  PROVE  CheckOutKnowsOvertime'
<1> SUFFICES ASSUME NEW w \in Workers, NEW r \in Overtimes,
                    op'[w].pc = "checkOut", op'[w].a = ot'[r].a,
                    ot'[r].status = "APPROVED"
             PROVE  r \in late' \/ op'[w].paid = ot'[r].end
  BY DEF CheckOutKnowsOvertime, At
<1>1. /\ ot'[r].a = ot[r].a /\ ot'[r].end = ot[r].end
      /\ ot[r].status = "APPROVED" \/ \E v \in Http : ApproveBonusWork(v, r)
  BY ApprovedBefore
<1>2. CASE op'[w] = op[w]
  <2>1. CASE ot[r].status = "APPROVED"
    BY <1>1, <1>2, <2>1, LateGrows DEF CheckOutKnowsOvertime, At
  <2>2. ASSUME NEW v \in Http, ApproveBonusWork(v, r) PROVE r \in late'
    BY <1>1, <1>2, <2>2 DEF ApproveBonusWork, At
  <2> QED BY <1>1, <2>1, <2>2
<1>3. CASE op'[w] # op[w]
  <2>1. Given(op'[w])
    <3>1. op'[w] # Idle
      BY DEF Idle, Do
    <3> QED BY <1>3, <3>1, OpStep DEF Hands
  <2>2. UNCHANGED ot /\ op'[w].paid = ApprovedOvertimeEnd(op'[w].a)
    BY <2>1 DEF Given
  <2> QED BY <1>1, <2>2, TheApprovedEnd
<1> QED BY <1>2, <1>3

(* Two readings of a row that differ in the minutes only earn the same.    *)
LEMMA SameDayPays ==
  ASSUME NEW a \in Shifts, NEW x, NEW y, NEW paid,
         SameDay(x, y), y.adjStart = Null, y.adjEnd = Null
  PROVE  WorkedIn(a, x, x.out, paid, FALSE) = WorkedIn(a, y, y.out, paid, FALSE)
BY DEF SameDay, WorkedIn, WindowIn

(* Overtime owed after a step: it was approved by the step, which left a   *)
(* worker to pay it, or it was owed before, or the step closed the shift.  *)
LEMMA OwedBefore ==
  ASSUME TypeOK, OpsAreSound, RequestsNameShifts, ReadOnce, [Next]_vars,
         NEW r \in Overtimes, OwesOvertime(r)', ot[r].status = "APPROVED"
  PROVE  LET a == ot[r].a IN
         /\ a \in Shifts /\ ot'[r].a = a /\ ot'[r].end = ot[r].end
         /\ r \notin late /\ crashes = 0 /\ crashes' = 0
         /\ \/ Closed(a) /\ ~asg'[a].auto
            \/ /\ Kept(a) \/ PaidAgain(a)
               /\ OwesOvertime(r)
               /\ PaidWith(r)' = PaidWith(r)
<1> DEFINE a == ot[r].a
<1>0. /\ ot'[r].status = "APPROVED" /\ r \notin late'
      /\ asg'[ot'[r].a].status = "COMPLETED" /\ ~asg'[ot'[r].a].auto
      /\ asg'[ot'[r].a].adjStart = Null /\ asg'[ot'[r].a].adjEnd = Null
      /\ crashes' = 0
  BY DEF OwesOvertime
<1>1. ot'[r].a = a /\ ot'[r].end = ot[r].end
  BY <1>0, ApprovedBefore
<1>2. a \in Shifts /\ r \notin late /\ crashes = 0
  <2>1. crashes \in Nat
    BY DEF TypeOK
  <2> QED BY <1>0, <2>1, LateGrows DEF RequestsNameShifts
<1>3. Kept(a) \/ PaidAgain(a) \/ Closed(a)
  BY <1>0, <1>1, <1>2, RowStep DEF Begun, Moved, WrittenOff
<1>4. ASSUME Kept(a) \/ PaidAgain(a)
      PROVE  /\ asg'[a].in = asg[a].in /\ asg'[a].out = asg[a].out
             /\ asg'[a].late = asg[a].late /\ WindowKept(a)
             /\ asg'[a].status = asg[a].status /\ asg'[a].auto = asg[a].auto
  BY <1>4 DEF Kept, PaidAgain, WindowKept
<1>5. ASSUME Kept(a) \/ PaidAgain(a)
      PROVE  OwesOvertime(r) /\ PaidWith(r)' = PaidWith(r)
  <2>1. OwesOvertime(r)
    BY <1>0, <1>1, <1>2, <1>4, <1>5 DEF OwesOvertime, WindowKept
  <2>2. /\ PaidWith(r) =
             CreditedWorkedMinutes(EffectiveWindow(Slot[a], asg[a].adjStart, asg[a].adjEnd),
               asg[a].in, asg[a].out, Rules, asg[a].late, ot[r].end, Actual, FALSE)
        /\ PaidWith(r)' =
             CreditedWorkedMinutes(EffectiveWindow(Slot[a], asg'[a].adjStart, asg'[a].adjEnd),
               asg'[a].in, asg'[a].out, Rules, asg'[a].late, ot[r].end, Actual, FALSE)
    BY <1>1 DEF PaidWith, Worked, WorkedIn, WindowIn
  <2> QED BY <1>4, <1>5, <2>1, <2>2 DEF WindowKept
<1> QED BY <1>0, <1>1, <1>2, <1>3, <1>5

LEMMA PaidStep ==
  ASSUME TypeOK, OpsAreSound, RequestsNameShifts, ReadOnce, OneLiveOvertime,
         CheckOutKnowsOvertime, PaidOrRepricing, RepricingsRead, [Next]_vars
  PROVE  PaidOrRepricing'
<1> DEFINE Repricing(v, a) ==
             /\ op'[v].a = a
             /\ \/ op'[v].pc \in {"reprice", "rewrite"}
                \/ op'[v].pc = "price" /\ op'[v].row.worked = asg'[a].worked
<1> SUFFICES ASSUME NEW r \in Overtimes, OwesOvertime(r)'
             PROVE  \/ asg'[ot'[r].a].worked = PaidWith(r)'
                    \/ \E v \in Workers : Repricing(v, ot'[r].a)
  BY DEF PaidOrRepricing, At
<1> DEFINE a == ot[r].a
<1>1. ASSUME NEW v \in Http, ApproveBonusWork(v, r)
      PROVE  \E u \in Workers : Repricing(u, ot'[r].a)
  <2> DEFINE o == [Do("reprice", a) EXCEPT !.r = r, !.by = "approval"]
  <2>1. v \in Workers /\ op' = [op EXCEPT ![v] = o]
    BY <1>1, Constants DEF ApproveBonusWork, Takes
  <2>2. op'[v] = o
    BY <2>1 DEF TypeOK
  <2>3. ot'[r].a = a
    BY <1>1, OvertimeApproved
  <2>4. o.a = a /\ o.pc = "reprice"
    BY DEF Do
  <2> QED BY <2>1, <2>2, <2>3, <2>4
<1>2. ot[r].status = "APPROVED" \/ \E v \in Http : ApproveBonusWork(v, r)
  BY ApprovedBefore DEF OwesOvertime
<1>3. CASE ot[r].status = "APPROVED"
  <2>1. /\ a \in Shifts /\ ot'[r].a = a /\ ot'[r].end = ot[r].end
        /\ r \notin late /\ ~(crashes' = crashes + 1)
        /\ \/ Closed(a) /\ ~asg'[a].auto
           \/ /\ Kept(a) \/ PaidAgain(a)
              /\ OwesOvertime(r) /\ PaidWith(r)' = PaidWith(r)
    BY <1>3, OwedBefore
  <2>2. ApprovedOvertimeEnd(a) = ot[r].end
    BY <1>3, TheApprovedEnd
  <2> DEFINE Goal == asg'[a].worked = PaidWith(r)' \/ \E v \in Workers : Repricing(v, a)
  <2> HIDE DEF Repricing
  <2>3. CASE Closed(a) /\ ~asg'[a].auto
    <3>1. LiveOvertimes(a) # {}
      BY <1>3 DEF LiveOvertimes, OvertimesOf
    <3>2. PICK w \in Workers : ClosedByEmployee(a, w)
      BY <2>3, <3>1 DEF Closed
    <3>3. op[w].paid = ot[r].end
      BY <1>3, <2>1, <3>2 DEF ClosedByEmployee, CheckOutKnowsOvertime
    <3>4. asg'[a].worked =
            CreditedWorkedMinutes(EffectiveWindow(Slot[a], asg'[a].adjStart, asg'[a].adjEnd),
              asg'[a].in, asg'[a].out, Rules, asg'[a].late, ot[r].end, Actual, FALSE)
      BY <2>3, <3>2, <3>3
         DEF Closed, ClosedByEmployee, WindowKept, Worked, WorkedIn, WindowIn
    <3>5. PaidWith(r)' =
            CreditedWorkedMinutes(EffectiveWindow(Slot[a], asg'[a].adjStart, asg'[a].adjEnd),
              asg'[a].in, asg'[a].out, Rules, asg'[a].late, ot[r].end, Actual, FALSE)
      BY <2>1 DEF PaidWith, Worked, WorkedIn, WindowIn
    <3> QED BY <2>1, <3>4, <3>5
  <2>4. ASSUME OwesOvertime(r), PaidWith(r)' = PaidWith(r), PaidAgain(a) PROVE Goal
    <3>1. PICK w \in Workers : /\ At(w, "rewrite") /\ op[w].a = a
                               /\ asg'[a].worked = op[w].row.worked
      BY <2>4 DEF PaidAgain
    <3>2. op[w].row.worked = PaidWith(r)
      BY <2>4, <3>1 DEF RepricingsRead, At
    <3> QED BY <2>4, <3>1, <3>2
  <2>5. ASSUME OwesOvertime(r), PaidWith(r)' = PaidWith(r), Kept(a) PROVE Goal
    <3>1. asg'[a] = asg[a]
      BY <2>5 DEF Kept
    <3>2. \/ asg[a].worked = PaidWith(r)
          \/ \E w \in Workers :
               /\ op[w].a = a
               /\ \/ op[w].pc \in {"reprice", "rewrite"}
                  \/ op[w].pc = "price" /\ op[w].row.worked = asg[a].worked
      BY <2>5 DEF PaidOrRepricing, At
    <3>3. ASSUME NEW w \in Workers, op[w].a = a,
                 \/ op[w].pc \in {"reprice", "rewrite"}
                 \/ op[w].pc = "price" /\ op[w].row.worked = asg[a].worked
          PROVE  Goal
      <4>1. op[w] # Idle
        BY <3>3 DEF Idle, Do
      <4>2. CASE op'[w] = op[w]
        BY <3>1, <3>3, <4>2 DEF Repricing
      <4>3. CASE op'[w] # op[w]
        <5>1. Continue(w)
          BY <2>1, <4>1, <4>3, OpStep DEF Hands
        <5>2. RepriceCheckedOutOvertime(w) \/ PriceOvertime(w) \/ SaveRepriced(w)
          BY <3>3, <5>1 DEF Continue, At, CheckInCommit, ScheduleForAssignment,
             CheckOutCommit, MarkCompletedByEmployee, MarkOvertimePending,
             ApproveOvertime, ResumeAfterOvertime, CancelBonusWorkSave,
             CancelLeaveSave, ApplyAdjustedEnd, ChainIntoNextShift, NoNextShift,
             AutoCheckoutRead, AutoCheckoutWrite
        <5>3. CASE RepriceCheckedOutOvertime(w)
          BY <2>5, <3>1, <3>3, <5>3, RepricingOps, RepricingSteps
             DEF OwesOvertime, Repricing
        <5>4. CASE PriceOvertime(w)
          <6>1. CASE PriceOf(op[w]) = op[w].row.worked
            <7>1. SameDay(op[w].row, asg[a]) /\ op[w].pc = "price"
              BY <3>3, <5>4, RepricingSteps DEF RepricingsRead, At
            <7>2. PriceOf(op[w]) = PaidWith(r)
              <8>1. asg[a].adjStart = Null /\ asg[a].adjEnd = Null
                BY <2>5 DEF OwesOvertime
              <8>2. PriceOf(op[w]) = WorkedIn(a, op[w].row, op[w].row.out, ot[r].end, FALSE)
                BY <2>2, <3>3 DEF PriceOf
              <8>3. PaidWith(r) = WorkedIn(a, asg[a], asg[a].out, ot[r].end, FALSE)
                BY DEF PaidWith, Worked
              <8>4. a \in Shifts /\ SameDay(op[w].row, asg[a])
                BY <2>1, <7>1
              <8> HIDE DEF a
              <8>5. WorkedIn(a, op[w].row, op[w].row.out, ot[r].end, FALSE)
                      = WorkedIn(a, asg[a], asg[a].out, ot[r].end, FALSE)
                BY <8>1, <8>4 DEF SameDay, WorkedIn, WindowIn
              <8> QED BY <8>2, <8>3, <8>5
            <7> QED BY <2>5, <3>1, <3>3, <6>1, <7>1, <7>2
          <6> QED BY <3>3, <5>4, <6>1, RepricingOps, RepricingSteps DEF Repricing
        <5>5. CASE SaveRepriced(w)
          <6>1. At(w, "rewrite") /\ asg[a].status = "COMPLETED"
            BY <2>5, <5>5 DEF SaveRepriced, OwesOvertime
          <6>2. asg'[a].worked = op[w].row.worked
            BY <3>3, <5>5, <6>1, RepriceEffect
          <6>3. op[w].row.worked = PaidWith(r)
            BY <2>5, <3>3, <6>1 DEF RepricingsRead, At
          <6> QED BY <2>5, <6>2, <6>3
        <5> QED BY <5>2, <5>3, <5>4, <5>5
      <4> QED BY <4>2, <4>3
    <3> QED BY <2>5, <3>1, <3>2, <3>3
  <2> QED BY <2>1, <2>3, <2>4, <2>5
<1> QED BY <1>1, <1>2, <1>3

(* What a repricing is about to save stays what the shift is owed: overtime *)
(* approved meanwhile is late, and the row changes its minutes only.        *)
LEMMA RepricingsStep ==
  ASSUME TypeOK, OpsAreSound, RequestsNameShifts, ReadOnce, OneLiveOvertime,
         RepricingsRead, [Next]_vars
  PROVE  RepricingsRead'
<1> DEFINE Read(o) ==
             /\ asg'[o.a].status = "COMPLETED" /\ ~asg'[o.a].auto
             /\ SameDay(o.row, asg'[o.a])
             /\ o.pc = "rewrite" => \A r \in Overtimes :
                  OwesOvertime(r)' /\ ot'[r].a = o.a => o.row.worked = PaidWith(r)'
<1> SUFFICES ASSUME NEW w \in Workers, op'[w].pc \in {"price", "rewrite"}
             PROVE  Read(op'[w])
  BY DEF RepricingsRead, SameDay, At
<1>1. CASE op'[w] = op[w]
  <2> DEFINE o == op[w]
  <2>1. /\ o.a \in Shifts /\ asg[o.a].status = "COMPLETED" /\ ~asg[o.a].auto
        /\ SameDay(o.row, asg[o.a])
    BY <1>1 DEF RepricingsRead, OpsAreSound
  <2>2. Kept(o.a) \/ PaidAgain(o.a) \/ Moved(o.a)
    BY <2>1, RowStep DEF Begun, Closed, WrittenOff, ReadOnce
  <2>3. /\ asg'[o.a].status = "COMPLETED" /\ ~asg'[o.a].auto
        /\ SameDay(o.row, asg'[o.a])
    BY <2>1, <2>2 DEF Kept, PaidAgain, Moved, WindowKept, SameDay
  <2>4. ASSUME o.pc = "rewrite", NEW r \in Overtimes, OwesOvertime(r)', ot'[r].a = o.a
        PROVE  o.row.worked = PaidWith(r)'
    <3>1. /\ ot'[r].a = ot[r].a
          /\ ot[r].status = "APPROVED" \/ \E v \in Http : ApproveBonusWork(v, r)
      BY <2>4, ApprovedBefore DEF OwesOvertime
    <3>2. ASSUME NEW v \in Http, ApproveBonusWork(v, r) PROVE FALSE
      BY <2>4, <3>1, <3>2 DEF ApproveBonusWork, OwesOvertime
    <3>3. ot[r].status = "APPROVED"
      BY <3>1, <3>2
    <3>4. ~Closed(o.a)
      BY <2>1 DEF Closed, ReadOnce
    <3>5. OwesOvertime(r) /\ PaidWith(r)' = PaidWith(r)
      BY <2>4, <3>1, <3>3, <3>4, OwedBefore
    <3> QED BY <2>4, <3>1, <3>5 DEF RepricingsRead, At
  <2> QED BY <1>1, <2>3, <2>4
<1>2. CASE op'[w] # op[w]
  <2>1. Given(op'[w])
    <3>1. op'[w] # Idle
      BY DEF Idle, Do
    <3> QED BY <1>2, <3>1, OpStep DEF Hands
  <2>2. PICK v \in Workers : Prices(v) /\ op'[v] = op'[w]
    BY <2>1 DEF Given
  <2> DEFINE o == op[v]
  <2>3. CASE RepriceCheckedOutOvertime(v)
    <3>1. Repriced(o).pc \notin {"price", "rewrite"}
      BY OpFacts, RepricedType
    <3>2. /\ op'[v].pc = "price" /\ op'[v].a = o.a /\ op'[v].row = asg[o.a]
          /\ asg[o.a].status = "COMPLETED" /\ ~asg[o.a].auto /\ UNCHANGED asg
      BY <2>2, <2>3, <3>1, RepricingOps, RepricingSteps
    <3> QED BY <2>2, <3>2 DEF SameDay
  <2>4. CASE PriceOvertime(v)
    <3>1. Repriced(o).pc \notin {"price", "rewrite"}
      BY OpFacts, RepricedType
    <3>2. /\ o.pc = "price" /\ UNCHANGED <<asg, ot, late, crashes>>
          /\ op'[v].pc = "rewrite" /\ op'[v].a = o.a
          /\ op'[v].row.worked = PriceOf(o)
          /\ op'[v].row.in = o.row.in /\ op'[v].row.out = o.row.out
          /\ op'[v].row.late = o.row.late
          /\ op'[v].row.adjStart = o.row.adjStart /\ op'[v].row.adjEnd = o.row.adjEnd
      BY <2>2, <2>4, <3>1, RepricingOps, RepricingSteps DEF At
    <3>3. /\ o.a \in Shifts /\ asg[o.a].status = "COMPLETED" /\ ~asg[o.a].auto
          /\ SameDay(o.row, asg[o.a])
      BY <3>2 DEF RepricingsRead, OpsAreSound
    <3>4. ASSUME NEW r \in Overtimes, OwesOvertime(r)', ot'[r].a = o.a
          PROVE  PriceOf(o) = PaidWith(r)'
      <4>1. ot[r].status = "APPROVED" /\ ot[r].a = o.a
        BY <3>2, <3>4 DEF OwesOvertime
      <4>2. OwesOvertime(r) /\ PaidWith(r)' = PaidWith(r)
        <5>1. ~Closed(o.a)
          BY <3>3 DEF Closed, ReadOnce
        <5> QED BY <3>4, <4>1, <5>1, OwedBefore
      <4>3. ApprovedOvertimeEnd(o.a) = ot[r].end
        BY <4>1, TheApprovedEnd
      <4>4. asg[o.a].adjStart = Null /\ asg[o.a].adjEnd = Null
        BY <4>1, <4>2 DEF OwesOvertime
      <4>5. PriceOf(o) = PaidWith(r)
        <5>1. PriceOf(o) = WorkedIn(o.a, o.row, o.row.out, ot[r].end, FALSE)
          BY <4>3 DEF PriceOf
        <5>2. PaidWith(r) = WorkedIn(o.a, asg[o.a], asg[o.a].out, ot[r].end, FALSE)
          BY <4>1 DEF PaidWith, Worked
        <5> QED BY <3>3, <4>4, <5>1, <5>2, SameDayPays
      <4> QED BY <4>2, <4>5
    <3>5. SameDay(op'[v].row, asg[o.a])
      BY <3>2, <3>3 DEF SameDay
    <3> QED BY <2>2, <3>2, <3>3, <3>4, <3>5
  <2> QED BY <2>2, <2>3, <2>4 DEF Prices
<1> QED BY <1>1, <1>2

LEMMA PaidAtRest == PaidOrRepricing => ApprovedOvertimeIsPaid
BY DEF PaidOrRepricing, ApprovedOvertimeIsPaid

-----------------------------------------------------------------------------
(* The theorems                                                            *)

LEMMA WorkdayInit == Init => WorkdayInv
<1> SUFFICES ASSUME Init PROVE WorkdayInv
  OBVIOUS
<1>1. TypeOK
  <2>1. /\ now \in Time /\ jobs \subseteq Job /\ ran \subseteq jobs
        /\ acts \in 0 .. MaxActs /\ crashes \in 0 .. MaxCrashes
        /\ late \subseteq Overtimes
    BY WorkdayAssumption DEF Init, Time
  <2>2. asg \in [Shifts -> Assignment]
    BY DEF Init, Assignment, AssignmentStatus, AttendanceStatus, Instant
  <2>3. wf \in [Shifts -> ShiftEndWorkflow \cup {None}]
    BY DEF Init
  <2>4. ot \in [Overtimes -> BonusWorkRequest]
    BY Constants DEF Init, BonusWorkRequest, RequestStatus, Ahead
  <2>5. lv \in [Leaves -> EmployeeLeaveRequest]
    BY DEF Init, EmployeeLeaveRequest, RequestStatus, Instant
  <2>6. op \in [Workers -> Op]
    BY DoType DEF Init, Pcs
  <2>7. logs \in [Shifts -> [in : Nat, out : Nat]]
    BY DEF Init
  <2> QED BY <2>1, <2>2, <2>3, <2>4, <2>5, <2>6, <2>7 DEF TypeOK
<1>2. OpsAreSound
  BY DEF Init, OpsAreSound, Idle, Do
<1>3. ReadOnce /\ AbsentWasNotWorked
  BY DEF Init, ReadOnce, AbsentWasNotWorked, CheckedIn
<1>4. \A r \in Overtimes : ot[r].status = "NONE" /\ ~Live(ot[r].status)
  BY DEF Init, Live
<1>5. \A l \in Leaves : lv[l].status = "NONE" /\ ~Live(lv[l].status)
  BY DEF Init, Live
<1>6. RequestsNameShifts /\ OvertimeOrEarlyLeave /\ OneLiveOvertime
  BY <1>4, <1>5 DEF RequestsNameShifts, OvertimeOrEarlyLeave, OneLiveOvertime
<1>7. CheckOutKnowsOvertime /\ PaidOrRepricing /\ RepricingsRead
  BY <1>4 DEF CheckOutKnowsOvertime, PaidOrRepricing, OwesOvertime, RepricingsRead,
     Init, Idle, Do
<1> QED BY <1>1, <1>2, <1>3, <1>6, <1>7, PaidAtRest DEF WorkdayInv

LEMMA WorkdayStep == WorkdayInv /\ [Next]_vars => WorkdayInv'
<1> SUFFICES ASSUME WorkdayInv, [Next]_vars PROVE WorkdayInv'
  OBVIOUS
<1>1. /\ TypeOK /\ OpsAreSound /\ ReadOnce /\ AbsentWasNotWorked
      /\ OvertimeOrEarlyLeave /\ RequestsNameShifts /\ OneLiveOvertime
      /\ CheckOutKnowsOvertime /\ PaidOrRepricing /\ RepricingsRead
  BY DEF WorkdayInv
<1>2. TypeOK' /\ OpsAreSound' /\ RequestsNameShifts'
  BY <1>1, TypeStep, SoundStep, RequestsStep
<1>3. ReadOnce' /\ AbsentWasNotWorked' /\ OvertimeOrEarlyLeave' /\ OneLiveOvertime'
  BY <1>1, ReadOnceStep, AbsentStep, ExclusiveStep, OneLiveStep
<1>4. CheckOutKnowsOvertime' /\ PaidOrRepricing' /\ RepricingsRead'
  BY <1>1, CheckOutKnowsStep, PaidStep, RepricingsStep
<1>5. ApprovedOvertimeIsPaid'
  BY <1>4, PaidAtRest, PTL
<1> QED BY <1>2, <1>3, <1>4, <1>5 DEF WorkdayInv

(* The working day holds together under every interleaving: a shift is     *)
(* begun and closed once, absence, overtime and early leave exclude what   *)
(* they must, and approved overtime is paid unless the approval fell into  *)
(* the check-out or another repricing of the shift.                        *)
THEOREM Workday == Spec => []WorkdayInv
BY WorkdayInit, WorkdayStep, PTL DEF Spec

(* The automatic check-out never closes a shift before the end in force    *)
(* and the grace, nor before the end of the overtime it found approved.    *)
THEOREM AutoCheckoutGivesGrace == Spec => NoEarlyAutoCheckout
<1> DEFINE Graceful ==
             \A a \in Shifts :
               asg'[a].auto /\ ~asg[a].auto =>
                 \E w \in Workers : /\ At(w, "autoWrite")
                                    /\ op[w].a = a
                                    /\ now >= op[w].at + Rules.lateCheckout
                                    /\ op[w].paid # Null
                                         => now >= op[w].paid + Rules.lateCheckout
<1>1. WorkdayInv /\ [Next]_vars => [Graceful]_vars
  <2> SUFFICES ASSUME WorkdayInv, [Next]_vars PROVE Graceful
    OBVIOUS
  <2>1. TypeOK /\ OpsAreSound /\ RequestsNameShifts
    BY DEF WorkdayInv
  <2> QED BY <2>1, AutoStep DEF OpsAreSound, Overdue, At
<1> QED BY <1>1, Workday, PTL DEF Spec, NoEarlyAutoCheckout
=============================================================================
