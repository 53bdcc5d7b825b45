--------------------------- MODULE PayrollFollowUps ---------------------------
(***************************************************************************)
(* What follows the attendance of an employee with an hourly or per-shift  *)
(* contract (payroll.part.ts): the payslip and the notice of a fine that   *)
(* came or went, the stored earnings of each shift, the summary of the     *)
(* month.  One employee, one month, one fine for lateness.                 *)
(*                                                                         *)
(* A payslip and the snapshot of its lines are written in one transaction  *)
(* under the advisory lock of the store's month: one step here.  Notices,  *)
(* summary and the repricing of shifts come after or without it, each in a *)
(* step of its own.  A desk carries one task from what set it off to its   *)
(* end; only the job of a check-out is queued, and so tried again.         *)
(***************************************************************************)
EXTENDS Integers, FiniteSets

CONSTANTS MonthShifts, DateOf,       \* shifts of the month, their work dates
          FollowDesks, FinePrices, WageRates,
          MaxFollowOps, MaxTries, NoSnapshot, NoFigure, NoShift

ASSUME FollowUpsAssumption ==
  /\ IsFiniteSet(MonthShifts) /\ NoShift \notin MonthShifts
  /\ FinePrices \subseteq Nat /\ WageRates \subseteq Nat
  /\ NoFigure \notin Nat
  /\ NoSnapshot \notin [amount : Nat, count : Nat]
  /\ MaxTries \in Nat \ {0}

VARIABLES work,                    \* status of the assignments
          lateShifts,              \* the ones with late minutes
          finePrice, wageRate,     \* the rule's price, the rate of a shift
          shiftEarnings,           \* per assignment
          payslipStatus,           \* none, open or final
          snapshot,                \* adjustment_snapshot of the payslip
          summary,                 \* employee_monthly_summaries
          followDesk, followOps,
          firstAmount,             \* history: the first snapshot's amount
          announced,               \* history: how many changes, their sum
          silent,                  \* history: sum of changes nobody is told of
          sentTo, lostFor,         \* history: notices sent, notices lost
          disturbed                \* history: tasks overlapped, or one was lost
factVars == <<work, lateShifts, finePrice, wageRate>>
slipVars == <<payslipStatus, snapshot, firstAmount, announced, silent>>
noticeVars == <<sentTo, lostFor>>
followVars == <<factVars, shiftEarnings, slipVars, summary, followDesk, followOps,
                noticeVars, disturbed>>

Addressees == {"employee", "owner"}
AdjustmentSnapshot == [amount : Nat, count : Nat]
EmployeeMonthlySummary == [completed : Nat, late : Nat, score : 0..100]
Figures == [completed : Nat, late : Nat]
FollowTask ==
  [at : {"idle", "price", "recompute", "rebuild", "reprice", "store", "notify",
         "refresh", "write"},
   shift : MonthShifts \cup {NoShift},   \* the check-out's, when queued
   tries : Nat,                          \* of the job, this one included
   notice : Nat, left : SUBSET Addressees,
   next : {"refresh", "write"},          \* after the notices
   figures : Figures,                    \* what the summary will say
   rows : SUBSET MonthShifts, amount : Nat]
IdleFollow ==
  [at |-> "idle", shift |-> NoShift, tries |-> 0, notice |-> 0, left |-> {},
   next |-> "write", figures |-> [completed |-> 0, late |-> 0], rows |-> {}, amount |-> 0]
Quiet == \A d \in FollowDesks : followDesk[d] = IdleFollow

FollowGoes(d, task) == followDesk' = [followDesk EXCEPT ![d] = task]
FollowOp == followOps < MaxFollowOps /\ followOps' = followOps + 1
StartsTask(d, stage, shift, tries) ==
  /\ followDesk[d] = IdleFollow
  /\ FollowGoes(d, [IdleFollow EXCEPT !.at = stage, !.shift = shift, !.tries = tries])
  /\ disturbed' = (disturbed \/ ~Quiet)

-----------------------------------------------------------------------------
(* What sets a task off                                                    *)

Completed == {s \in MonthShifts : work[s] = "done"}

\* A matched check-in; the late minutes are known from here on.
CheckIn(d, s, late) ==
  /\ FollowOp /\ work[s] = "rostered"
  /\ work' = [work EXCEPT ![s] = "in"]
  /\ lateShifts' = IF late THEN lateShifts \cup {s} ELSE lateShifts
  /\ StartsTask(d, "recompute", NoShift, 1)
  /\ UNCHANGED <<finePrice, wageRate, shiftEarnings, slipVars, summary, noticeVars>>

\* A matched check-out queues its payroll; when the queue cannot be reached
\* the failure is logged.
CheckOut(d, s) ==
  /\ FollowOp /\ work[s] = "in"
  /\ work' = [work EXCEPT ![s] = "done"]
  /\ \/ StartsTask(d, "price", s, 1)
     \/ disturbed' = TRUE /\ UNCHANGED followDesk
  /\ UNCHANGED <<lateShifts, finePrice, wageRate, shiftEarnings, slipVars, summary,
                 noticeVars>>

\* An approved request takes the late minutes of a finished shift away;
\* processCheckoutPayroll is called once, its failure is logged.
ApproveLate(d, s) ==
  /\ FollowOp /\ s \in lateShifts \cap Completed
  /\ lateShifts' = lateShifts \ {s}
  /\ StartsTask(d, "price", s, MaxTries)
  /\ UNCHANGED <<work, finePrice, wageRate, shiftEarnings, slipVars, summary, noticeVars>>

\* The price of the fine, in a rule whose first day is today or later (other
\* changes make a new version: PayrollRules).
SaveFineRule(d, price) ==
  /\ FollowOp /\ price # finePrice
  /\ finePrice' = price
  /\ StartsTask(d, "rebuild", NoShift, 1)
  /\ UNCHANGED <<work, lateShifts, wageRate, shiftEarnings, slipVars, summary, noticeVars>>

SaveWageRates(d, rate) ==
  /\ FollowOp /\ rate # wageRate
  /\ wageRate' = rate
  /\ StartsTask(d, "reprice", NoShift, 1)
  /\ UNCHANGED <<work, lateShifts, finePrice, shiftEarnings, slipVars, summary, noticeVars>>

\* The payslip becomes final (Payroll).
PaySalary ==
  /\ payslipStatus = "open" /\ payslipStatus' = "final"
  /\ UNCHANGED <<factVars, shiftEarnings, snapshot, firstAmount, announced, silent,
                 summary, followDesk, followOps, noticeVars, disturbed>>

-----------------------------------------------------------------------------
(* The payslip and its snapshot                                            *)

\* summarizeMonthlyAttendance: a shift is late from its check-in on.
MonthFigures == [completed |-> Cardinality(Completed), late |-> Cardinality(lateShifts)]
EffectiveLines == [amount |-> finePrice * Cardinality(lateShifts),
                   count |-> Cardinality(lateShifts)]

\* A plausible slip: a change of the price alone is told as well.
AnyAmountChanged(before, after) == TRUE
\* A line is told when its occurrences changed, or the line came or went.
OccurrenceChanged(before, after) ==
  \/ before.count = 0 \/ after.count = 0
  \/ before.count # after.count

Delta == IF snapshot = NoSnapshot THEN 0 ELSE EffectiveLines.amount - snapshot.amount
Announces == Delta # 0 /\ OccurrenceChanged(snapshot, EffectiveLines)

\* upsertEmployeePayslip: a final payslip stays as it is.
SlipWritten == payslipStatus' = IF payslipStatus = "none" THEN "open" ELSE payslipStatus

\* recordAdjustmentSnapshot: the first snapshot only sets the base; the result
\* is the number of the notice to send, 0 for none.
RecordAdjustmentSnapshot(teller) ==
  LET tells == teller /\ Announces IN
  /\ payslipStatus # "final"
  /\ snapshot' = EffectiveLines
  /\ firstAmount' = IF snapshot = NoSnapshot THEN EffectiveLines.amount ELSE firstAmount
  /\ announced' = IF tells THEN [count |-> announced.count + 1, sum |-> announced.sum + Delta]
                  ELSE announced
  /\ silent' = IF tells THEN silent ELSE silent + Delta
\* A final payslip, or a failed statement whose savepoint is rolled back.
NothingRecorded == UNCHANGED <<snapshot, firstAmount, announced, silent>>

\* After the transaction: notifyAdjustmentChanges returns at once when there
\* is nothing to tell.
GoesOn(d, next) ==
  FollowGoes(d, [followDesk[d] EXCEPT
    !.at = IF announced' = announced THEN next ELSE "notify",
    !.next = next,
    !.notice = announced'.count,
    !.left = IF announced' = announced THEN {} ELSE Addressees,
    !.figures = MonthFigures])

\* processCheckoutPayroll: the completed shifts of the work date, the payslip
\* and the snapshot; the facts it computed from go on to the summary.
PriceCheckout(d) ==
  /\ followDesk[d].at = "price"
  /\ shiftEarnings' = [s \in MonthShifts |->
       IF s \in Completed /\ DateOf[s] = DateOf[followDesk[d].shift] THEN wageRate
       ELSE shiftEarnings[s]]
  /\ SlipWritten
  /\ RecordAdjustmentSnapshot(TRUE) \/ NothingRecorded
  /\ GoesOn(d, "write")
  /\ UNCHANGED <<factVars, summary, followOps, noticeVars, disturbed>>

\* recomputeEmployeePayslipForWorkDate: no earnings, a summary computed anew.
RecomputePayslip(d) ==
  /\ followDesk[d].at = "recompute"
  /\ SlipWritten
  /\ RecordAdjustmentSnapshot(TRUE) \/ NothingRecorded
  /\ GoesOn(d, "refresh")
  /\ UNCHANGED <<factVars, shiftEarnings, summary, followOps, noticeVars, disturbed>>

\* The recomputation fails: the summary is refreshed all the same.
RecomputeFails(d) ==
  /\ followDesk[d].at = "recompute"
  /\ FollowGoes(d, [followDesk[d] EXCEPT !.at = "refresh"])
  /\ UNCHANGED <<factVars, shiftEarnings, slipVars, summary, followOps, noticeVars, disturbed>>

\* rebuildStorePayrollForMonth records the snapshot and tells nobody.  It runs
\* when the store has a payroll of the month, and a save outlives its failure.
RebuildPayroll(d) ==
  /\ followDesk[d].at = "rebuild"
  /\ \/ SlipWritten /\ (RecordAdjustmentSnapshot(FALSE) \/ NothingRecorded)
     \/ UNCHANGED slipVars
  /\ FollowGoes(d, IdleFollow)
  /\ UNCHANGED <<factVars, shiftEarnings, summary, followOps, noticeVars, disturbed>>

-----------------------------------------------------------------------------
(* Notices and summary                                                     *)

\* notifyAdjustmentChanges: the employee first, then the owner; a failed send
\* does not keep the other one back.
NotifyAdjustmentChanges(d, who) ==
  LET task == followDesk[d] left == task.left \ {who} IN
  /\ task.at = "notify" /\ who \in task.left
  /\ who = "owner" => "employee" \notin task.left
  /\ \/ /\ sentTo' = [sentTo EXCEPT ![who] = @ \cup {task.notice}]
        /\ UNCHANGED lostFor
     \/ /\ lostFor' = [lostFor EXCEPT ![who] = @ \cup {task.notice}]
        /\ UNCHANGED sentTo
  /\ FollowGoes(d, [task EXCEPT !.left = left,
                                !.at = IF left = {} THEN task.next ELSE "notify"])
  /\ UNCHANGED <<factVars, shiftEarnings, slipVars, summary, followOps, disturbed>>

\* refreshEmployeeMonthlySummary reads the month again.
RefreshEmployeeMonthlySummary(d) ==
  /\ followDesk[d].at = "refresh"
  /\ FollowGoes(d, [followDesk[d] EXCEPT !.at = "write", !.figures = MonthFigures])
  /\ UNCHANGED <<factVars, shiftEarnings, slipVars, summary, followOps, noticeVars, disturbed>>

\* performanceScore: the on-time share of the completed shifts, rounded.
Score(n, late) ==
  LET onTime == IF n > late THEN n - late ELSE 0 IN
  IF n = 0 THEN 0 ELSE (200 * onTime + n) \div (2 * n)

SummaryOf(f) == [completed |-> f.completed, late |-> f.late,
                 score |-> Score(f.completed, f.late)]

WriteEmployeeMonthlySummary(d) ==
  /\ followDesk[d].at = "write"
  /\ summary' = SummaryOf(followDesk[d].figures)
  /\ FollowGoes(d, IdleFollow)
  /\ UNCHANGED <<factVars, shiftEarnings, slipVars, followOps, noticeVars, disturbed>>

-----------------------------------------------------------------------------
(* New wage rates                                                          *)

\* repriceStoredShiftEarnings reads the shifts that have a figure, and the
\* rate; then it updates them one by one, without a transaction.
ReadStoredShifts(d) ==
  /\ followDesk[d].at = "reprice"
  /\ FollowGoes(d, [followDesk[d] EXCEPT
       !.at = "store", !.amount = wageRate,
       !.rows = {s \in Completed : shiftEarnings[s] # NoFigure}])
  /\ UNCHANGED <<factVars, shiftEarnings, slipVars, summary, followOps, noticeVars, disturbed>>

RepriceStoredShiftEarnings(d, s) ==
  /\ followDesk[d].at = "store" /\ s \in followDesk[d].rows
  /\ shiftEarnings' = [shiftEarnings EXCEPT ![s] = followDesk[d].amount]
  /\ FollowGoes(d, [followDesk[d] EXCEPT !.rows = @ \ {s}])
  /\ UNCHANGED <<factVars, slipVars, summary, followOps, noticeVars, disturbed>>

\* All updated, or one failed; the payroll is rebuilt all the same.
RepricingEnds(d) ==
  /\ followDesk[d].at \in {"reprice", "store"}
  /\ disturbed' = (disturbed \/ followDesk[d].at = "reprice" \/ followDesk[d].rows # {})
  /\ FollowGoes(d, [IdleFollow EXCEPT !.at = "rebuild"])
  /\ UNCHANGED <<factVars, shiftEarnings, slipVars, summary, followOps, noticeVars>>

-----------------------------------------------------------------------------
\* A step throws, or the process dies: what was still to be told is lost.  The
\* queue runs the job of a check-out again, up to its number of attempts; any
\* other task ends there, with a line in the log at most.
TaskBreaks(d) ==
  LET task == followDesk[d] again == task.shift # NoShift /\ task.tries < MaxTries IN
  /\ task # IdleFollow
  /\ lostFor' = [w \in Addressees |->
       IF w \in task.left THEN lostFor[w] \cup {task.notice} ELSE lostFor[w]]
  /\ FollowGoes(d, IF again THEN [IdleFollow EXCEPT !.at = "price", !.shift = task.shift,
                                                    !.tries = task.tries + 1]
                   ELSE IdleFollow)
  /\ disturbed' = (disturbed \/ ~again)
  /\ UNCHANGED <<factVars, shiftEarnings, slipVars, summary, followOps, sentTo>>

-----------------------------------------------------------------------------
FollowUpsInit ==
  /\ work = [s \in MonthShifts |-> "rostered"] /\ lateShifts = {}
  /\ shiftEarnings = [s \in MonthShifts |-> NoFigure]
  /\ finePrice \in FinePrices /\ wageRate \in WageRates
  /\ payslipStatus = "none" /\ snapshot = NoSnapshot
  /\ summary = SummaryOf([completed |-> 0, late |-> 0])
  /\ followDesk = [d \in FollowDesks |-> IdleFollow] /\ followOps = 0
  /\ firstAmount = 0 /\ announced = [count |-> 0, sum |-> 0] /\ silent = 0
  /\ sentTo = [w \in Addressees |-> {}] /\ lostFor = [w \in Addressees |-> {}]
  /\ disturbed = FALSE

FollowDeskStep(d) ==
  \/ PriceCheckout(d) \/ RecomputePayslip(d) \/ RecomputeFails(d) \/ RebuildPayroll(d)
  \/ \E who \in Addressees : NotifyAdjustmentChanges(d, who)
  \/ RefreshEmployeeMonthlySummary(d) \/ WriteEmployeeMonthlySummary(d)
  \/ ReadStoredShifts(d) \/ RepricingEnds(d) \/ TaskBreaks(d)
  \/ \E s \in MonthShifts : RepriceStoredShiftEarnings(d, s)

FollowUpsNext ==
  \/ PaySalary
  \/ \E d \in FollowDesks :
       \/ \E s \in MonthShifts, late \in BOOLEAN : CheckIn(d, s, late)
       \/ \E s \in MonthShifts : CheckOut(d, s) \/ ApproveLate(d, s)
       \/ \E price \in FinePrices : SaveFineRule(d, price)
       \/ \E rate \in WageRates : SaveWageRates(d, rate)
       \/ FollowDeskStep(d)
FollowUpsSpec == FollowUpsInit /\ [][FollowUpsNext]_followVars

-----------------------------------------------------------------------------
FollowUpsTypeOK ==
  /\ work \in [MonthShifts -> {"rostered", "in", "done"}]
  /\ lateShifts \subseteq MonthShifts
  /\ finePrice \in FinePrices /\ wageRate \in WageRates
  /\ shiftEarnings \in [MonthShifts -> Nat \cup {NoFigure}]
  /\ payslipStatus \in {"none", "open", "final"}
  /\ snapshot \in AdjustmentSnapshot \cup {NoSnapshot}
  /\ summary \in EmployeeMonthlySummary
  /\ followDesk \in [FollowDesks -> FollowTask]
  /\ firstAmount \in Nat /\ silent \in Int
  /\ announced \in [count : Nat, sum : Int]
  /\ sentTo \in [Addressees -> SUBSET Nat] /\ lostFor \in [Addressees -> SUBSET Nat]
  /\ disturbed \in BOOLEAN

\* The announced and the silent changes add up to what the snapshot moved by:
\* no change of a fine is announced twice or falls between two tasks, not even
\* when a check-out's job runs again after a failure.
NoticesAddUp ==
  announced.sum + silent = IF snapshot = NoSnapshot THEN 0 ELSE snapshot.amount - firstAmount

\* With nothing under way, each announced change was sent to the employee, and
\* to the owner, or that message was lost: never both, and never neither.
AnnouncedWasHandled ==
  \A w \in Addressees :
    /\ sentTo[w] \cap lostFor[w] = {}
    /\ Quiet => sentTo[w] \cup lostFor[w] = 1..announced.count

\* Tasks that did not overlap, of which none was lost for good, leave the
\* summary and the earnings of every shift true to the attendance and the rate,
\* however often a job was tried and whatever messages failed.
FiguresSettle ==
  Quiet /\ ~disturbed =>
    /\ summary = SummaryOf(MonthFigures)
    /\ \A s \in Completed : shiftEarnings[s] = wageRate

\* A notice goes out only when the occurrences of the fine changed: the owner
\* who changes the price alone sets off no message about past days.
PriceAloneIsSilent ==
  announced' # announced => snapshot'.count # snapshot.count

(* What makes them inductive.                                              *)

\* The snapshot is the price of some day times its count.
EmptySnapshotIsFree ==
  snapshot # NoSnapshot /\ snapshot.count = 0 => snapshot.amount = 0

\* A task carries its own notice to those it has not reached yet.
NoticesInHand ==
  /\ \A w \in Addressees :
       /\ sentTo[w] \cap lostFor[w] = {}
       /\ sentTo[w] \cup lostFor[w] \subseteq 1..announced.count
       /\ \A n \in 1..announced.count \ (sentTo[w] \cup lostFor[w]) :
            \E d \in FollowDesks : w \in followDesk[d].left /\ followDesk[d].notice = n
       /\ \A d \in FollowDesks : w \in followDesk[d].left =>
            followDesk[d].notice \in 1..announced.count \ (sentTo[w] \cup lostFor[w])
       /\ \A d, e \in FollowDesks :
            /\ w \in followDesk[d].left /\ w \in followDesk[e].left
            /\ followDesk[d].notice = followDesk[e].notice
            => d = e
  /\ \A d \in FollowDesks : followDesk[d].at = "notify" <=> followDesk[d].left # {}

\* What a single task under way still has to put right.
EarningsRightBut(S) == \A s \in Completed \ S : shiftEarnings[s] = wageRate
SummaryRight == summary = SummaryOf(MonthFigures)
Repairs(task) ==
  /\ task.at = "price" => EarningsRightBut({task.shift})
  /\ task.at \in {"recompute", "notify", "refresh", "write", "rebuild"} => EarningsRightBut({})
  /\ task.at = "write" => task.figures = MonthFigures
  /\ task.at = "notify" /\ task.next = "write" => task.figures = MonthFigures
  /\ task.at \in {"rebuild", "reprice", "store"} => SummaryRight
  /\ task.at = "reprice" => \A s \in Completed : shiftEarnings[s] # NoFigure
  /\ task.at = "store" => task.amount = wageRate /\ EarningsRightBut(task.rows)
TaskInOrder(task) ==
  /\ task.at = "idle" <=> task = IdleFollow
  /\ task.at = "price" => task.shift # NoShift
  /\ task.shift # NoShift => task.shift \in Completed
  /\ task.at \in {"recompute", "refresh", "rebuild", "reprice", "store"} => task.shift = NoShift
  /\ task.at = "notify" /\ task.next = "refresh" => task.shift = NoShift
TasksRepair ==
  /\ \A d \in FollowDesks : TaskInOrder(followDesk[d])
  /\ ~disturbed =>
       /\ \A d, e \in FollowDesks :
            followDesk[d] # IdleFollow /\ followDesk[e] # IdleFollow => d = e
       /\ \A d \in FollowDesks : Repairs(followDesk[d])
       /\ Quiet => EarningsRightBut({}) /\ SummaryRight

FollowUpsInd == FollowUpsTypeOK /\ NoticesAddUp /\ EmptySnapshotIsFree
                /\ NoticesInHand /\ TasksRepair

\* What follows a payslip promises.
FollowUpsPromise ==
  /\ [](FollowUpsInd /\ AnnouncedWasHandled /\ FiguresSettle)
  /\ [][PriceAloneIsSilent]_followVars
=============================================================================
