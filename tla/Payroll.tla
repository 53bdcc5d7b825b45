------------------------------- MODULE Payroll -------------------------------
(***************************************************************************)
(* The payslips of one store in the current month (payroll.part.ts).       *)
(* Every writer of payslips takes the advisory lock of the store's month   *)
(* and computes the payslip inside the transaction; the requests around it *)
(* read, check and save without that lock.  A cashier carries one request  *)
(* from what it read to what it writes.                                    *)
(***************************************************************************)
EXTENDS Integers, FiniteSets

CONSTANTS
  Workers,          \* employee profiles of the store
  Advances,         \* salary_advance_requests
  Records,          \* employee_payroll_records, each a fine of one
  Cashiers,         \* requests and jobs served at once
  Sums,             \* amounts a client may enter
  MaxWorked,        \* shifts worked in the month
  MaxRate,          \* the contract's rate at most
  MaxDeletions,     \* payslips deleted per employee
  MaxWrites,        \* requests of all kinds
  NoOne

(* Amounts are whole and not below zero; rows are not people.              *)
ASSUME PayrollAssumption ==
  /\ IsFiniteSet(Advances) /\ IsFiniteSet(Records)
  /\ Sums \subseteq Nat /\ MaxWorked \in Nat /\ MaxRate \in Nat \ {0}
  /\ MaxDeletions \in Nat /\ MaxWrites \in Nat
  /\ NoOne \notin Workers \cup Advances \cup Records

VARIABLES
  onStaff,          \* employment statuses eligible for shifts
  worked,           \* completed shifts of the month
  rate,             \* the rate of the month: salary adjustments, wage rates
  book,             \* the store's monthly_payrolls row exists
  payslip,          \* employee_salaries of the month
  advance,
  record,
  cashier,
  payments,         \* employee_payment_histories, counted
  writes,           \* requests begun
  stale,            \* history: figures left for the next recomputation
  wiped             \* history: a paid payslip was deleted

payrollVars == <<onStaff, worked, rate, book, payslip, advance, record,
                 cashier, payments, writes, stale, wiped>>

EmployeeSalary ==
  [status : {"NONE", "PENDING", "PAID"}, gen : 0 .. MaxDeletions,
   income : Nat, penalty : Nat, adv : Nat, net : Nat]
SalaryAdvanceRequest ==
  [status : {"NONE", "PENDING", "APPROVED", "REJECTED", "CANCELLED"},
   who : Workers \cup {NoOne}, asked : Nat, approved : Nat]
EmployeePayrollRecord ==
  [state : {"NONE", "LIVE", "GONE"}, who : Workers \cup {NoOne}]
NoPayslip(gen) ==
  [status |-> "NONE", gen |-> gen, income |-> 0, penalty |-> 0, adv |-> 0, net |-> 0]
NoAdvance == [status |-> "NONE", who |-> NoOne, asked |-> 0, approved |-> 0]
NoRecord == [state |-> "NONE", who |-> NoOne]

CashierState ==
  [pc : {"free", "price", "recompute", "rebuild", "record", "unrecord",
         "advance", "pay", "adjust"},
   who : Workers \cup {NoOne}, row : Advances \cup Records \cup {NoOne},
   sum : Nat, gen : 0 .. MaxDeletions]
FreeCashier ==
  [pc |-> "free", who |-> NoOne, row |-> NoOne, sum |-> 0, gen |-> 0]

PayrollInit ==
  /\ onStaff = [e \in Workers |-> TRUE]
  /\ worked = [e \in Workers |-> 0]
  /\ rate = [e \in Workers |-> 1]
  /\ book \in BOOLEAN
  /\ payslip = [e \in Workers |-> NoPayslip(0)]
  /\ advance = [a \in Advances |-> NoAdvance]
  /\ record = [r \in Records |-> NoRecord]
  /\ cashier = [w \in Cashiers |-> FreeCashier]
  /\ payments = [e \in Workers |-> 0]
  /\ writes = 0
  /\ stale = {}
  /\ wiped = {}

-----------------------------------------------------------------------------
(* Computing and writing a payslip                                         *)

IsProtectedPayslip(p) == p.status = "PAID"

LiveRecords(e) == {r \in Records : record[r].state = "LIVE" /\ record[r].who = e}
OfSlip(e, statuses) ==
  {a \in Advances : advance[a].who = e /\ advance[a].status \in statuses}

(* What the amounts of some rows come to, counted unit by unit.            *)
Units(amount, rows) == UNION {{a} \X (1 .. amount[a]) : a \in rows}
Sum(amount, rows) == Cardinality(Units(amount, rows))

(* sumApprovedAdvances counts the amount approved, a zero too.             *)
SumApprovedAdvances(e, adv) ==
  Sum([a \in Advances |-> adv[a].approved],
      {a \in Advances : adv[a].who = e /\ adv[a].status = "APPROVED"})

(* calculateTotalAdvanced takes what was asked where nothing was approved. *)
Claimed(a) == IF advance[a].status = "APPROVED" /\ advance[a].approved # 0
              THEN advance[a].approved ELSE advance[a].asked
TotalAdvanced(e, except) ==
  Sum([a \in Advances |-> Claimed(a)], OfSlip(e, {"PENDING", "APPROVED"}) \ except)

(* computeNetFromIncome: never below zero.                                 *)
ComputeNet(income, penalty, adv) ==
  IF income - penalty - adv > 0 THEN income - penalty - adv ELSE 0

(* computeEmployeePayslip: the shifts worked at the rate of the month, the *)
(* recorded fines and the approved advances.                               *)
ComputeEmployeePayslip(e) ==
  LET income == rate[e] * worked[e]
      penalty == Cardinality(LiveRecords(e))
      adv == SumApprovedAdvances(e, advance)
  IN [status |-> "PENDING", gen |-> payslip[e].gen, income |-> income,
      penalty |-> penalty, adv |-> adv, net |-> ComputeNet(income, penalty, adv)]

(* upsertEmployeePayslip: a final payslip is only linked to the payroll.   *)
UpsertEmployeePayslip(e) ==
  IF IsProtectedPayslip(payslip[e]) THEN payslip[e]
  ELSE ComputeEmployeePayslip(e)

Free(w) == cashier' = [cashier EXCEPT ![w] = FreeCashier]
Begin(w, o) ==
  /\ cashier[w] = FreeCashier
  /\ writes < MaxWrites
  /\ writes' = writes + 1
  /\ cashier' = [cashier EXCEPT ![w] = o]
Now(w) == Begin(w, FreeCashier)
For(pc, e) == [FreeCashier EXCEPT !.pc = pc, !.who = e, !.gen = payslip[e].gen]

(* recomputeEmployeePayslipForWorkDate reads the employee before the lock  *)
(* of the month, and skips one who has left.                               *)
ReadEmployee(w) ==
  LET e == cashier[w].who IN
  /\ cashier[w].pc = "recompute"
  /\ IF onStaff[e]
     THEN cashier' = [cashier EXCEPT ![w].pc = "price"] /\ UNCHANGED stale
     ELSE Free(w) /\ stale' = stale \cup {e}
  /\ UNCHANGED <<onStaff, worked, rate, book, payslip, advance, record, payments,
                 writes, wiped>>

(* Under the lock it computes, as processCheckoutPayroll does for one who  *)
(* completed a shift, on the staff or not.                                 *)
Recompute(w) ==
  LET e == cashier[w].who IN
  /\ cashier[w].pc = "price"
  /\ payslip' = [payslip EXCEPT ![e] = UpsertEmployeePayslip(e)]
  /\ book' = TRUE
  /\ stale' = IF IsProtectedPayslip(payslip[e]) THEN stale ELSE stale \ {e}
  /\ Free(w)
  /\ UNCHANGED <<onStaff, worked, rate, advance, record, payments, writes, wiped>>

(* rebuildStorePayrollForMonth, in one transaction: the payslip of every   *)
(* employee on the staff.  The monthly job and the owner run it; saving    *)
(* payroll rules, payslip rows or wage rates runs it when a payroll exists *)
(* and outlives its failure.                                               *)
RebuildStorePayrollForMonth(w) ==
  /\ \/ cashier[w].pc = "rebuild" /\ Free(w) /\ UNCHANGED writes
     \/ Now(w)
  /\ payslip' = [e \in Workers |-> IF onStaff[e] THEN UpsertEmployeePayslip(e)
                                   ELSE payslip[e]]
  /\ book' = TRUE
  /\ stale' = {e \in stale : ~onStaff[e] \/ IsProtectedPayslip(payslip[e])}
  /\ UNCHANGED <<onStaff, worked, rate, advance, record, payments, wiped>>

(* Saved wage rates and rules change what every shift of the month earns.  *)
SaveRates(w, e) ==
  /\ rate[e] < MaxRate
  /\ rate' = [rate EXCEPT ![e] = @ + 1]
  /\ IF book THEN Begin(w, [FreeCashier EXCEPT !.pc = "rebuild"]) /\ UNCHANGED stale
     ELSE Now(w) /\ stale' = stale \cup {e}
  /\ UNCHANGED <<onStaff, worked, book, payslip, advance, record, payments, wiped>>

RecalculationFails(w) ==
  /\ cashier[w].pc = "rebuild"
  /\ stale' = Workers
  /\ Free(w)
  /\ UNCHANGED <<onStaff, worked, rate, book, payslip, advance, record, payments,
                 writes, wiped>>

-----------------------------------------------------------------------------
(* Attendance, records and waivers                                         *)

CheckOutShift(w, e) ==
  /\ onStaff[e]
  /\ worked[e] < MaxWorked
  /\ worked' = [worked EXCEPT ![e] = @ + 1]
  /\ Begin(w, For("price", e))
  /\ UNCHANGED <<onStaff, rate, book, payslip, advance, record, payments, stale, wiped>>

(* createPayrollRecord: an employee on the staff whose payslip is open     *)
(* when it is read (assertPayslipOpen); the record is saved later.         *)
CreatePayrollRecord(w, e, r) ==
  /\ onStaff[e]
  /\ ~IsProtectedPayslip(payslip[e])
  /\ record[r] = NoRecord /\ \A v \in Cashiers : cashier[v].row # r
  /\ Begin(w, [For("record", e) EXCEPT !.row = r])
  /\ UNCHANGED <<onStaff, worked, rate, book, payslip, advance, record, payments,
                 stale, wiped>>

SaveRecord(w) ==
  /\ cashier[w].pc = "record"
  /\ record' = [record EXCEPT ![cashier[w].row] =
                  [state |-> "LIVE", who |-> cashier[w].who]]
  /\ cashier' = [cashier EXCEPT ![w] = For("recompute", cashier[w].who)]
  /\ UNCHANGED <<onStaff, worked, rate, book, payslip, advance, payments, writes,
                 stale, wiped>>

(* deletePayrollRecord and the waiver of a record: same check, and a soft  *)
(* delete that leaves a record already gone as it is.                      *)
DeletePayrollRecord(w, r) ==
  /\ record[r].state = "LIVE"
  /\ ~IsProtectedPayslip(payslip[record[r].who])
  /\ Begin(w, [For("unrecord", record[r].who) EXCEPT !.row = r])
  /\ UNCHANGED <<onStaff, worked, rate, book, payslip, advance, record, payments,
                 stale, wiped>>

RemoveRecord(w) ==
  /\ cashier[w].pc = "unrecord"
  /\ record' = [record EXCEPT ![cashier[w].row].state = "GONE"]
  /\ cashier' = [cashier EXCEPT ![w] = For("recompute", cashier[w].who)]
  /\ UNCHANGED <<onStaff, worked, rate, book, payslip, advance, payments, writes,
                 stale, wiped>>

-----------------------------------------------------------------------------
(* Salary advances                                                         *)

(* createSalaryAdvanceRequest holds the sum asked against the net read.    *)
CreateSalaryAdvanceRequest(w, e, a, sum) ==
  /\ payslip[e].status # "NONE"
  /\ advance[a] = NoAdvance /\ \A v \in Cashiers : cashier[v].row # a
  /\ TotalAdvanced(e, {}) + sum <= payslip[e].net
  /\ Begin(w, [For("advance", e) EXCEPT !.row = a, !.sum = sum])
  /\ UNCHANGED <<onStaff, worked, rate, book, payslip, advance, record, payments,
                 stale, wiped>>

(* The foreign key refuses the request of a payslip deleted meanwhile.     *)
SaveAdvanceRequest(w) ==
  LET o == cashier[w] IN
  /\ o.pc = "advance"
  /\ advance' = IF payslip[o.who].status # "NONE" /\ payslip[o.who].gen = o.gen
                THEN [advance EXCEPT ![o.row] =
                        [status |-> "PENDING", who |-> o.who, asked |-> o.sum,
                         approved |-> 0]]
                ELSE advance
  /\ Free(w)
  /\ UNCHANGED <<onStaff, worked, rate, book, payslip, record, payments, writes,
                 stale, wiped>>

(* reviewSalaryAdvanceRequest: under the locks of the payslip and of the   *)
(* request; the payment status of the payslip is not looked at.            *)
ApproveAdvance(w, a, sum) ==
  LET e == advance[a].who
      approved == [advance EXCEPT ![a].status = "APPROVED", ![a].approved = sum]
      adv == SumApprovedAdvances(e, approved)
  IN
  /\ advance[a].status = "PENDING"
  /\ TotalAdvanced(e, {a}) + sum <= payslip[e].net
  /\ advance' = approved
  /\ payslip' = [payslip EXCEPT ![e].adv = adv,
                                ![e].net = ComputeNet(payslip[e].income,
                                                      payslip[e].penalty, adv)]
  /\ Now(w)
  /\ UNCHANGED <<onStaff, worked, rate, book, record, payments, stale, wiped>>

(* A refusal, and the conditional update of cancelSalaryAdvanceRequest.    *)
EndAdvance(w, a, status) ==
  /\ advance[a].status = "PENDING"
  /\ status \in {"REJECTED", "CANCELLED"}
  /\ advance' = [advance EXCEPT ![a].status = status]
  /\ Now(w)
  /\ UNCHANGED <<onStaff, worked, rate, book, payslip, record, payments, stale, wiped>>

-----------------------------------------------------------------------------
(* Payment, adjustments, edits and deletions                               *)

(* payEmployeeSalary reads the payslip and the amount ...                  *)
PayEmployeeSalary(w, e) ==
  /\ payslip[e].status = "PENDING"
  /\ book
  /\ Begin(w, [For("pay", e) EXCEPT !.sum = payslip[e].net])
  /\ UNCHANGED <<onStaff, worked, rate, book, payslip, advance, record, payments,
                 stale, wiped>>

(* The status is not looked at again when the payment is written.          *)
PayAsRead(w) ==
  LET o == cashier[w] IN
  /\ o.pc = "pay"
  /\ payslip' = [payslip EXCEPT ![o.who].status = "PAID"]
  /\ payments' = [payments EXCEPT ![o.who] = @ + 1]
  /\ Free(w)
  /\ UNCHANGED <<onStaff, worked, rate, book, advance, record, writes, stale, wiped>>

(* ... and claims it by a conditional update that also writes the history. *)
ClaimPayment(w) ==
  LET o == cashier[w]
      claimed == payslip[o.who].status = "PENDING" /\ payslip[o.who].gen = o.gen
  IN
  /\ o.pc = "pay"
  /\ payslip' = IF claimed THEN [payslip EXCEPT ![o.who].status = "PAID"] ELSE payslip
  /\ payments' = IF claimed THEN [payments EXCEPT ![o.who] = @ + 1] ELSE payments
  /\ Free(w)
  /\ UNCHANGED <<onStaff, worked, rate, book, advance, record, writes, stale, wiped>>

(* createSalaryAdjustment computes the new rate from the one it read, and  *)
(* leaves the figures of the payslip to the next recomputation.            *)
CreateSalaryAdjustment(w, e) ==
  /\ rate[e] < MaxRate
  /\ Begin(w, [For("adjust", e) EXCEPT !.sum = rate[e] + 1])
  /\ UNCHANGED <<onStaff, worked, rate, book, payslip, advance, record, payments,
                 stale, wiped>>

SaveAdjustment(w) ==
  /\ cashier[w].pc = "adjust"
  /\ rate' = [rate EXCEPT ![cashier[w].who] = cashier[w].sum]
  /\ stale' = stale \cup {cashier[w].who}
  /\ Free(w)
  /\ UNCHANGED <<onStaff, worked, book, payslip, advance, record, payments, writes,
                 wiped>>

(* updateEmployeeSalary writes the figures of the client, whatever the     *)
(* state of the payslip; createEmployeeSalaryForStore a row of its own.    *)
EditEmployeeSalary(w, e, net) ==
  /\ payslip' = [payslip EXCEPT ![e].net = net,
                   ![e].status = IF @ = "NONE" THEN "PENDING" ELSE @]
  /\ stale' = stale \cup {e}
  /\ Now(w)
  /\ UNCHANGED <<onStaff, worked, rate, book, advance, record, payments, wiped>>

(* deleteEmployeeSalary: no advance may name the payslip; paid or not.     *)
DeleteEmployeeSalary(w, e) ==
  /\ payslip[e].status # "NONE" /\ payslip[e].gen < MaxDeletions
  /\ {a \in Advances : advance[a].who = e} = {}
  /\ payslip' = [payslip EXCEPT ![e] = NoPayslip(payslip[e].gen + 1)]
  /\ wiped' = IF payslip[e].status = "PAID" THEN wiped \cup {e} ELSE wiped
  /\ stale' = stale \ {e}
  /\ Now(w)
  /\ UNCHANGED <<onStaff, worked, rate, book, advance, record, payments>>

(* deletePayroll takes the payslips of the month with it.                  *)
DeletePayroll(w) ==
  LET slips == {e \in Workers : payslip[e].status # "NONE"} IN
  /\ book
  /\ {a \in Advances : advance[a].who # NoOne} = {}
  /\ \A e \in slips : payslip[e].gen < MaxDeletions
  /\ book' = FALSE
  /\ payslip' = [e \in Workers |-> IF e \in slips THEN NoPayslip(payslip[e].gen + 1)
                                   ELSE payslip[e]]
  /\ wiped' = wiped \cup {e \in slips : payslip[e].status = "PAID"}
  /\ stale' = stale \ slips
  /\ Now(w)
  /\ UNCHANGED <<onStaff, worked, rate, advance, record, payments>>

(* An employee leaves, or is hired again: upsertInitialEmployeeSalary adds *)
(* a payslip where none is left and touches no figure of one that is.      *)
LeaveStaff(w, e) ==
  /\ onStaff[e]
  /\ onStaff' = [onStaff EXCEPT ![e] = FALSE]
  /\ Now(w)
  /\ UNCHANGED <<worked, rate, book, payslip, advance, record, payments, stale, wiped>>

HireAgain(w, e) ==
  /\ ~onStaff[e]
  /\ onStaff' = [onStaff EXCEPT ![e] = TRUE]
  /\ book' = TRUE
  /\ payslip' = [payslip EXCEPT ![e].status = IF @ = "NONE" THEN "PENDING" ELSE @]
  /\ stale' = stale \cup {e}
  /\ Now(w)
  /\ UNCHANGED <<worked, rate, advance, record, payments, wiped>>

PayrollNext ==
  \E w \in Cashiers :
    \/ ReadEmployee(w)
    \/ Recompute(w)
    \/ RebuildStorePayrollForMonth(w)
    \/ RecalculationFails(w)
    \/ SaveRecord(w)
    \/ RemoveRecord(w)
    \/ SaveAdvanceRequest(w)
    \/ ClaimPayment(w)
    \/ SaveAdjustment(w)
    \/ DeletePayroll(w)
    \/ \E e \in Workers :
         \/ SaveRates(w, e)
         \/ CheckOutShift(w, e)
         \/ PayEmployeeSalary(w, e)
         \/ CreateSalaryAdjustment(w, e)
         \/ DeleteEmployeeSalary(w, e)
         \/ LeaveStaff(w, e)
         \/ HireAgain(w, e)
         \/ \E r \in Records : CreatePayrollRecord(w, e, r)
         \/ \E n \in Sums : EditEmployeeSalary(w, e, n)
         \/ \E a \in Advances, n \in Sums : CreateSalaryAdvanceRequest(w, e, a, n)
    \/ \E r \in Records : DeletePayrollRecord(w, r)
    \/ \E a \in Advances :
         \/ \E n \in Sums \cup {0} : ApproveAdvance(w, a, n)
         \/ \E s \in {"REJECTED", "CANCELLED"} : EndAdvance(w, a, s)

PayrollSpec == PayrollInit /\ [][PayrollNext]_payrollVars

-----------------------------------------------------------------------------
(* Properties                                                              *)

(* The rows keep their shape.                                              *)
PayrollTypeOK ==
  /\ onStaff \in [Workers -> BOOLEAN]
  /\ worked \in [Workers -> 0 .. MaxWorked]
  /\ rate \in [Workers -> 1 .. MaxRate]
  /\ book \in BOOLEAN
  /\ payslip \in [Workers -> EmployeeSalary]
  /\ advance \in [Advances -> SalaryAdvanceRequest]
  /\ record \in [Records -> EmployeePayrollRecord]
  /\ cashier \in [Cashiers -> CashierState]
  /\ payments \in [Workers -> Nat]
  /\ writes \in 0 .. MaxWrites
  /\ stale \subseteq Workers /\ wiped \subseteq Workers

(* Two payments of a month at once leave one payment history: a second one *)
(* takes the deletion of the paid payslip.                                 *)
PaidOnce == \A e \in Workers : payments[e] > 1 => e \in wiped

(* Once the requests about one on the staff have ended, an open payslip is *)
(* what the attendance, the records and the approved advances of the month *)
(* come to, in whatever order check-outs, records, reviews and rebuilds    *)
(* were served, unless the code leaves it to the next recomputation.       *)
Settled(e) == \A w \in Cashiers : cashier[w].who # e /\ cashier[w].pc # "rebuild"
SettledSlipsAreCurrent ==
  \A e \in Workers :
    payslip[e].status = "PENDING" /\ onStaff[e] /\ Settled(e) /\ e \notin stale
      => payslip[e] = ComputeEmployeePayslip(e)

(* A paid payslip keeps its income and its penalty whatever is recomputed, *)
(* and its net changes only with an approved advance or the owner's edit.  *)
FinalFiguresStand ==
  [][\A e \in Workers :
       payslip[e].status = "PAID" /\ payslip'[e].status # "NONE"
         => /\ payslip'[e].status = "PAID"
            /\ payslip'[e].income = payslip[e].income
            /\ payslip'[e].penalty = payslip[e].penalty
            /\ payslip'[e].net = payslip[e].net
               \/ payslip'[e].adv # payslip[e].adv \/ e \in stale'
               \/ advance' # advance]_payrollVars

(* An approval never takes the advances of a payslip past its income, with *)
(* other requests for the same payslip asked and approved at the same time.*)
AdvancesWithinIncome ==
  [][\A e \in Workers :
       SumApprovedAdvances(e, advance') > SumApprovedAdvances(e, advance)
         => SumApprovedAdvances(e, advance') <= payslip[e].income \/ e \in stale]_payrollVars

(* What makes them inductive.  A row in hand is not there yet, or is of    *)
(* the one whose payslip it changes.                                       *)
RowsInHand ==
  /\ \A w \in Cashiers :
       LET o == cashier[w] IN
       /\ o.pc \notin {"free", "rebuild"} => o.who \in Workers
       /\ o.pc = "record" =>
            /\ o.row \in Records /\ record[o.row] = NoRecord
            /\ \A v \in Cashiers \ {w} : cashier[v].pc = "record" => cashier[v].row # o.row
       /\ o.pc = "unrecord" => o.row \in Records /\ record[o.row].who = o.who
       /\ o.pc = "advance" =>
            /\ o.row \in Advances /\ advance[o.row] = NoAdvance
            /\ \A v \in Cashiers \ {w} : cashier[v].pc = "advance" => cashier[v].row # o.row
       /\ o.pc = "adjust" => o.sum \in 1 .. MaxRate
  /\ \A r \in Records : record[r].state = "LIVE" => record[r].who \in Workers
  /\ \A a \in Advances : advance[a].status = "PENDING" => advance[a].who \in Workers

(* A payslip is paid as often as the history says until one that was paid  *)
(* is deleted.                                                             *)
PaidAsRecorded ==
  \A e \in Workers \ wiped : payments[e] = IF payslip[e].status = "PAID" THEN 1 ELSE 0

(* A payslip that is not current is left for the next recomputation, or    *)
(* one is already on its way.                                              *)
RecomputeDue(e) ==
  \E w \in Cashiers :
    \/ cashier[w].pc = "rebuild"
    \/ cashier[w].pc \in {"price", "recompute"} /\ cashier[w].who = e
SlipIsCurrent(e) ==
  /\ payslip[e].net <= payslip[e].income
  /\ payslip[e].status = "PENDING" /\ onStaff[e] /\ ~RecomputeDue(e)
       => payslip[e] = ComputeEmployeePayslip(e)
SlipsAreCurrent == \A e \in Workers \ stale : SlipIsCurrent(e)

PayrollInd ==
  PayrollTypeOK /\ RowsInHand /\ PaidAsRecorded /\ SlipsAreCurrent

(* What the payslips of a month promise: paid once, current when settled,  *)
(* final once paid, and no advance past the income.                        *)
PayrollPromise ==
  /\ [](PayrollInd /\ PaidOnce /\ SettledSlipsAreCurrent)
  /\ FinalFiguresStand
  /\ AdvancesWithinIncome
=============================================================================
