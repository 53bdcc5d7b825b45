----------------------------- MODULE PayFormulas -----------------------------
(***************************************************************************)
(* The arithmetic of a payslip (payroll-calculation.utils.ts,              *)
(* payroll-rule-config.utils.ts, wage-rates.utils.ts) and of the           *)
(* attendance it rests on (AttendanceRules), on a day of DayLength ticks,  *)
(* checked against what it is meant to come to for every small input.  A   *)
(* sample is one input.                                                    *)
(***************************************************************************)
EXTENDS Integers, Sequences, FiniteSets, FiniteSetsExt

CONSTANTS
  DayLength,        \* ticks of a day
  NightFrom,        \* NIGHT_START_HOUR, a tick of the day
  NightTo,          \* NIGHT_END_HOUR
  Span              \* instants are 0 .. Span

VARIABLE sample

Attendance == INSTANCE AttendanceRules

Missing == -1
Instants == 0 .. Span
MaybeInstant == Instants \cup {Missing}
Larger(x, y) == IF x > y THEN x ELSE y
Smaller(x, y) == IF x < y THEN x ELSE y

-----------------------------------------------------------------------------
(* Attendance of a month                                                   *)

Overlap(a0, a1, b0, b1) == Larger(0, Smaller(a1, b1) - Larger(a0, b0))

(* Nights are looked for from the day of the check-in on.                  *)
NightOverlapFromToday(from, to) ==
  LET nights == {n \in from \div DayLength .. (to \div DayLength) + 1 :
                   n * DayLength < to}
  IN IF ~(to > from) THEN 0
     ELSE MapThenSumSet(
            LAMBDA n : Overlap(from, to, n * DayLength + NightFrom,
                               (n + 1) * DayLength + NightTo), nights)

(* nightOverlapMinutes: the night that began the day before counts too.    *)
NightOverlap(from, to) ==
  LET first == (from \div DayLength) - 1
      nights == {n \in first .. (to \div DayLength) + 1 : n * DayLength < to}
  IN IF ~(to > from) THEN 0
     ELSE MapThenSumSet(
            LAMBDA n : Overlap(from, to, n * DayLength + NightFrom,
                               (n + 1) * DayLength + NightTo), nights)

(* shiftExtraMinutes: overtime and night work within what was credited.    *)
ShiftExtra(in, out, start, end, worked) ==
  IF in = Missing \/ out = Missing \/ ~(out > in) \/ worked <= 0
  THEN [overtime |-> 0, night |-> 0]
  ELSE [overtime |->
          IF start # Missing /\ end # Missing /\ end > start
          THEN Larger(0, Smaller(Larger(0, out - end),
                                 worked - Overlap(in, out, start, end)))
          ELSE 0,
        night |->
          Smaller(worked, NightOverlap(IF start # Missing /\ start > in THEN start
                                       ELSE in, out))]

(* pickDayOwnerAssignmentIds: the earliest check-in of the day owns it, a  *)
(* shift without one last, ties by id.                                     *)
Arrival(a) == IF a.in = Missing THEN Span + 1 ELSE a.in
DayOwners(shifts) ==
  {a \in shifts : \A b \in shifts :
     b.date = a.date => \/ Arrival(a) < Arrival(b)
                        \/ Arrival(a) = Arrival(b) /\ a.id <= b.id}

-----------------------------------------------------------------------------
(* Wage rates                                                              *)

(* A rate has an amount, conditions that already match the shift, counted  *)
(* by "conds", and perhaps a window of the day.                            *)
HasWindow(r) == r.from # Missing
Specificity(r) == r.conds + (IF HasWindow(r) THEN 1 ELSE 0)

(* best: the most specific rate, and of those the highest.                 *)
Best(rules, fallback) ==
  LET top == {r \in rules : \A s \in rules :
                \/ Specificity(s) < Specificity(r)
                \/ Specificity(s) = Specificity(r) /\ s.amount <= r.amount}
  IN IF rules = {} THEN fallback ELSE (CHOOSE r \in top : TRUE).amount

InWindow(r, t) ==
  LET tick == t % DayLength IN
  \/ ~HasWindow(r)
  \/ r.from < r.to /\ tick >= r.from /\ tick < r.to
  \/ r.from >= r.to /\ (tick >= r.from \/ tick < r.to)

(* windowEdges between two instants.                                       *)
WindowEdges(rules, from, to) ==
  {t \in from + 1 .. to - 1 :
     \E r \in rules : HasWindow(r) /\ t % DayLength \in {r.from, r.to}}

(* wageRateForShift, as the amount weighed by time: between two edges the  *)
(* rate in force holds.                                                    *)
WageForShift(rules, from, to, fallback) ==
  LET points == {from, to} \cup WindowEdges(rules, from, to)
      piece(p) == (Min({q \in points : q > p}) - p)
                  * Best({r \in rules : InWindow(r, p)}, fallback)
  IN MapThenSumSet(piece, points \ {to})

(* wageIntervalOf: the interval a shift is priced over.                    *)
WageInterval(in, out, start, end, worked) ==
  IF in # Missing /\ out # Missing /\ out > in
  THEN LET inside == IF start # Missing /\ start > in /\ start < out THEN start ELSE in
           from == IF worked > 0 /\ worked > out - inside THEN in ELSE inside
       IN [from |-> from, to |-> IF worked > 0 THEN Smaller(out, from + worked) ELSE out]
  ELSE IF start # Missing /\ end # Missing /\ end > start
       THEN [from |-> start, to |-> end]
       ELSE [from |-> Missing, to |-> Missing]

-----------------------------------------------------------------------------
(* Bonuses and fines                                                       *)

(* countedOccurrences: past the grace; once a day the longest only, when   *)
(* lateness does not accumulate.                                           *)
CountedOccurrences(list, grace, daily) ==
  LET past == {i \in DOMAIN list : list[i].minutes > grace}
      longest == {i \in past : \A j \in past : list[j].date = list[i].date =>
                    \/ list[j].minutes < list[i].minutes
                    \/ list[j].minutes = list[i].minutes /\ i <= j}
  IN IF daily THEN past ELSE longest

(* evaluateRuleConfig for a fine by steps, with a cap, 0 for none.         *)
Progressive(list, c) ==
  LET counted == CountedOccurrences(list, c.grace, c.daily)
      exact == c.amount * MapThenSumSet(
                 LAMBDA i : (list[i].minutes - c.grace) \div c.step, counted)
  IN IF c.cap # 0 /\ exact > c.cap THEN c.cap ELSE exact

(* Math.round of a number of tenths.                                       *)
Round(x) == (x + 5) \div 10

(* computeRuleAdjustmentBreakdown: what rounding leaves over goes to the   *)
(* first of the largest lines.                                             *)
SumOf(s) == MapThenSumSet(LAMBDA i : s[i], DOMAIN s)
AdjustmentBreakdown(exact) ==
  LET rounded == [i \in DOMAIN exact |-> Round(exact[i])]
      diff == Round(SumOf(exact)) - SumOf(rounded)
      largest == Min({i \in DOMAIN exact : \A j \in DOMAIN exact : exact[j] <= exact[i]})
  IN IF exact = <<>> THEN <<>> ELSE [rounded EXCEPT ![largest] = @ + diff]

-----------------------------------------------------------------------------
(* Samples                                                                 *)

Lates == [date : 1 .. 2, minutes : 0 .. 4]
Rates == [amount : 1 .. 2, conds : 0 .. 1, from : {Missing, 0, 3}, to : {1, 4}]
FormulaSamples ==
  [kind : {"shift"}, in : MaybeInstant, out : MaybeInstant,
   start : {Missing, 2}, end : {Missing, 5}, worked : 0 .. 8]
  \cup [kind : {"wage"}, rules : {{r, s} : r \in Rates, s \in Rates},
        from : 0 .. 4, to : 5 .. Span]
  \cup [kind : {"fine"}, list : UNION {[1 .. n -> Lates] : n \in 0 .. 2},
        grace : 0 .. 1, daily : BOOLEAN, step : 1 .. 2, amount : {1}, cap : {0, 2}]
  \cup [kind : {"lines"}, exact : UNION {[1 .. n -> {1, 4, 5, 14, 16}] : n \in 0 .. 4}]
  \cup [kind : {"policy"},
        requirement : {"NONE", "LOCATION_QR_GPS_FACEID", "GPS_ONLY", "QR_ONLY", "GPS_QR"},
        qr : {"none", "own", "other"}, requireQrScan : BOOLEAN,
        requireLocation : BOOLEAN, locationExempt : BOOLEAN, fix : BOOLEAN,
        storeHasLocation : BOOLEAN, distance : {0, 40, 60}, radius : {0, 30, 70}]
  \cup [kind : {"credit"}, saved : BOOLEAN, allowedLate : {Missing, 1},
        allowedEarlyLeave : {Missing, 1}, earlyCheckin : {Missing},
        lateCheckout : {1}, countFullTimeIfLate : BOOLEAN,
        deductWorkTimeIfLate : BOOLEAN, start : {2}, end : {1, 5}, in : 0 .. 4,
        out : 5 .. 9, paidUntil : {Missing, 8}, actual : BOOLEAN]
  \cup [kind : {"day"}, shifts : SUBSET [id : 1 .. 2, date : 1 .. 2, in : {Missing, 1, 2}]]

FormulaInit == sample \in FormulaSamples
NoSample == [kind |-> "none"]

-----------------------------------------------------------------------------
(* Properties                                                              *)

(* Night work is the ticks of the interval that lie in a night, for every  *)
(* interval, one over midnight or of several days too.                     *)
NightCountsNightTicks ==
  sample.kind = "shift" /\ sample.in # Missing /\ sample.out # Missing
    => NightOverlap(sample.in, sample.out) =
         Cardinality({t \in sample.in .. sample.out - 1 :
                        t % DayLength >= NightFrom \/ t % DayLength < NightTo})

(* Overtime is credited work outside the scheduled window: with the work   *)
(* inside it never more than what was credited.                            *)
ExtrasWithinCredit ==
  sample.kind = "shift" =>
    LET x == ShiftExtra(sample.in, sample.out, sample.start, sample.end, sample.worked)
    IN /\ x.night <= sample.worked
       /\ x.overtime > 0 =>
            x.overtime + Overlap(sample.in, sample.out, sample.start, sample.end)
              <= sample.worked

(* The interval a worked shift is priced over lies between check-in and    *)
(* check-out, and has the length of the credited time when that fits.      *)
PricedWhereWorked ==
  sample.kind = "shift" /\ sample.in # Missing /\ sample.out > sample.in =>
    LET x == WageInterval(sample.in, sample.out, sample.start, sample.end, sample.worked)
    IN /\ sample.in <= x.from /\ x.to <= sample.out
       /\ sample.worked > 0 =>
            x.to - x.from = Smaller(sample.worked, sample.out - sample.in)

(* A shift over several windows earns tick by tick the best rate in force. *)
WageIsTickByTick ==
  sample.kind = "wage" =>
    WageForShift(sample.rules, sample.from, sample.to, 1) =
      MapThenSumSet(LAMBDA t : Best({r \in sample.rules : InWindow(r, t)}, 1),
                    sample.from .. sample.to - 1)

(* Coming later never costs less: adding a minute to a late arrival never  *)
(* lowers the fine by steps, with the grace, the cap and either way of     *)
(* counting the arrivals of a day.                                         *)
LaterNeverCheaper ==
  sample.kind = "fine" =>
    \A i \in DOMAIN sample.list :
      Progressive([sample.list EXCEPT ![i].minutes = @ + 1], sample)
        >= Progressive(sample.list, sample)

(* The lines of the payslip add up to its rounded total.                   *)
LinesAddUp ==
  sample.kind = "lines" => SumOf(AdjustmentBreakdown(sample.exact)) = Round(SumOf(sample.exact))

(* Every day worked has one shift that counts as the day's work.           *)
OneOwnerPerDay ==
  sample.kind = "day" /\ (\A a, b \in sample.shifts : a.id = b.id => a = b)
    => \A a \in sample.shifts :
         Cardinality({b \in DayOwners(sample.shifts) : b.date = a.date}) = 1

(* The rules of attendance are of one mind: whatever is accepted without a *)
(* face is accepted with one under enforcement, a nearer place or an       *)
(* exemption never turns an acceptance into a refusal, and observing only  *)
(* refuses nobody who shows his face.                                      *)
PolicyIsConsistent ==
  sample.kind = "policy" =>
    LET accepted(i, faceless) == Attendance!ApplyAttendancePolicy(i, faceless, TRUE)
    IN /\ accepted(sample, TRUE) => accepted(sample, FALSE)
       /\ \A faceless \in BOOLEAN :
            accepted(sample, faceless) =>
              /\ accepted([sample EXCEPT !.distance = 0], faceless)
              /\ accepted([sample EXCEPT !.locationExempt = TRUE], faceless)
       /\ Attendance!ApplyAttendancePolicy(sample, FALSE, FALSE)

(* Nobody is paid past the end of the shift and of approved overtime, nor  *)
(* for longer than the readings when the store pays those, and a store     *)
(* that forgives pays the whole shift, over midnight too.                  *)
CreditWithinReach ==
  sample.kind = "credit" =>
    LET rules == Attendance!ResolveAttendanceRules(sample)
        w == Attendance!ResolveShiftBoundaries(sample.start, sample.end, DayLength)
        late == Attendance!ApplyGrace(Attendance!LateMinutes(w.start, sample.in),
                                      rules.grace)
        credit(capped) ==
          Attendance!CreditedWorkedMinutes(w, sample.in, sample.out, rules, late,
                                           sample.paidUntil, sample.actual, capped)
    IN /\ credit(TRUE) <= credit(FALSE)
       /\ IF sample.actual THEN credit(FALSE) <= sample.out - sample.in
          ELSE /\ credit(FALSE) <= Larger(w.end, sample.paidUntil) - w.start
               /\ rules.creditLateEarly => credit(FALSE) >= w.end - w.start

(* A clock time asked for names the one instant of the shift that shows    *)
(* it, and is refused exactly when the shift never shows it.               *)
RequestedInstantIsTheShifts ==
  sample.kind = "credit" =>
    LET w == Attendance!ResolveShiftBoundaries(sample.start, sample.end, DayLength)
    IN \A clock \in 0 .. DayLength - 1 :
         LET at == Attendance!ResolveRequestedInstant(w, clock, DayLength)
             shown == {t \in w.start .. w.end : t % DayLength = clock}
         IN IF shown = {} THEN at = Missing ELSE at \in shown

(* What the arithmetic of a payslip comes to, for every small input: the   *)
(* ten statements above.                                                   *)
PayFormulasPromise ==
  /\ NightCountsNightTicks
  /\ ExtrasWithinCredit
  /\ PricedWhereWorked
  /\ WageIsTickByTick
  /\ LaterNeverCheaper
  /\ LinesAddUp
  /\ OneOwnerPerDay
  /\ PolicyIsConsistent
  /\ CreditWithinReach
  /\ RequestedInstantIsTheShifts
=============================================================================
