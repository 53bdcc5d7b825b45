---------------------------- MODULE ScheduleRules ----------------------------
(***************************************************************************)
(* The calendar arithmetic of scheduling, checked against what it is meant *)
(* to come to for every small input: intervals over midnight and leave     *)
(* (service-parts/shared.ts, scheduling.part.ts), opening hours            *)
(* (operating-hours.utils.ts), recurrence (shift-schedule.utils.ts),       *)
(* personal schedules (personal-schedule.utils.ts), work terms             *)
(* (work-terms.utils.ts), the shift an order falls into                    *)
(* (revenue-by-shift.ts) and who hears of a new shift                      *)
(* (shift-assignment-notification.ts).  A question is one input.           *)
(*                                                                         *)
(* A day has DayTicks ticks, a week DaysInWeek days, and months have by    *)
(* turns LongMonth and ShortMonth days; day 0 begins a week and a month.   *)
(***************************************************************************)
EXTENDS Integers, Sequences, FiniteSets, FiniteSetsExt, SequencesExt

CONSTANTS DayTicks, DaysInWeek, LongMonth, ShortMonth, LastDate

VARIABLE question

None == -1
Dates == 0 .. LastDate
Clock == 0 .. DayTicks - 1

-----------------------------------------------------------------------------
(* Intervals                                                               *)

(* toShiftInterval: an end that is not after the start is the next day's.  *)
ToShiftInterval(d, s, e) ==
  [start |-> d * DayTicks + s,
   end |-> d * DayTicks + (IF e <= s THEN e + DayTicks ELSE e)]
IntervalsOverlap(a, b) == a.start < b.end /\ b.start < a.end

Earlier(a, b) == a.start < b.start \/ (a.start = b.start /\ a.end < b.end)
SortIntervals(S) == SetToSortSeq(S, Earlier)

(* hasInternalIntervalOverlap: one pass with the furthest end so far.      *)
HasInternalOverlap(S) ==
  LET s == SortIntervals(S)
      furthest[i \in 0 .. Len(s)] ==
        IF i = 0 THEN None ELSE Max({furthest[i - 1], s[i].end})
  IN \E i \in DOMAIN s : s[i].start < furthest[i - 1]

(* intervalSetsOverlap: two fingers over two sorted lists.                 *)
IntervalSetsOverlap(L, R) ==
  LET l == SortIntervals(L)
      r == SortIntervals(R)
      walk[k \in 0 .. Len(l) + Len(r), i \in 1 .. Len(l) + 1, j \in 1 .. Len(r) + 1] ==
        IF k = 0 \/ i > Len(l) \/ j > Len(r) THEN FALSE
        ELSE IF IntervalsOverlap(l[i], r[j]) THEN TRUE
        ELSE IF l[i].end <= r[j].start THEN walk[k - 1, i + 1, j]
        ELSE walk[k - 1, i, j + 1]
  IN walk[Len(l) + Len(r), 1, 1]

(* mergeIntervals: intervals that touch become one.                        *)
MergeIntervals(S) ==
  FoldLeft(LAMBDA merged, x :
             IF merged = << >> \/ x.start > Last(merged).end THEN Append(merged, x)
             ELSE IF x.end > Last(merged).end
             THEN [merged EXCEPT ![Len(merged)].end = x.end] ELSE merged,
           << >>, SortIntervals(S))

(* toBlockingLeaveIntervals: leave for whole days, or for the same hours   *)
(* on each of them, within the dates that are looked at.                   *)
LeaveIntervals(from, to, s, e, first, last) ==
  IF s = None
  THEN {[start |-> from * DayTicks, end |-> (to + 1) * DayTicks]}
  ELSE {ToShiftInterval(d, s, e) : d \in Max({from, first}) .. Min({to, last})}

(* leaveBlocksShifts: leave for whole days blocks the shifts that begin in *)
(* it, leave for hours those that touch it.                                *)
LeaveBlocks(shift, days, hours) ==
  \/ \E v \in days : v.start <= shift.start /\ shift.start < v.end
  \/ \E v \in hours : IntervalsOverlap(shift, v)

TicksOf(S) == UNION {x.start .. x.end - 1 : x \in S}

-----------------------------------------------------------------------------
(* Opening hours                                                           *)

Frames == {f \in [start : Clock, end : 1 .. DayTicks] : f.start < f.end}

(* normalizeOperatingFrames refuses frames that overlap.                   *)
ValidFrames(F) == F # {} /\ \A f, g \in F : f # g => ~IntervalsOverlap(f, g)

(* framesFromOpenClose: closing at or before opening is the next day's.    *)
FramesFromOpenClose(open, close) ==
  IF close > open THEN {[start |-> open, end |-> close]}
  ELSE {[start |-> open, end |-> DayTicks]}
       \cup (IF close > 0 THEN {[start |-> 0, end |-> close]} ELSE {})

(* businessDayOf: from the first frame after the longest time closed, the  *)
(* first such gap if there are several, to the last frame before it.       *)
BusinessDayOf(F) ==
  LET s == SortIntervals(F)
      next(i) == s[(i % Len(s)) + 1]
      gap(i) == next(i).start - s[i].end + (IF i = Len(s) THEN DayTicks ELSE 0)
      longest == Min({i \in DOMAIN s : \A j \in DOMAIN s : gap(j) <= gap(i)})
      start == next(longest).start
      end == s[longest].end
  IN IF gap(longest) <= 0 THEN [start |-> 0, end |-> DayTicks]
     ELSE [start |-> start, end |-> IF end <= start THEN end + DayTicks ELSE end]

OpenCloseFromFrames(F) ==
  LET day == BusinessDayOf(F) IN
  IF day.end - day.start >= DayTicks THEN [open |-> 0, close |-> DayTicks - 1]
  ELSE [open |-> day.start, close |-> day.end % DayTicks]

-----------------------------------------------------------------------------
(* The calendar and recurrence                                             *)

Weekday(d) == d % DaysInWeek
StartOfWeek(d) == d - Weekday(d)
MonthPair == LongMonth + ShortMonth
Month(d) == 2 * (d \div MonthPair) + (IF d % MonthPair >= LongMonth THEN 1 ELSE 0)
DayOfMonth(d) ==
  1 + (IF d % MonthPair >= LongMonth THEN (d % MonthPair) - LongMonth ELSE d % MonthPair)
DaysInMonth(d) == IF Month(d) % 2 = 0 THEN LongMonth ELSE ShortMonth

(* isNthWeekdayOfMonth.                                                    *)
IsNthWeekday(d, weekday, n) ==
  Weekday(d) = weekday /\ ((DayOfMonth(d) - 1) \div DaysInWeek) + 1 = n

(* matchesShiftRecurrence.  A day the month does not have is its last.     *)
MonthlyExactly(d, rule) == DayOfMonth(d) = rule.day
MonthlyOn(d, rule) == DayOfMonth(d) = Min({rule.day, DaysInMonth(d)})
MatchesRecurrence(d, start, rule) ==
  /\ d >= start
  /\ CASE rule.every = "day" -> (d - start) % rule.interval = 0
       [] rule.every = "week" ->
            /\ ((StartOfWeek(d) - StartOfWeek(start)) \div DaysInWeek) % rule.interval = 0
            /\ Weekday(d) \in rule.days
       [] rule.every = "month" ->
            /\ (Month(d) - Month(start)) % rule.interval = 0
            /\ MonthlyOn(d, rule)
       [] rule.every = "nth" ->
            /\ (Month(d) - Month(start)) % rule.interval = 0
            /\ IsNthWeekday(d, rule.weekday, rule.n)

(* generateShiftScheduleDates, by count or until a date.                   *)
ScheduleDates(start, rule, count, until) ==
  LET all == {d \in start .. (IF until = None THEN LastDate ELSE until) :
                MatchesRecurrence(d, start, rule)}
  IN IF count = None THEN all
     ELSE {d \in all : Cardinality({c \in all : c < d}) < count}

(* expandCustomShiftDates.                                                 *)
ExpandCustomShiftDates(from, to, days) ==
  {d \in from .. to : days = {} \/ Weekday(d) \in days}

-----------------------------------------------------------------------------
(* Personal schedules                                                      *)

(* occursOn: a slot of a schedule on its own day, and on the later days of *)
(* its weekday or its day of the month.                                    *)
OccursOn(slot, d) ==
  \/ d = slot.date
  \/ /\ d > slot.date
     /\ \/ slot.repeat = "WEEKLY" /\ Weekday(d) = Weekday(slot.date)
        \/ slot.repeat = "MONTHLY" /\ DayOfMonth(d) = DayOfMonth(slot.date)
OnDay(slot, d) == ToShiftInterval(d, slot.start, slot.end)

(* personalScheduleWarnings looks at the day of the shift, the day before  *)
(* and the day after.                                                      *)
WarnsOfOverlap(slot, d, s, e) ==
  \E day \in d - 1 .. d + 1 :
    OccursOn(slot, day) /\ IntervalsOverlap(OnDay(slot, day), ToShiftInterval(d, s, e))

(* Outside the hours somebody gave as free: only if he gave some that day, *)
(* or some that run into it.                                               *)
WarnsOfUnavailable(slots, d, s, e) ==
  LET shift == ToShiftInterval(d, s, e)
      given == {OnDay(x, d) : x \in {y \in slots : OccursOn(y, d)}}
               \cup {v \in {OnDay(x, d - 1) : x \in {y \in slots : OccursOn(y, d - 1)}} :
                       v.end > d * DayTicks}
  IN given # {} /\ \A v \in given : ~(v.start <= shift.start /\ shift.end <= v.end)

-----------------------------------------------------------------------------
(* Work terms                                                              *)

InWeekOf(d, booked) == {b \in booked : StartOfWeek(b) = StartOfWeek(d)}
InMonthOf(d, booked) == {b \in booked : Month(b) = Month(d)}

(* workTermViolation: a day that has a shift already costs no further one. *)
WorkTermViolation(terms, d, booked) ==
  CASE terms.from # None /\ d < terms.from -> "NOT_STARTED"
    [] Weekday(d) \in terms.off /\ ~(terms.from # None /\ d < terms.from) -> "FIXED_DAY_OFF"
    [] OTHER ->
       IF d \in booked THEN "NONE"
       ELSE IF terms.week # None /\ Cardinality(InWeekOf(d, booked)) >= terms.week
       THEN "WEEK_LIMIT"
       ELSE IF terms.month # None /\ Cardinality(InMonthOf(d, booked)) >= terms.month
       THEN "MONTH_LIMIT" ELSE "NONE"

(* The days of a request are asked about one after the other, each on top  *)
(* of those before it.                                                     *)
FitsWorkTerms(terms, dates, booked) ==
  \A d \in dates :
    WorkTermViolation(terms, d, booked \cup {c \in dates : c < d}) = "NONE"

-----------------------------------------------------------------------------
(* Orders and announcements                                                *)

(* shiftAt: of the shifts open at a minute, the one that began last; equal *)
(* starts: the first in the list.  0 is outside every shift.               *)
Elapsed(w, minute) == (minute - w.start + DayTicks) % DayTicks
ShiftLength(w) ==
  IF w.end = w.start THEN DayTicks ELSE (w.end - w.start + DayTicks) % DayTicks
ShiftAt(list, minute) ==
  LET open == {i \in DOMAIN list : Elapsed(list[i], minute) < ShiftLength(list[i])}
      latest == {i \in open : \A j \in open :
                   Elapsed(list[i], minute) <= Elapsed(list[j], minute)}
  IN IF open = {} THEN 0 ELSE Min(latest)
(* revenueByShift: one row per shift, and one for what is outside.         *)
RevenueByShift(list, orders) ==
  [i \in 0 .. Len(list) |->
     MapThenSumSet(LAMBDA m : orders[m], {m \in Clock : ShiftAt(list, m) = i})]

(* isSlotRegistrationClosed, by the slot's own start or its template's.    *)
RegistrationClosed(date, start, now) ==
  \/ date < now \div DayTicks
  \/ start # None /\ date * DayTicks + start <= now

(* selectCreatedShiftAnnouncement: drafts with a free seat, on the dates   *)
(* that can still be registered for, and who is left out altogether.       *)
OpenDrafts(drafts, dates, now) ==
  {i \in DOMAIN drafts :
     /\ Cardinality(drafts[i].picked) < drafts[i].max
     /\ \E d \in dates : ~RegistrationClosed(d, drafts[i].start, now)}
Announced(drafts, dates, now) ==
  {<<i, d>> \in OpenDrafts(drafts, dates, now) \X dates :
     ~RegistrationClosed(d, drafts[i].start, now)}
Excluded(p, drafts, open) == open # {} /\ \A i \in open : p \in drafts[i].picked

-----------------------------------------------------------------------------
(* Questions                                                               *)

Intervals == {ToShiftInterval(d, s, e) : d \in 0 .. 1, s \in Clock, e \in {0, 1, DayTicks - 1}}
SomeIntervals == {{a, b} : a \in Intervals, b \in Intervals}
Rules ==
  [every : {"day"}, interval : 1 .. 3]
  \cup [every : {"week"}, interval : 1 .. 2, days : SUBSET (0 .. DaysInWeek - 1) \ {{}}]
  \cup [every : {"month"}, interval : 1 .. 2, day : 1 .. LongMonth]
  \cup [every : {"nth"}, interval : {1}, weekday : 0 .. DaysInWeek - 1, n : 1 .. 2]
PersonalSlots ==
  [date : 0 .. 2, start : Clock, end : Clock, repeat : {"NONE", "WEEKLY", "MONTHLY"}]
Terms == [from : {None, 1}, off : {{}, {1}}, week : {None, 1, 2}, month : {None, 1, 2}]
Questions ==
  [about : {"intervals"}, left : SomeIntervals, right : {{a} : a \in Intervals}]
  \cup [about : {"leave"}, from : 0 .. 1, to : 1 .. 2, s : {None, 0, 2}, e : {1, 2},
        date : 0 .. 3, start : Clock, end : Clock]
  \cup [about : {"hours"}, frames : {F \in {{f, g, h} : f, g, h \in Frames} : ValidFrames(F)}]
  \cup [about : {"openclose"}, open : Clock, close : Clock]
  \cup [about : {"recurrence"}, rule : Rules, start : 0 .. 4, count : {None, 2},
        until : {None, 9}]
  \cup [about : {"personal"}, slot : PersonalSlots, other : {[date |-> 1, start |-> 1,
          end |-> 3, repeat |-> "WEEKLY"]}, date : 1 .. 5, start : Clock, end : {0, 2}]
  \cup [about : {"terms"}, terms : Terms, dates : SUBSET (0 .. 4), booked : {{}, {1}, {3}}]
  \cup [about : {"orders"}, list : [1 .. 2 -> [start : Clock, end : Clock]],
        orders : {[m \in Clock |-> m + 1]}]
  \cup [about : {"notice"}, now : 0 .. DayTicks, dates : {{0}, {0, 1}},
        drafts : [1 .. 2 -> [start : {0, 2}, max : 1 .. 2, picked : SUBSET {1, 2}]]]
ScheduleInit == question \in Questions
NoQuestion == [about |-> "none"]

-----------------------------------------------------------------------------
(* Properties                                                              *)

(* Whether two sets of shifts collide is found in one pass over the sorted *)
(* lists exactly when some tick belongs to both, over midnight too; and a  *)
(* draft collides with itself exactly when two of its shifts share one.    *)
CollisionsAreFound ==
  question.about = "intervals" =>
    /\ IntervalSetsOverlap(question.left, question.right)
         <=> TicksOf(question.left) \cap TicksOf(question.right) # {}
    /\ HasInternalOverlap(question.left)
         <=> \E a, b \in question.left : a # b /\ TicksOf({a}) \cap TicksOf({b}) # {}

(* Merging the intervals of a leave keeps what it blocks, and a shift is   *)
(* blocked exactly when it begins on a day off or shares an hour off, the  *)
(* dates outside those looked at included.                                 *)
LeaveMeansTheSame ==
  question.about = "leave" /\ question.from <= question.to =>
    LET q == question
        shift == ToShiftInterval(q.date, q.start, q.end)
        v == LeaveIntervals(q.from, q.to, q.s, q.e, q.date - 1, q.date + 1)
        merged == Range(MergeIntervals(v))
        blocked == IF q.s = None THEN LeaveBlocks(shift, merged, {})
                   ELSE LeaveBlocks(shift, {}, merged)
    IN blocked <=>
         IF q.s = None THEN q.date \in q.from .. q.to
         ELSE \E d \in q.from .. q.to :
                TicksOf({ToShiftInterval(d, q.s, q.e)}) \cap TicksOf({shift}) # {}

(* The business day holds every open tick, begins and ends with an open    *)
(* one, and no shorter stretch holds them all: what is sold after midnight *)
(* counts to the evening it belongs to.                                    *)
BusinessDayHoldsOpenTicks ==
  question.about = "hours" =>
    LET day == BusinessDayOf(question.frames)
        open == TicksOf(question.frames)
    IN /\ day.end - day.start <= DayTicks
       /\ \A t \in open : t \in day.start .. day.end - 1
                          \/ t + DayTicks \in day.start .. day.end - 1
       /\ day.start \in open /\ (day.end - 1) % DayTicks \in open
       /\ \A g \in Clock : \E t \in open :
            (t - g + DayTicks) % DayTicks >= day.end - day.start - 1

(* The pair of opening and closing times survives the way to frames and    *)
(* back, over midnight too, unless the store never closes.                 *)
OpenCloseRoundTrip ==
  (question.about = "openclose" /\ question.open # question.close) =>
    OpenCloseFromFrames(FramesFromOpenClose(question.open, question.close))
      = [open |-> question.open, close |-> question.close]

(* A monthly schedule has a shift in every month it runs, the short ones   *)
(* too; a weekly one as many as it has weekdays in each of its weeks; and  *)
(* a number of repetitions is met exactly, from the first day on.          *)
RecurrenceSkipsNothing ==
  question.about = "recurrence" =>
    LET q == question
        dates == ScheduleDates(q.start, q.rule, q.count, q.until)
        whole == ScheduleDates(q.start, q.rule, None, None)
    IN /\ q.rule.every = "month" =>
            \A m \in Month(q.start) + 1 .. Month(LastDate) - 1 :
              (m - Month(q.start)) % q.rule.interval = 0 =>
                Cardinality({d \in whole : Month(d) = m}) = 1
       /\ q.rule.every = "week" =>
            \A w \in {x \in Dates : Weekday(x) = 0 /\ x > q.start
                                    /\ x + DaysInWeek <= LastDate} :
              Cardinality({d \in whole : StartOfWeek(d) = w}) \in {0, Cardinality(q.rule.days)}
       /\ q.rule.every = "day" => q.start \in dates
       /\ q.count # None /\ q.until = None /\ Cardinality(whole) >= q.count
            => Cardinality(dates) = q.count /\ \A d \in whole \ dates, c \in dates : c < d
       /\ q.until # None => \A d \in dates : d <= q.until

(* The days an employee asks shifts for by their weekdays are the days a   *)
(* weekly schedule of the owner has for the same dates.                    *)
AskedDaysAreTheSchedules ==
  question.about = "recurrence" /\ question.rule.every = "week"
    /\ question.rule.interval = 1 /\ question.until # None =>
      ExpandCustomShiftDates(question.start, question.until, question.rule.days)
        = ScheduleDates(question.start, question.rule, None, question.until)

(* A warning that a shift clashes with somebody's busy hours is given      *)
(* exactly when an occurrence of them shares a tick with the shift, on     *)
(* whatever day it began.                                                  *)
WarnsExactlyWhenBusy ==
  question.about = "personal" =>
    LET q == question IN
    WarnsOfOverlap(q.slot, q.date, q.start, q.end) <=>
      \E d \in Dates : OccursOn(q.slot, d) /\
        TicksOf({OnDay(q.slot, d)}) \cap TicksOf({ToShiftInterval(q.date, q.start, q.end)}) # {}

(* Somebody is said to be outside his free hours only if he gave some for  *)
(* that day and some tick of the shift is outside all of them, or no one   *)
(* of them holds the shift.                                                *)
UnavailableIsDeclared ==
  question.about = "personal" =>
    LET q == question
        free == {q.slot, q.other}
        shift == ToShiftInterval(q.date, q.start, q.end)
        covers(x, d) == OccursOn(x, d) /\ OnDay(x, d).start <= shift.start
                        /\ shift.end <= OnDay(x, d).end
    IN WarnsOfUnavailable(free, q.date, q.start, q.end)
         => /\ \E x \in free, d \in {q.date - 1, q.date} : OccursOn(x, d)
            /\ ~\E x \in free, d \in Dates : covers(x, d)

(* Days that were all accepted leave no week and no month over its limit,  *)
(* none before the start of work and none on a fixed day off.              *)
TermsHoldForTheWhole ==
  question.about = "terms" =>
    LET q == question
        all == q.booked \cup q.dates
    IN FitsWorkTerms(q.terms, q.dates, q.booked) =>
         \A d \in q.dates :
           /\ q.terms.from = None \/ d >= q.terms.from
           /\ Weekday(d) \notin q.terms.off
           /\ q.terms.week # None /\ d \notin q.booked =>
                Cardinality(InWeekOf(d, all)) <= Max({q.terms.week,
                  Cardinality(InWeekOf(d, q.booked))})
           /\ q.terms.month # None /\ d \notin q.booked =>
                Cardinality(InMonthOf(d, all)) <= Max({q.terms.month,
                  Cardinality(InMonthOf(d, q.booked))})

(* Every order is counted once, in a shift that is open at its minute      *)
(* whenever one is.                                                        *)
RevenueAddsUp ==
  question.about = "orders" =>
    LET q == question
        rows == RevenueByShift(q.list, q.orders)
        openAt(w, m) == IF w.end > w.start THEN m \in w.start .. w.end - 1
                        ELSE m >= w.start \/ m < w.end
    IN /\ MapThenSumSet(LAMBDA i : rows[i], DOMAIN rows)
            = MapThenSumSet(LAMBDA m : q.orders[m], Clock)
       /\ \A m \in Clock :
            LET i == ShiftAt(q.list, m) IN
            IF i = 0 THEN \A j \in DOMAIN q.list : ~openAt(q.list[j], m)
            ELSE openAt(q.list[i], m)

(* Of a new schedule somebody hears nothing exactly when he was picked for *)
(* every shift that is announced.                                          *)
ToldWhatIsOpen ==
  question.about = "notice" =>
    LET q == question
        open == OpenDrafts(q.drafts, q.dates, q.now)
        told == Announced(q.drafts, q.dates, q.now)
    IN told # {} => \A p \in {1, 2, 3} :
         Excluded(p, q.drafts, open) <=> \A x \in told : p \in q.drafts[x[1]].picked

(* The calendar arithmetic answers every question right: collisions, leave *)
(* and opening hours over midnight, recurrence, warnings, work terms,      *)
(* revenue and announcements, each as the parts above say.                 *)
ScheduleRulesPromise ==
  /\ CollisionsAreFound /\ LeaveMeansTheSame
  /\ BusinessDayHoldsOpenTicks /\ OpenCloseRoundTrip
  /\ RecurrenceSkipsNothing
  /\ AskedDaysAreTheSchedules
  /\ WarnsExactlyWhenBusy /\ UnavailableIsDeclared
  /\ TermsHoldForTheWhole
  /\ RevenueAddsUp /\ ToldWhatIsOpen
=============================================================================
