----------------------------- MODULE MCPlanning -----------------------------
(***************************************************************************)
(* Shifts from plan to claim, for TLC: the work cycles and their nightly   *)
(* copies, the calendar arithmetic, shifts that employees ask for,         *)
(* reminders, the alerts of the owner, how time is counted, requests to    *)
(* change a shift and claims for time that was not recorded.  These models *)
(* share no variables, so each behaviour exercises one of them.            *)
(***************************************************************************)
EXTENDS ShiftReminders, OwnerAlerts, CustomShifts, WorkedTimeRules,
        WorkSupplements, ChangeRequests

CONSTANTS
  CycleIds, ShiftIds, CycleStaff, CycleDesks, ShiftHours, WeekLength,
  Horizon, Interval, NoDay, MaxCycleDay, MaxSlots, MaxCycleOps,
  DayTicks, DaysInWeek, LongMonth, ShortMonth, LastDate

VARIABLES
  focus,    \* the component that takes steps in this behaviour
  cycleDay, shiftRows, cycleRows, slotRows, cycleDesk, nightly, crossed,
  cycleOps,
  question

\* The rules an owner may wish for: for everyone or for one employee, endless
\* or short, by the shift or by the clock.
Wish(who, mode, start, length) ==
  [for |-> who, mode |-> mode, start |-> start, length |-> length]
Wishes == {Wish({}, "SHIFT", 0, Endless), Wish({}, "SHIFT", 1, 1),
           Wish(PaidStaff, "ACTUAL", 0, 1),
           Wish(PaidStaff, "SHIFT", 1, Endless),
           Wish(PaidStaff, "ACTUAL", 2, 1)}

\* Two shifts after the notice the rules ask for, and a stricter setting.
TurnTimes == [turn \in {"s1", "s2"} |-> IF turn = "s1" THEN 41 ELSE 60]
StricterSettings ==
  {[leaveOn |-> TRUE, swapOn |-> TRUE, leaveNotice |-> 24, leaveLimit |-> 2,
    swapNotice |-> 12, swapLimit |-> 1, lateNotice |-> 0, lateLimit |-> 1]}

\* The window of the shift that supplements are claimed for.
SupTimes == [s \in {"s1"} |-> [start |-> 1, end |-> 3]]
UsualRules ==
  [grace |-> 0, earlyGrace |-> 0, earlyCheckin |-> 15, lateCheckout |-> 15,
   creditLateEarly |-> FALSE]

Cycles == INSTANCE WorkCycles
Calendar == INSTANCE ScheduleRules

cyclesState == <<cycleDay, shiftRows, cycleRows, slotRows, cycleDesk,
                 nightly, crossed, cycleOps>>
calendarState == <<question>>

\* One component is in focus; the others keep one initial state.
PlanningInit ==
  /\ focus \in {"cycles", "calendar", "custom", "reminders", "alerts",
                "worked", "changes", "supplements"}
  /\ Cycles!CyclesInit
  /\ IF focus = "calendar" THEN Calendar!ScheduleInit
     ELSE question = Calendar!NoQuestion
  /\ PlansInit
  /\ RemindersInit
  /\ focus # "reminders" =>
       remShift.approved /\ ~remShift.leave
       /\ remShift.start = 2 /\ remShift.lead = 1
  /\ AlertsInit
  /\ focus # "alerts" =>
       duty.start = 2
  /\ WorkedTimeInit
  /\ ChangesInit
  /\ focus # "changes" =>
       turnStatus = [turn \in Turns |-> "MINE"] /\ standing = "ACTIVE"
  /\ SupInit

Rests(component, state) ==
  IF focus = component THEN TRUE ELSE UNCHANGED state

PlanningNext ==
  /\ \/ focus = "cycles" /\ Cycles!CyclesNext
     \/ focus = "custom" /\ PlansNext
     \/ focus = "reminders" /\ RemindersNext
     \/ focus = "alerts" /\ AlertsNext
     \/ focus = "worked" /\ WorkedTimeNext
     \/ focus = "changes" /\ ChangesNext
     \/ focus = "supplements" /\ SupNext
  /\ Rests("cycles", cyclesState)
  /\ Rests("calendar", calendarState)
  /\ Rests("custom", planVars)
  /\ Rests("reminders", reminderVars)
  /\ Rests("alerts", alertVars)
  /\ Rests("worked", workedTimeVars)
  /\ Rests("changes", paperVars)
  /\ Rests("supplements", supVars)
  /\ UNCHANGED focus

planningState == <<focus, cyclesState, calendarState, planVars,
   reminderVars, alertVars, workedTimeVars, paperVars,
   supVars>>
PlanningSpec == PlanningInit /\ [][PlanningNext]_planningState

-----------------------------------------------------------------------------
\* Work cycles: one open cycle, one slot for a shift and day, no gaps,
\* copies that respect a stop, and retiming that keeps shifts apart
\* (WorkCycles).
CyclesHold == Cycles!WorkCyclesPromise

\* The calendar arithmetic answers every question in reach right
\* (ScheduleRules).
CalendarIsRight == Calendar!ScheduleRulesPromise
=============================================================================
