SPECIFICATION PlanningSpec
CONSTANTS
  \* work cycles
  CycleIds = {1, 2}
  ShiftIds = {sx, sy}
  CycleStaff = {worker}
  CycleDesks = {v, w}
  ShiftHours = {am, pm}
  WeekLength = 2
  Horizon = 2
  Interval = 1
  NoDay = NoDay
  MaxCycleDay = 1
  MaxSlots = 3
  MaxCycleOps = 2
  \* calendar
  DayTicks = 4
  DaysInWeek = 3
  LongMonth = 4
  ShortMonth = 3
  LastDate = 20
  \* shifts employees ask for
  PlanDesks = {1, 2}
  AskIds = {1, 2}
  PlanDates = {0, 1}
  PlanHours = {"am", "pm", "all"}
  WeekLimit = 2
  MaxBooked = 2
  \* reminders
  RemDesks = {v, w}
  NoRemDesk = NoRemDesk
  ShiftStarts = {2, 3}
  Leads = {0, 1}
  MaxRemClock = 2
  MaxRemChanges = 1
  MaxMishaps = 1
  \* alerts of the owner
  AlertDesks = {v, w}
  BeginTimes = {2, 3}
  PreLeads = {1}
  EndLead = 1
  ShiftSpan = 1
  MaxAlertClock = 3
  MaxAlertChanges = 1
  MaxAlertFaults = 1
  MaxAttempts = 2
  \* rules of worked time
  PaidStaff = {worker}
  RuleWishes <- Wishes
  RuleIds = {1, 2}
  Endless = Endless
  StartGrace = 1
  ActualFrom = 1
  RuleDesks = {v, w}
  MaxRuleClock = 4
  \* requests to change a shift
  Papers = {1, 2}
  PaperDesks = {v, w}
  Turns = {"s1"}
  TurnStart <- TurnTimes
  TurnHours = 8
  LeaveKinds = {"EARLY"}
  Hours = {0, 35}
  MonthHours = 50
  MaxSettings = 1
  Settings <- StricterSettings
  NoPaper = NoPaper
  \* claims of work that was not recorded
  SupTurns = {"s1"}
  SupWindow <- SupTimes
  SupRules <- UsualRules
  SupIds = {r, s}
  SupDesks = {v, w}
  SupClocks = {0, 3}
  SupDay = 4
  MaxSupClock = 4
INVARIANTS
  CalendarIsRight
  ShiftRemindersPromise
  OwnerAlertsPromise
PROPERTIES
  CyclesHold
  CustomShiftsPromise
  WorkedTimePromise
  ChangeRequestsPromise
  WorkSupplementsPromise
CHECK_DEADLOCK FALSE
