SPECIFICATION LiveSpec
CONSTANTS
  Procs = {p}
  Deliveries = {d}
  Users = {u}
  Rows = {r}
  DeviceIds = {v}
  Tokens = {t}
  NoUser = NoUser
  MaxAttempts = 2
  MaxClaims = 9
  MaxPolls = 1
  MaxVersion = 1
  MaxPushFaults = 2
  Accounts = {a}
  NoAccount = NoAccount
  MaxEvents = 1
  MaxOutboxFaults = 1
  Shifts <- TwoShifts
  Slot <- BackToBack
  Overtimes = {r}
  OvertimeEnds = {3}
  Leaves = {l}
  LeaveKinds = {"LATE", "OFF"}
  Rules <- StoreRules
  Actual = FALSE
  MaxOvertime = 2
  ResumeDelay = 1
  Http = {g}
  JobWorker = job
  CronWorker = cron
  Horizon = 5
  LastAct = 3
  MaxCrashes = 1
  MaxBusy = 2
  MaxActs = 3
  None = None
PROPERTIES DeliveriesSettle EventsSettle ShiftsSettle
CHECK_DEADLOCK FALSE
