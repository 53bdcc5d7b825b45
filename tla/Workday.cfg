SPECIFICATION WorkdaySpec
CONSTANTS
  Shifts <- TwoShifts
  Slot <- BackToBack
  Overtimes = {r, s}
  OvertimeEnds = {3}
  Leaves = {l}
  LeaveKinds = {"EARLY"}
  Rules <- StoreRules
  Actual = FALSE
  MaxOvertime = 2
  ResumeDelay = 1
  Http = {g, h, i}
  JobWorker = job
  CronWorker = cron
  Horizon = 5
  LastAct = 3
  MaxCrashes = 1
  MaxBusy = 3
  MaxActs = 4
  None = None
INVARIANT WorkdayInv
PROPERTY NoEarlyAutoCheckout
CHECK_DEADLOCK FALSE
