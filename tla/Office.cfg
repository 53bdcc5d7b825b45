SPECIFICATION OfficeSpec
CONSTANTS
  \* the job lock
  Instances = {i1, i2}
  Slots = {a, b}
  PoolSize = 2
  StatementsFail = TRUE
  MaxDepth = 3
  \* goods
  Goods = {g, h}
  Staff = {p}
  Issues = {a, b}
  Slips = {k}
  Keepers = {c, d}
  MaxStock = 2
  MaxRequests = 3
  Quantities = {1}
  Nobody = Nobody
  \* payslips
  Workers = {e}
  Advances = {a, b}
  Records = {r}
  Cashiers = {c, d}
  Sums = {1, 2}
  MaxWorked = 2
  MaxRate = 2
  MaxDeletions = 1
  MaxWrites = 5
  NoOne = NoOne
  \* fines
  Versions = {1, 2, 3}
  Prices = {1, 2}
  LastDay = 3
  MaxSaves = 3
  MaxWaivers = 1
  \* pay formulas
  DayLength = 6
  NightFrom = 5
  NightTo = 2
  Span = 13
  \* notices of fines and monthly summaries
  MonthShifts = {a, b}
  DateOf <- ShiftDates
  FollowDesks = {c, d}
  FinePrices = {1, 2}
  WageRates = {1, 2}
  MaxFollowOps = 3
  MaxTries = 2
  NoSnapshot = NoSnapshot
  NoFigure = NoFigure
  NoShift = NoShift
  \* career ladder
  Rungs = {x, y, z}
  Probationary = {x}
  People = {e}
  Editors = {c, d}
  MaxScore = 1
  MaxEdits = 3
  Entry = Entry
  Idle = Idle
  \* departments, positions and skills
  Departments = {n, f}
  Top = Top
  Positions = {p, q}
  Skills = {k}
  Employees = {e}
  MaxChanges = 5
  Nowhere = Nowhere
  \* reports and announcements
  NoticeDesks = {c, d}
  Crew = {e, f}
  ReportIds = {1, 2}
  SeatSlots = {1, 2}
  MaxSeats = 2
  Wishers = {e}
  ThrottleWindow = 2
  MaxEntries = 1
  AnnounceDays = 2
  Frequencies = {1, 2}
  MaxNoticeClock = 2
  MaxNoticeOps = 3
  NoReport = NoReport
  NoPeriod = NoPeriod
SYMMETRY Symmetry
INVARIANTS
  LockPromise
  InventoryPromise
  PayFormulasPromise
  CareerStructurePromise
PROPERTIES
  PayrollPromise
  PayrollRulesPromise
  FollowUpsPromise
  LadderHolds
  NoticesHold
CHECK_DEADLOCK FALSE
