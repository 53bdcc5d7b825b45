SPECIFICATION PeopleSpec
CONSTANTS
  \* hiring
  Stores = {s, t}
  Accounts = {u}
  Applications = {i}
  Clerks = {c, d}
  MaxStints = 2
  MaxOutages = 1
  NoStore = NoStore
  NoAccount = NoAccount
  \* skills
  Subjects = {1, 2}
  Learners = {e, f}
  RequestIds = {r1, r2}
  Thresholds = {0, 1}
  MaxClock = 3
  MaxTweaks = 2
  NoRequestId = NoRequestId
  \* sessions
  MaxCodes = 2
  MaxTokens = 3
  AuthDesks = {c, d}
  MaxLive = 1
  SendLimit = 1
  SendWindow = 1
  VerifyLimit = 1
  VerifyWindow = 2
  CodeLife = 1
  MaxAuthClock = 2
  MaxPasswords = 2
  MaxRestarts = 1
  \* accounts
  Emails = {m, n}
  Phones = {p, q}
  AccountRows = {1, 2, 3}
  AccountDesks = {c, d}
  NoIdentifier = NoIdentifier
  MaxAccountOps = 3
  \* the Zalo token
  Procs = {a, b}
  FirstProc = a
  SecondProc = b
  Senders = {1}
  ProcOf <- HomeOf
  Admins = {c, d}
  MaxChecks = 1
  MaxLinks = 1
  MaxIssued = 2
  MaxGrants = 3
  MaxLost = 1
  \* KPI sheets
  Sheets = {k1, k2}
  Tasks = {t1}
  KpiAsks = {r1}
  KpiDesks = {c, d}
  KpiTargets = {0, 1}
  KpiActuals = {0, 20}
  KpiChoices = {"ACTIVE", "COMPLETED"}
  MaxKpiOps = 5
  NoKpi = NoKpi
  \* chat groups
  GroupIds = {1, 2}
  Folk = {o, a, b}
  Owner = o
  ChatDesks = {c, d}
  Pictures = {f1, f2}
  MaxMembers = 2
  MaxChatOps = 4
  NoChat = NoChat
  NoPicture = NoPicture
SYMMETRY Symmetry
INVARIANTS
  SessionsPromise
  AccountsPromise
  ZaloTokenPromise
  ChatGroupsPromise
PROPERTIES
  EmploymentPromise
  ProgressHolds
  KpiPromise
CHECK_DEADLOCK FALSE
