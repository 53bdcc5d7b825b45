SPECIFICATION SceneSpec
CONSTANTS
  Procs = {p}
  Accounts = {a, b}
  NoAccount = NoAccount
  MaxEvents = 3
  MaxAttempts = 2
  MaxClaims = 2
  MaxFaults = 1
  Requests = {r1, r2}
  ClientIds = {k, l}
  Contents = {x, y}
  ClearCalls = {c1, c2}
  MaxSeq = 2
  PushIntents = FALSE
SYMMETRY Symmetry
PROPERTY ChatPromise
CHECK_DEADLOCK FALSE
