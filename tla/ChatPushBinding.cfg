SPECIFICATION Spec
CONSTANTS
  Procs = {p}
  Deliveries = {d}
  Users = {u1, u2}
  Rows = {r1, r2}
  DeviceIds = {v1, v2}
  Tokens = {t1, t2}
  NoUser = NoUser
  MaxAttempts = 2
  MaxClaims = 2
  MaxPolls = 1
  MaxVersion = 2
  MaxFaults = 2
  Rejections = TRUE
SYMMETRY BindingSymmetry
INVARIANTS AtMostOnce NoCrossAccountPush
PROPERTY NewerBindingSurvives
CHECK_DEADLOCK FALSE
