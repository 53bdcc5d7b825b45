SPECIFICATION DeliverySpec
CONSTANTS
  Procs = {p, q}
  MaxAttempts = 2
  \* the outbox and its push intents
  Accounts = {a}
  NoAccount = NoAccount
  MaxEvents = 1
  MaxClaims = 3
  MaxFaults = 1
  \* the push ledger
  Deliveries = {d}
  Users = {u}
  Rows = {r}
  DeviceIds = {v}
  Tokens = {t}
  NoUser = NoUser
  MaxPushClaims = 4
  MaxPolls = 1
  MaxVersion = 1
  MaxPushFaults = 2
SYMMETRY Symmetry
INVARIANTS OutboxInv PushesMadeOnce
PROPERTIES AtLeastOnce PushesHold
CHECK_DEADLOCK FALSE
