SPECIFICATION Spec
CONSTANTS
  Emps = {a, b, e}
  Slots = {s}
  Cycles = {c}
  Hours <- TwoShifts
  MaxStaff = {1}
  MaxRows = 1
  Swaps = {v, w}
  Deciders = {x}
  MaxOps = 2
  None = None
PROPERTY TakenFromRequester
CHECK_DEADLOCK FALSE
