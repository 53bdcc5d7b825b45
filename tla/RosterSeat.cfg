SPECIFICATION Spec
CONSTANTS
  Emps = {a}
  Slots = {s}
  Cycles = {c}
  Hours <- TwoShifts
  MaxStaff = {2}
  MaxRows = 3
  Swaps = {}
  Deciders = {}
  MaxOps = 0
  None = None
INVARIANT OneSeatPerSlot
CHECK_DEADLOCK FALSE
