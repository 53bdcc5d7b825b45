SPECIFICATION Spec
CONSTANTS
  Emps = {a, b}
  Slots = {s, t}
  Cycles = {c, d}
  Hours <- TwoShifts
  MaxStaff = {0, 1}
  MaxRows = 2
  Swaps = {w}
  Deciders = {x, y}
  MaxOps = 2
  None = None
SYMMETRY Symmetry
INVARIANT NoDoubleBooking
PROPERTY RosterPromise
CHECK_DEADLOCK FALSE
