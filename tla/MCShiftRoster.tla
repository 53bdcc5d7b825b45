---------------------------- MODULE MCShiftRoster ----------------------------
EXTENDS ShiftRoster, TLC

(* Two shifts that overlap, and a third that begins when the first ends.   *)
Morning == [from |-> 0, to |-> 2]
Midday  == [from |-> 1, to |-> 3]
Evening == [from |-> 2, to |-> 4]
TwoShifts   == {Morning, Evening}
ThreeShifts == {Morning, Midday, Evening}

Symmetry ==
  Permutations(Emps) \cup Permutations(Slots) \cup Permutations(Cycles)
    \cup Permutations(Swaps) \cup Permutations(Deciders)
=============================================================================
