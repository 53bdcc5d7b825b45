-------------------------- MODULE ShiftRosterProofs --------------------------
(***************************************************************************)
(* Proofs about ShiftRoster: type correctness with its foreign keys,       *)
(* NoDoubleBooking and RosterPromise, for any number of employees, slots,  *)
(* cycles and hours.                                                       *)
(***************************************************************************)
EXTENDS ShiftRoster, FiniteSetTheorems, TLAPS

(* A set of assignments is finite, so its cardinality is a number.         *)
LEMMA RowsFinite ==
  ASSUME NEW S \in SUBSET Rows
  PROVE  IsFiniteSet(S) /\ Cardinality(S) \in Nat
<1>1. IsFiniteSet(Rows)
  BY FS_Interval, RosterAssumption DEF Rows
<1> QED
  BY <1>1, FS_Subset, FS_CardinalityType

(* The null records have the types of the rows they stand for.             *)
LEMMA NullTypes ==
  /\ NoSlot \in SlotType /\ NoRow \in RowType /\ NoSwap \in SwapType
  /\ NoDec \in DecType /\ NoFix \in FixType
<1>1. AnyHours \in Hours
  BY RosterAssumption DEF AnyHours
<1> QED
  BY <1>1, RosterAssumption
  DEF NoSlot, NoRow, NoSwap, NoDec, NoFix, SlotType, RowType, SwapType, DecType,
      FixType, RowStates, SwapStates

(* What an undecided swap points to.                                       *)
LEMMA PendingSwapRow ==
  ASSUME TypeOK, NEW w \in Swaps, swap[w].st = "PENDING"
  PROVE  /\ swap[w].row \in Rows /\ swap[w].to \in Emps
         /\ row[swap[w].row].emp \in Emps /\ row[swap[w].row].slot \in Slots
         /\ slot[row[swap[w].row].slot].cyc # None
  BY DEF TypeOK, RowKeys, SwapKeys

(* The rows a new schedule inserts: each a seat of a chosen employee in a  *)
(* slot of the schedule.                                                   *)
Inserts(new, seat, es, ss) ==
  /\ seat \in [new -> es \X ss]
  /\ row' = [i \in Rows |->
       IF i \in new THEN [st |-> "APPROVED", emp |-> seat[i][1],
                          slot |-> seat[i][2], in |-> FALSE]
       ELSE row[i]]

(* Creating a schedule inserts such rows.                                  *)
LEMMA ScheduleRows ==
  ASSUME NEW c, NEW ss, NEW plan \in [ss -> Hours], NEW max, NEW es,
         CreateSchedule(c, plan, max, es)
  PROVE  \E new, seat : Inserts(new, seat, es, ss)
<1> DEFINE new == NextRows(Cardinality(es \X DOMAIN plan))
<1>1. PICK seat \in [new -> es \X DOMAIN plan] :
        row' = [i \in Rows |->
          IF i \in new THEN [st |-> "APPROVED", emp |-> seat[i][1],
                             slot |-> seat[i][2], in |-> FALSE]
          ELSE row[i]]
  BY Zenon DEF CreateSchedule
<1> HIDE DEF new
<1>2. seat \in [new -> es \X ss]
  BY <1>1
<1> QED
  BY <1>1, <1>2, Zenon DEF Inserts

(* The empty roster is well typed.                                         *)
LEMMA InitTypeOK == Init => TypeOK
  BY NullTypes, RosterAssumption
  DEF Init, TypeOK, Typed, SlotKeys, RowKeys, SwapKeys, NoSlot, NoRow, NoSwap,
      CycleStates, SeatStates

(* Every operation of the roster keeps types and foreign keys.             *)
LEMMA TypeStep == TypeOK /\ [Next]_vars => TypeOK'
<1> SUFFICES ASSUME TypeOK, [Next]_vars PROVE TypeOK'
  OBVIOUS
<1> USE RosterAssumption
<1>1. ASSUME NEW e \in Emps, NEW s \in Slots, NEW i \in Rows,
             NEW byOwner \in BOOLEAN, Register(e, s, i, byOwner)
      PROVE  TypeOK'
  <2>1. [st |-> IF byOwner THEN "APPROVED" ELSE "PENDING",
         emp |-> e, slot |-> s, in |-> FALSE] \in RowType
    BY DEF RowType, RowStates, SeatStates
  <2>2. Typed'
    BY <1>1, <2>1 DEF TypeOK, Typed, Register, Fresh
  <2>3. SlotKeys'
    BY <1>1, <2>1 DEF TypeOK, Typed, SlotKeys, SlotType, Register, Fresh
  <2>4. RowKeys'
    BY <1>1, <2>1 DEF TypeOK, Typed, RowKeys, RowType, SlotType, SeatStates, Register, Fresh
  <2>5. SwapKeys'
    BY <1>1, <2>1 DEF TypeOK, Typed, SwapKeys, RowType, SwapType, SeatStates, Register, Fresh
  <2> QED
    BY <2>2, <2>3, <2>4, <2>5 DEF TypeOK
<1>2. ASSUME NEW e \in Emps, NEW s \in Slots, NEW i \in Rows, FixedSlot(e, s, i)
      PROVE  TypeOK'
  <2>1. [st |-> "PENDING", emp |-> e, slot |-> s, in |-> FALSE] \in RowType
    BY DEF RowType, RowStates, SeatStates
  <2>2. [want |-> fix[e].want \ {s}, locked |-> fix[e].want \ {s} # {}] \in FixType
    BY DEF TypeOK, Typed, FixType
  <2>3. /\ fix' = [fix EXCEPT ![e] =
             [want |-> fix[e].want \ {s}, locked |-> fix[e].want \ {s} # {}]]
        /\ UNCHANGED <<cyc, slot, swap, dec, doomed, ops, unchecked>>
    BY <1>2 DEF FixedSlot
  <2>4. CASE row' = row
    BY <2>2, <2>3, <2>4 DEF TypeOK, Typed, SlotKeys, RowKeys, SwapKeys
  <2>5. CASE row' # row
    <3>1. /\ slot[s].cyc # None /\ row[i].st = "none"
          /\ row' = [row EXCEPT ![i] =
               [st |-> "PENDING", emp |-> e, slot |-> s, in |-> FALSE]]
      BY <1>2, <2>5 DEF FixedSlot, Fresh
    <3>2. Typed'
      BY <2>1, <2>2, <2>3, <3>1 DEF TypeOK, Typed
    <3>3. SlotKeys' /\ RowKeys'
      BY <2>3, <3>1 DEF TypeOK, Typed, SlotKeys, RowKeys
    <3>4. SwapKeys'
      BY <2>3, <3>1 DEF TypeOK, Typed, SwapKeys, SeatStates
    <3> QED
      BY <3>2, <3>3, <3>4 DEF TypeOK
  <2> QED
    BY <2>4, <2>5
<1>3. ASSUME NEW e \in Emps, NEW c \in Cycles, NEW ss \in SUBSET Slots,
             FixedRead(e, c, ss)
      PROVE  TypeOK'
  <2>1. [fix[e] EXCEPT !.want = ss] \in FixType
    BY DEF TypeOK, Typed, FixType
  <2>2. Typed'
    BY <1>3, <2>1 DEF TypeOK, Typed, FixedRead, Op
  <2>3. SlotKeys'
    BY <1>3, <2>1 DEF TypeOK, Typed, SlotKeys, SlotType, FixedRead, Op
  <2>4. RowKeys'
    BY <1>3, <2>1 DEF TypeOK, Typed, RowKeys, RowType, SlotType, SeatStates, FixedRead, Op
  <2>5. SwapKeys'
    BY <1>3, <2>1 DEF TypeOK, Typed, SwapKeys, RowType, SwapType, SeatStates, FixedRead, Op
  <2> QED
    BY <2>2, <2>3, <2>4, <2>5 DEF TypeOK
<1>4. ASSUME NEW e \in Emps, NEW is \in SUBSET Rows, WithdrawRead(e, is)
      PROVE  TypeOK'
  <2>1. Typed'
    BY <1>4 DEF TypeOK, Typed, WithdrawRead, Op
  <2>2. SlotKeys'
    BY <1>4 DEF TypeOK, Typed, SlotKeys, SlotType, WithdrawRead, Op
  <2>3. RowKeys'
    BY <1>4 DEF TypeOK, Typed, RowKeys, RowType, SlotType, SeatStates, WithdrawRead, Op
  <2>4. SwapKeys'
    BY <1>4 DEF TypeOK, Typed, SwapKeys, RowType, SwapType, SeatStates, WithdrawRead, Op
  <2> QED
    BY <2>1, <2>2, <2>3, <2>4 DEF TypeOK
<1>5. ASSUME NEW e \in Emps, WithdrawWrite(e)
      PROVE  TypeOK'
  <2>1. \A i \in Rows : [row[i] EXCEPT !.st = "CANCELLED"] \in RowType
    BY DEF RowType, RowStates, SeatStates, TypeOK, Typed
  <2>2. Typed'
    BY <1>5, <2>1 DEF TypeOK, Typed, WithdrawWrite
  <2>3. SlotKeys'
    BY <1>5, <2>1 DEF TypeOK, Typed, SlotKeys, SlotType, WithdrawWrite
  <2>4. RowKeys'
    BY <1>5, <2>1 DEF TypeOK, Typed, RowKeys, RowType, SlotType, SeatStates, WithdrawWrite
  <2>5. SwapKeys'
    BY <1>5, <2>1 DEF TypeOK, Typed, SwapKeys, RowType, SwapType, SeatStates, WithdrawWrite
  <2> QED
    BY <2>2, <2>3, <2>4, <2>5 DEF TypeOK
<1>6. ASSUME NEW i \in Rows, NEW next \in {"APPROVED", "CONFIRMED", "CANCELLED"},
             UpdateAssignmentStatus(i, next) \/ ProcessRegister(i, next)
      PROVE  TypeOK'
  <2>1. [row[i] EXCEPT !.st = next] \in RowType
    BY DEF RowType, RowStates, SeatStates, TypeOK, Typed
  <2>2. Typed'
    BY <1>6, <2>1 DEF TypeOK, Typed, UpdateAssignmentStatus, ProcessRegister
  <2>3. SlotKeys'
    BY <1>6, <2>1 DEF TypeOK, Typed, SlotKeys, SlotType, UpdateAssignmentStatus, ProcessRegister
  <2>4. RowKeys'
    <3>1. /\ row[i].st \in SeatStates /\ row' = [row EXCEPT ![i].st = next]
          /\ slot' = slot
      BY <1>6 DEF UpdateAssignmentStatus, ProcessRegister, SeatStates
    <3> QED
      BY <3>1, <2>1 DEF TypeOK, Typed, RowKeys, RowType
  <2>5. SwapKeys'
    <3>1. /\ row' = [row EXCEPT ![i].st = next] /\ swap' = swap
          /\ row[i] \in RowType /\ row \in [Rows -> RowType]
      BY <1>6 DEF TypeOK, Typed, UpdateAssignmentStatus, ProcessRegister
    <3>2. \A j \in Rows : row'[j].st = IF j = i THEN next ELSE row[j].st
      BY <3>1 DEF RowType
    <3> QED
      BY <3>1, <3>2 DEF TypeOK, SwapKeys, SeatStates
  <2> QED
    BY <2>2, <2>3, <2>4, <2>5 DEF TypeOK
<1>7. ASSUME NEW i \in Rows, CheckIn(i) \/ CheckOut(i)
      PROVE  TypeOK'
  <2>1. PICK r \in RowType :
          /\ r.st \in SeatStates /\ r.emp = row[i].emp /\ r.slot = row[i].slot
          /\ row' = [row EXCEPT ![i] = r]
    <3>1. CASE CheckIn(i)
      <4> DEFINE r == [row[i] EXCEPT !.st = "CONFIRMED", !.in = TRUE]
      <4>1. r \in RowType /\ r.st \in SeatStates
            /\ r.emp = row[i].emp /\ r.slot = row[i].slot
        BY DEF RowType, RowStates, SeatStates, TypeOK, Typed
      <4>2. row' = [row EXCEPT ![i] = r]
        BY <3>1 DEF CheckIn, TypeOK, Typed, RowType
      <4> QED
        BY <4>1, <4>2
    <3>2. CASE CheckOut(i)
      <4> DEFINE r == [row[i] EXCEPT !.st = "COMPLETED"]
      <4>1. r \in RowType /\ r.st \in SeatStates
            /\ r.emp = row[i].emp /\ r.slot = row[i].slot
        BY DEF RowType, RowStates, SeatStates, TypeOK, Typed
      <4>2. row' = [row EXCEPT ![i] = r]
        BY <3>2 DEF CheckOut, TypeOK, Typed, RowType
      <4> QED
        BY <4>1, <4>2
    <3> QED
      BY <1>7, <3>1, <3>2
  <2>2. row[i].st \in SeatStates
        /\ UNCHANGED <<cyc, slot, swap, dec, fix, doomed, ops, unchecked>>
    BY <1>7 DEF CheckIn, CheckOut, SeatStates
  <2>3. Typed'
    BY <2>1, <2>2 DEF TypeOK, Typed
  <2>4. SlotKeys' /\ RowKeys'
    BY <2>1, <2>2 DEF TypeOK, Typed, SlotKeys, RowKeys
  <2>5. SwapKeys'
    BY <2>1, <2>2 DEF TypeOK, Typed, SwapKeys
  <2> QED
    BY <2>3, <2>4, <2>5 DEF TypeOK
<1>8. ASSUME NEW w \in Swaps, NEW i \in Rows, NEW to \in Emps, CreateSwap(w, i, to)
      PROVE  TypeOK'
  <2>1. row[i].emp \in Emps
    BY <1>8 DEF CreateSwap, Seated, TypeOK, RowKeys
  <2>2. [st |-> "PENDING", row |-> i, by |-> row[i].emp, to |-> to] \in SwapType
    BY <2>1 DEF SwapType, SwapStates, Rows
  <2>3. Typed'
    BY <1>8, <2>1, <2>2 DEF TypeOK, Typed, CreateSwap, Seated
  <2>4. SlotKeys'
    BY <1>8, <2>1, <2>2 DEF TypeOK, Typed, SlotKeys, SlotType, CreateSwap, Seated
  <2>5. RowKeys'
    BY <1>8, <2>1, <2>2 DEF TypeOK, Typed, RowKeys, RowType, SlotType, SeatStates, CreateSwap, Seated
  <2>6. SwapKeys'
    BY <1>8, <2>1, <2>2 DEF TypeOK, Typed, SwapKeys, RowType, SwapType, SeatStates, CreateSwap, Seated
  <2> QED
    BY <2>3, <2>4, <2>5, <2>6 DEF TypeOK
<1>9. ASSUME NEW d \in Deciders, NEW w \in Swaps,
             NEW answer \in {"APPROVED", "REJECTED"},
             NEW route \in {"update", "process"}, DecideRead(d, w, answer, route)
      PROVE  TypeOK'
  <2>1. row[swap[w].row].emp \in Emps /\ slot[row[swap[w].row].slot].hours \in Hours
    BY <1>9, PendingSwapRow DEF DecideRead, TypeOK, Typed, SlotType
  <2>2. [w |-> w, to |-> answer, route |-> route, emp |-> row[swap[w].row].emp,
         hours |-> slot[row[swap[w].row].slot].hours] \in DecType
    BY <2>1 DEF DecType
  <2>3. Typed'
    BY <1>9, <2>1, <2>2 DEF TypeOK, Typed, DecideRead, Op
  <2>4. SlotKeys'
    BY <1>9, <2>1, <2>2 DEF TypeOK, Typed, SlotKeys, SlotType, DecideRead, Op
  <2>5. RowKeys'
    BY <1>9, <2>1, <2>2 DEF TypeOK, Typed, RowKeys, RowType, SlotType, SeatStates, DecideRead, Op
  <2>6. SwapKeys'
    BY <1>9, <2>1, <2>2 DEF TypeOK, Typed, SwapKeys, RowType, SwapType, SeatStates, DecideRead, Op
  <2> QED
    BY <2>3, <2>4, <2>5, <2>6 DEF TypeOK
<1>10. ASSUME NEW d \in Deciders, DecideWrite(d)
      PROVE  TypeOK'
  <2>1. dec[d].w \in Swaps /\ NoDec \in DecType
    BY <1>10, NullTypes DEF DecideWrite, TypeOK, Typed, DecType
  <2>2. swap[dec[d].w].row \in Rows /\ swap[dec[d].w].to \in Emps
    BY <1>10, <2>1, PendingSwapRow DEF DecideWrite
  <2>3. [swap[dec[d].w] EXCEPT !.st = "APPROVED"] \in SwapType
    BY <2>1 DEF TypeOK, Typed, SwapType, SwapStates
  <2>4. [row[swap[dec[d].w].row] EXCEPT !.emp = swap[dec[d].w].to] \in RowType
    BY <2>2 DEF TypeOK, Typed, RowType
  <2>5. Typed'
    BY <1>10, <2>1, <2>2, <2>3, <2>4 DEF TypeOK, Typed, DecideWrite
  <2>6. SlotKeys'
    BY <1>10, <2>1, <2>2, <2>3, <2>4 DEF TypeOK, Typed, SlotKeys, SlotType, DecideWrite
  <2>7. RowKeys'
    BY <1>10, <2>1, <2>2, <2>3, <2>4 DEF TypeOK, Typed, RowKeys, RowType, SlotType, SeatStates, DecideWrite
  <2>8. SwapKeys'
    BY <1>10, <2>1, <2>2, <2>3, <2>4 DEF TypeOK, Typed, SwapKeys, RowType, SwapType, SeatStates, DecideWrite
  <2> QED
    BY <2>5, <2>6, <2>7, <2>8 DEF TypeOK
<1>11. ASSUME NEW d \in Deciders, DecideReject(d)
      PROVE  TypeOK'
  <2>1. dec[d].w \in Swaps /\ NoDec \in DecType
    BY <1>11, NullTypes DEF DecideReject, TypeOK, Typed, DecType
  <2>2. [swap[dec[d].w] EXCEPT !.st = "REJECTED"] \in SwapType
    BY <2>1 DEF TypeOK, Typed, SwapType, SwapStates
  <2>3. Typed'
    BY <1>11, <2>1, <2>2 DEF TypeOK, Typed, DecideReject
  <2>4. SlotKeys'
    BY <1>11, <2>1, <2>2 DEF TypeOK, Typed, SlotKeys, SlotType, DecideReject
  <2>5. RowKeys'
    BY <1>11, <2>1, <2>2 DEF TypeOK, Typed, RowKeys, RowType, SlotType, SeatStates, DecideReject
  <2>6. SwapKeys'
    BY <1>11, <2>1, <2>2 DEF TypeOK, Typed, SwapKeys, RowType, SwapType, SeatStates, DecideReject
  <2> QED
    BY <2>3, <2>4, <2>5, <2>6 DEF TypeOK
<1>12. ASSUME NEW d \in Deciders, DecideRefused(d)
      PROVE  TypeOK'
  <2>1. NoDec \in DecType
    BY NullTypes
  <2>2. Typed'
    BY <1>12, <2>1 DEF TypeOK, Typed, DecideRefused
  <2>3. SlotKeys'
    BY <1>12, <2>1 DEF TypeOK, Typed, SlotKeys, SlotType, DecideRefused
  <2>4. RowKeys'
    BY <1>12, <2>1 DEF TypeOK, Typed, RowKeys, RowType, SlotType, SeatStates, DecideRefused
  <2>5. SwapKeys'
    BY <1>12, <2>1 DEF TypeOK, Typed, SwapKeys, RowType, SwapType, SeatStates, DecideRefused
  <2> QED
    BY <2>2, <2>3, <2>4, <2>5 DEF TypeOK
<1>13. ASSUME NEW s \in Slots, NEW h \in Hours, NEW max \in MaxStaff,
              UpdateSlot(s, h, max)
      PROVE  TypeOK'
  <2>1. [slot[s] EXCEPT !.hours = h, !.max = max] \in SlotType
    BY DEF TypeOK, Typed, SlotType
  <2>2. Typed'
    BY <1>13, <2>1 DEF TypeOK, Typed, UpdateSlot, Op
  <2>3. SlotKeys'
    BY <1>13, <2>1 DEF TypeOK, Typed, SlotKeys, SlotType, UpdateSlot, Op
  <2>4. RowKeys'
    BY <1>13, <2>1 DEF TypeOK, Typed, RowKeys, RowType, SlotType, SeatStates, UpdateSlot, Op
  <2>5. SwapKeys'
    BY <1>13, <2>1 DEF TypeOK, Typed, SwapKeys, RowType, SwapType, SeatStates, UpdateSlot, Op
  <2> QED
    BY <2>2, <2>3, <2>4, <2>5 DEF TypeOK
<1>14. ASSUME NEW i \in Rows, NEW h \in Hours, NEW t \in Slots,
              UpdateAssignmentTime(i, h, t)
      PROVE  TypeOK'
  <2> DEFINE s      == row[i].slot
             others == Cardinality(Seats(s) \ {i})
             left   == IF slot[s].max - 1 > others THEN slot[s].max - 1
                       ELSE IF others > 1 THEN others ELSE 1
  <2>1. s \in Slots /\ slot[s].cyc \in Cycles /\ slot[s].cyc # None
        /\ slot[s].max \in Nat
    BY <1>14 DEF UpdateAssignmentTime, TypeOK, Typed, RowKeys, SeatStates, SlotType
  <2>2. others \in Nat
    BY RowsFinite DEF Seats
  <2>3. left \in Nat
    BY <2>1, <2>2
  <2>4. [slot[s] EXCEPT !.hours = h] \in SlotType
    BY <2>1 DEF TypeOK, Typed, SlotType
  <2>5. [slot[s] EXCEPT !.max = IF @ = 0 THEN 0 ELSE left] \in SlotType
    BY <2>1, <2>3 DEF TypeOK, Typed, SlotType
  <2>6. [cyc |-> slot[s].cyc, hours |-> h, max |-> 1] \in SlotType
    BY <2>1 DEF SlotType
  <2>7. [row[i] EXCEPT !.slot = t] \in RowType
    BY DEF TypeOK, Typed, RowType
  <2>8. CASE others = 0 /\ slot[s].max = 1
    <3>1. /\ slot' = [slot EXCEPT ![s].hours = h] /\ row' = row
          /\ UNCHANGED <<cyc, swap, dec, fix, doomed, unchecked>>
          /\ ops' = ops + 1 /\ ops < MaxOps
      BY <1>14, <2>8 DEF UpdateAssignmentTime, Op
    <3> HIDE DEF others, left
    <3>2. Typed'
      BY <3>1, <2>1, <2>4 DEF TypeOK, Typed
    <3>3. SlotKeys' /\ RowKeys' /\ SwapKeys'
      BY <3>1, <2>1 DEF TypeOK, Typed, SlotKeys, RowKeys, SwapKeys, SlotType
    <3> QED
      BY <3>2, <3>3 DEF TypeOK
  <2>9. CASE ~(others = 0 /\ slot[s].max = 1)
    <3>1. /\ slot[t].cyc = None
          /\ slot' = [slot EXCEPT
               ![t] = [cyc |-> slot[s].cyc, hours |-> h, max |-> 1],
               ![s].max = IF @ = 0 THEN 0 ELSE left]
          /\ row' = [row EXCEPT ![i].slot = t]
          /\ UNCHANGED <<cyc, swap, dec, fix, doomed, unchecked>>
          /\ ops' = ops + 1 /\ ops < MaxOps
      BY <1>14, <2>9 DEF UpdateAssignmentTime, Op
    <3> HIDE DEF others, left
    <3>2. t # s
      BY <3>1, <2>1
    <3>3. Typed'
      BY <3>1, <3>2, <2>1, <2>5, <2>6, <2>7 DEF TypeOK, Typed
    <3>4. SlotKeys'
      BY <3>1, <3>2, <2>1 DEF TypeOK, Typed, SlotKeys, SlotType
    <3>5. RowKeys'
      <4>1. /\ \A j \in Rows \ {i} : row'[j] = row[j]
            /\ row'[i].st = row[i].st /\ row'[i].emp = row[i].emp /\ row'[i].slot = t
        BY <3>1 DEF TypeOK, Typed, RowType
      <4>2. /\ slot'[t].cyc # None
            /\ \A u \in Slots : slot[u].cyc # None => slot'[u].cyc # None
        BY <3>1, <3>2, <2>1 DEF TypeOK, Typed, SlotType
      <4> QED
        BY <4>1, <4>2 DEF TypeOK, RowKeys
    <3>6. SwapKeys'
      BY <3>1 DEF TypeOK, Typed, SwapKeys, RowType, SwapType
    <3> QED
      BY <3>3, <3>4, <3>5, <3>6 DEF TypeOK
  <2> QED
    BY <2>8, <2>9
<1>15. ASSUME NEW s \in Slots, DeleteSlot(s)
      PROVE  TypeOK'
  <2>1. NoSlot \in SlotType /\ [NoRow EXCEPT !.st = "DELETED"] \in RowType
    BY NullTypes DEF NoRow, RowType, RowStates
  <2>2. \A w \in Swaps : [swap[w] EXCEPT !.st = "DELETED"] \in SwapType
    BY DEF TypeOK, Typed, SwapType, SwapStates
  <2>3. Typed'
    BY <1>15, <2>1, <2>2 DEF TypeOK, Typed, DeleteSlot, Op, NoSlot, NoRow
  <2>4. SlotKeys'
    BY <1>15, <2>1, <2>2 DEF TypeOK, Typed, SlotKeys, SlotType, DeleteSlot, Op, NoSlot, NoRow
  <2>5. RowKeys'
    BY <1>15, <2>1, <2>2 DEF TypeOK, Typed, RowKeys, RowType, SlotType, SeatStates, DeleteSlot, Op, NoSlot, NoRow
  <2>6. SwapKeys'
    BY <1>15, <2>1, <2>2 DEF TypeOK, Typed, SwapKeys, RowType, SwapType, SeatStates, DeleteSlot, Op, NoSlot, NoRow
  <2> QED
    BY <2>3, <2>4, <2>5, <2>6 DEF TypeOK
<1>16. ASSUME NEW c \in Cycles, StopCycle(c) \/ ExpireCycle(c) \/ ActivateCycle(c)
      PROVE  TypeOK'
  <2>1. Typed'
    BY <1>16 DEF TypeOK, Typed, StopCycle, ExpireCycle, ActivateCycle, Op, CycleStates
  <2>2. SlotKeys'
    BY <1>16 DEF TypeOK, Typed, SlotKeys, SlotType, StopCycle, ExpireCycle, ActivateCycle, Op, CycleStates
  <2>3. RowKeys'
    BY <1>16 DEF TypeOK, Typed, RowKeys, RowType, SlotType, SeatStates, StopCycle, ExpireCycle, ActivateCycle, Op, CycleStates
  <2>4. SwapKeys'
    BY <1>16 DEF TypeOK, Typed, SwapKeys, RowType, SwapType, SeatStates, StopCycle, ExpireCycle, ActivateCycle, Op, CycleStates
  <2> QED
    BY <2>1, <2>2, <2>3, <2>4 DEF TypeOK
<1>17. ASSUME NEW c \in Cycles, NEW ss \in SUBSET Slots, NEW plan \in [ss -> Hours],
              NEW max \in MaxStaff, NEW es \in SUBSET Emps,
              CreateSchedule(c, plan, max, es)
      PROVE  TypeOK'
  <2>0. PICK new, seat : Inserts(new, seat, es, ss)
    BY <1>17, ScheduleRows
  <2>1. /\ seat \in [new -> es \X ss]
        /\ row' = [i \in Rows |->
             IF i \in new THEN [st |-> "APPROVED", emp |-> seat[i][1],
                                slot |-> seat[i][2], in |-> FALSE]
             ELSE row[i]]
    BY <2>0, Zenon DEF Inserts
  <2>2. /\ cyc' = [cyc EXCEPT ![c] = "ACTIVE"]
        /\ slot' = [s \in Slots |->
             IF s \in ss THEN [cyc |-> c, hours |-> plan[s], max |-> max]
             ELSE slot[s]]
        /\ \A s \in ss : slot[s].cyc = None
        /\ UNCHANGED <<swap, dec, fix, doomed, ops, unchecked>>
    BY <1>17 DEF CreateSchedule
  <2>3. \A i \in new : [st |-> "APPROVED", emp |-> seat[i][1],
                        slot |-> seat[i][2], in |-> FALSE] \in RowType
    BY <2>1 DEF RowType, RowStates, SeatStates
  <2>4. \A s \in ss : [cyc |-> c, hours |-> plan[s], max |-> max] \in SlotType
    BY DEF SlotType
  <2>5. Typed'
    BY <2>1, <2>2, <2>3, <2>4 DEF TypeOK, Typed, CycleStates
  <2>6. SlotKeys'
    BY <2>2, <1>17 DEF TypeOK, Typed, SlotKeys, SlotType
  <2>7. RowKeys'
    BY <2>1, <2>2 DEF TypeOK, Typed, RowKeys, SlotType, RowType, SeatStates
  <2>8. SwapKeys'
    BY <2>1, <2>2 DEF TypeOK, Typed, SwapKeys, SwapType, SeatStates
  <2> QED
    BY <2>5, <2>6, <2>7, <2>8 DEF TypeOK
<1>18. CASE UNCHANGED vars
  BY <1>18 DEF TypeOK, Typed, SlotKeys, RowKeys, SwapKeys, vars
<1> QED
  BY <1>1, <1>2, <1>3, <1>4, <1>5, <1>6, <1>7, <1>8, <1>9, <1>10, <1>11, <1>12,
     <1>13, <1>14, <1>15, <1>16, <1>17, <1>18
  DEF Next, Registering, Working, Swapping, Editing

(* The rows of the roster keep their types and foreign keys in every       *)
(* interleaving of registrations, swaps, attendance and edits.             *)
THEOREM TypeCorrect == Spec => []TypeOK
<1> QED
  BY InitTypeOK, TypeStep, PTL DEF Spec

(* A step that books nobody twice anew keeps NoDoubleBooking.              *)
LEMMA NothingBooked ==
  ASSUME NoDoubleBooking, unchecked \subseteq unchecked',
         \A i, j \in Rows : DoubleBooked(i, j)' =>
           DoubleBooked(i, j) \/ i \in unchecked' \/ j \in unchecked'
  PROVE  NoDoubleBooking'
  BY DEF NoDoubleBooking

(* A step that changes one row k, and puts it at a time that overlaps none *)
(* of its employee's other seats, keeps NoDoubleBooking.                   *)
LEMMA OneBooked ==
  ASSUME NoDoubleBooking, NEW k \in Rows,
         UNCHANGED <<cyc, slot>>, unchecked \subseteq unchecked',
         \A i \in Rows \ {k} : row'[i] = row[i],
         \A j \in Rows \ {k} :
           /\ Seated(j) /\ row[j].emp = row'[k].emp
           /\ row[j].slot # row'[k].slot
           /\ cyc[slot[row[j].slot].cyc] = "ACTIVE"
           => ~Overlap(slot[row'[k].slot].hours, slot[row[j].slot].hours)
  PROVE  NoDoubleBooking'
<1>1. ASSUME NEW i \in Rows, NEW j \in Rows, DoubleBooked(i, j)'
      PROVE  DoubleBooked(i, j)
  <2>1. CASE i # k /\ j # k
    BY <1>1, <2>1 DEF DoubleBooked, Seated
  <2>2. CASE i = k
    BY <1>1, <2>2 DEF DoubleBooked, Seated, Overlap
  <2>3. CASE j = k
    BY <1>1, <2>3 DEF DoubleBooked, Seated, Overlap
  <2> QED
    BY <2>1, <2>2, <2>3
<1> QED
  BY <1>1, NothingBooked

(* Nobody is booked in the empty roster.                                   *)
LEMMA InitNoDoubleBooking == Init => NoDoubleBooking
  BY DEF Init, NoDoubleBooking, DoubleBooked, Seated, SeatStates, NoRow

(* Every operation of the roster keeps NoDoubleBooking.                    *)
LEMMA BookingStep == TypeOK /\ NoDoubleBooking /\ [Next]_vars => NoDoubleBooking'
<1> SUFFICES ASSUME TypeOK, NoDoubleBooking, [Next]_vars PROVE NoDoubleBooking'
  OBVIOUS
<1>1. ASSUME NEW e \in Emps, NEW s \in Slots, NEW i \in Rows,
             NEW byOwner \in BOOLEAN, Register(e, s, i, byOwner)
      PROVE  NoDoubleBooking'
  <2>1. /\ row'[i].emp = e /\ row'[i].slot = s
        /\ \A j \in Rows \ {i} : row'[j] = row[j]
        /\ UNCHANGED <<cyc, slot, unchecked>>
    BY <1>1 DEF Register, TypeOK, Typed
  <2>2. \A j \in Rows : Seated(j) /\ row[j].emp = e /\ row[j].slot # s
                        /\ cyc[slot[row[j].slot].cyc] = "ACTIVE"
          => ~Overlap(slot[s].hours, slot[row[j].slot].hours)
    BY <1>1 DEF Register, Conflict, Live
  <2> QED
    BY <2>1, <2>2, OneBooked
<1>2. ASSUME NEW e \in Emps, NEW s \in Slots, NEW i \in Rows, FixedSlot(e, s, i)
      PROVE  NoDoubleBooking'
  <2>1. UNCHANGED <<cyc, slot, unchecked>>
    BY <1>2 DEF FixedSlot
  <2>2. CASE row' = row
    BY <2>1, <2>2, NothingBooked DEF DoubleBooked, Seated
  <2>3. CASE row' # row
    <3>1. /\ row'[i].emp = e /\ row'[i].slot = s
          /\ \A j \in Rows \ {i} : row'[j] = row[j]
      BY <1>2, <2>3 DEF FixedSlot, TypeOK, Typed
    <3>2. \A j \in Rows : Seated(j) /\ row[j].emp = e /\ row[j].slot # s
                          /\ cyc[slot[row[j].slot].cyc] = "ACTIVE"
            => ~Overlap(slot[s].hours, slot[row[j].slot].hours)
      BY <1>2, <2>3 DEF FixedSlot, Conflict, Live
    <3> QED
      BY <2>1, <3>1, <3>2, OneBooked
  <2> QED
    BY <2>2, <2>3
<1>3. ASSUME NEW e \in Emps, WithdrawWrite(e)
      PROVE  NoDoubleBooking'
  <2>1. \A j \in Rows : Seated(j)' => row'[j] = row[j]
    BY <1>3 DEF WithdrawWrite, Seated, SeatStates, TypeOK, Typed, RowType
  <2>2. UNCHANGED <<cyc, slot, unchecked>>
    BY <1>3 DEF WithdrawWrite
  <2> QED
    BY <2>1, <2>2, NothingBooked DEF DoubleBooked, Seated
<1>4. ASSUME NEW i \in Rows, NEW next \in {"APPROVED", "CONFIRMED", "CANCELLED"},
             \/ UpdateAssignmentStatus(i, next) \/ ProcessRegister(i, next)
             \/ CheckIn(i) \/ CheckOut(i)
      PROVE  NoDoubleBooking'
  <2>1. /\ row[i].st \in SeatStates
        /\ row'[i].emp = row[i].emp /\ row'[i].slot = row[i].slot
        /\ \A j \in Rows \ {i} : row'[j] = row[j]
    BY <1>4 DEF UpdateAssignmentStatus, ProcessRegister, CheckIn, CheckOut,
                SeatStates, TypeOK, Typed, RowType
  <2>2. UNCHANGED <<cyc, slot, unchecked>>
    BY <1>4 DEF UpdateAssignmentStatus, ProcessRegister, CheckIn, CheckOut
  <2> QED
    BY <2>1, <2>2, NothingBooked DEF DoubleBooked, Seated
<1>5. ASSUME NEW d \in Deciders, DecideWrite(d)
      PROVE  NoDoubleBooking'
  <2> DEFINE w == dec[d].w
             i == swap[w].row
  <2>1. w \in Swaps /\ i \in Rows
    BY <1>5, PendingSwapRow DEF DecideWrite, TypeOK, Typed, DecType
  <2>2. /\ row'[i].emp = swap[w].to /\ row'[i].slot = row[i].slot
        /\ \A j \in Rows \ {i} : row'[j] = row[j]
        /\ UNCHANGED <<cyc, slot>> /\ unchecked \subseteq unchecked'
    BY <1>5, <2>1 DEF DecideWrite, TypeOK, Typed, RowType
  <2>3. CASE i \in unchecked'
    BY <2>1, <2>2, <2>3, NothingBooked DEF DoubleBooked, Seated
  <2>4. CASE i \notin unchecked'
    <3>1. \A j \in Rows \ {i} : Seated(j) /\ row[j].emp = swap[w].to
              /\ cyc[slot[row[j].slot].cyc] = "ACTIVE"
            => ~Overlap(slot[row[i].slot].hours, slot[row[j].slot].hours)
      <4>1. dec[d].route = "update" /\ dec[d].hours = slot[row[i].slot].hours
        BY <1>5, <2>1, <2>4 DEF DecideWrite, TypeOK, Typed, DecType
      <4> QED
        BY <1>5, <4>1 DEF DecideWrite, Conflict, Live
    <3> HIDE DEF w, i
    <3> QED
      BY <2>1, <2>2, <3>1, OneBooked
  <2> QED
    BY <2>3, <2>4
<1>6. ASSUME NEW s \in Slots, NEW h \in Hours, NEW max \in MaxStaff,
             UpdateSlot(s, h, max)
      PROVE  NoDoubleBooking'
  <2>1. /\ slot'[s].cyc = slot[s].cyc /\ slot'[s].hours = h
        /\ \A t \in Slots \ {s} : slot'[t] = slot[t]
        /\ UNCHANGED <<cyc, row, unchecked>>
    BY <1>6 DEF UpdateSlot, TypeOK, Typed, SlotType
  <2>2. \A k \in Rows : Seated(k) => row[k].slot \in Slots
    BY DEF Seated, TypeOK, RowKeys
  <2>3. CASE h = slot[s].hours
    BY <2>1, <2>2, <2>3, NothingBooked DEF DoubleBooked, Seated
  <2>4. CASE h # slot[s].hours
    <3>1. \A k, l \in Rows :
            /\ Seated(k) /\ Seated(l) /\ row[k].emp = row[l].emp
            /\ row[k].slot = s /\ row[l].slot # s
            /\ cyc[slot[row[l].slot].cyc] = "ACTIVE"
            => ~Overlap(h, slot[row[l].slot].hours)
      BY <1>6, <2>4 DEF UpdateSlot, Conflict, Live, Seats
    <3>2. ASSUME NEW k \in Rows, NEW l \in Rows, DoubleBooked(k, l)'
          PROVE  DoubleBooked(k, l)
      BY <2>1, <2>2, <3>1, <3>2 DEF DoubleBooked, Seated, Overlap
    <3> QED
      BY <2>1, <3>2, NothingBooked
  <2> QED
    BY <2>3, <2>4
<1>7. ASSUME NEW i \in Rows, NEW h \in Hours, NEW t \in Slots,
             UpdateAssignmentTime(i, h, t)
      PROVE  NoDoubleBooking'
  <2> DEFINE s == row[i].slot
  <2>1. /\ s \in Slots /\ slot[s].cyc # None
        /\ \A k \in Rows : Seated(k) =>
             row[k].slot \in Slots /\ slot[row[k].slot].cyc # None
    BY <1>7 DEF UpdateAssignmentTime, TypeOK, RowKeys, Seated, SeatStates
  <2>2. \A j \in Rows \ {i} : Seated(j) /\ row[j].emp = row[i].emp
            /\ cyc[slot[row[j].slot].cyc] = "ACTIVE"
          => ~Overlap(h, slot[row[j].slot].hours)
    BY <1>7 DEF UpdateAssignmentTime, Conflict
  <2>3. UNCHANGED <<cyc, unchecked>>
    BY <1>7 DEF UpdateAssignmentTime
  <2>4. CASE Cardinality(Seats(s) \ {i}) = 0 /\ slot[s].max = 1
    <3>1. slot' = [slot EXCEPT ![s].hours = h] /\ row' = row
      BY <1>7, <2>4 DEF UpdateAssignmentTime
    <3>2. Seats(s) \ {i} = {}
      BY <2>4, RowsFinite, FS_EmptySet DEF Seats
    <3>3. \A j \in Rows \ {i} : Seated(j) => row[j].slot # s
      BY <3>2 DEF Seats
    <3>4. /\ slot'[s].cyc = slot[s].cyc /\ slot'[s].hours = h
          /\ \A u \in Slots \ {s} : slot'[u] = slot[u]
      BY <2>1, <3>1 DEF TypeOK, Typed, SlotType
    <3>5. ASSUME NEW k \in Rows, NEW l \in Rows, DoubleBooked(k, l)'
          PROVE  DoubleBooked(k, l)
      BY <2>1, <2>2, <2>3, <3>1, <3>3, <3>4, <3>5 DEF DoubleBooked, Seated, Overlap
    <3> QED
      BY <2>3, <3>5, NothingBooked
  <2>5. CASE ~(Cardinality(Seats(s) \ {i}) = 0 /\ slot[s].max = 1)
    <3>1. slot[t].cyc = None /\ t # s
      BY <1>7, <2>1, <2>5 DEF UpdateAssignmentTime
    <3>2. /\ \A u \in Slots \ {t} : slot'[u].hours = slot[u].hours
                                   /\ slot'[u].cyc = slot[u].cyc
          /\ slot'[t].hours = h /\ slot'[t].cyc = slot[s].cyc
      BY <1>7, <2>1, <2>5, <3>1 DEF UpdateAssignmentTime, TypeOK, Typed, SlotType
    <3>3. /\ row'[i].slot = t /\ row'[i].emp = row[i].emp
          /\ row'[i].st = row[i].st
          /\ \A j \in Rows \ {i} : row'[j] = row[j]
      BY <1>7, <2>5 DEF UpdateAssignmentTime, TypeOK, Typed, RowType
    <3>4. ASSUME NEW k \in Rows, NEW l \in Rows, DoubleBooked(k, l)'
          PROVE  DoubleBooked(k, l)
      BY <2>1, <2>2, <2>3, <3>1, <3>2, <3>3, <3>4 DEF DoubleBooked, Seated, Overlap
    <3> QED
      BY <2>3, <3>4, NothingBooked
  <2> QED
    BY <2>4, <2>5
<1>8. ASSUME NEW s \in Slots, DeleteSlot(s)
      PROVE  NoDoubleBooking'
  <2>1. \A j \in Rows : Seated(j)' => row'[j] = row[j] /\ row[j].slot # s
    BY <1>8 DEF DeleteSlot, Seated, SeatStates, NoRow
  <2>2. /\ \A t \in Slots \ {s} : slot'[t] = slot[t]
        /\ UNCHANGED <<cyc, unchecked>>
    BY <1>8 DEF DeleteSlot, TypeOK, Typed
  <2>3. \A j \in Rows : Seated(j) => row[j].slot \in Slots
    BY DEF Seated, TypeOK, RowKeys
  <2> QED
    BY <2>1, <2>2, <2>3, NothingBooked DEF DoubleBooked, Seated
<1>9. ASSUME NEW c \in Cycles, StopCycle(c) \/ ExpireCycle(c)
      PROVE  NoDoubleBooking'
  <2>1. /\ \A b \in Cycles : cyc'[b] = "ACTIVE" => cyc[b] = "ACTIVE"
        /\ UNCHANGED <<slot, row, unchecked>>
    BY <1>9 DEF StopCycle, ExpireCycle, TypeOK, Typed
  <2>2. \A j \in Rows : Seated(j) => slot[row[j].slot].cyc \in Cycles
    BY DEF Seated, TypeOK, Typed, RowKeys, SlotType
  <2> QED
    BY <2>1, <2>2, NothingBooked DEF DoubleBooked, Seated
<1>10. ASSUME NEW c \in Cycles, ActivateCycle(c)
      PROVE  NoDoubleBooking'
  <2>1. \A j \in Rows : Seated(j) =>
          /\ row[j].slot # None
          /\ slot[row[j].slot].cyc \in Cycles
    BY RosterAssumption DEF Seated, TypeOK, Typed, RowKeys, SlotType
  <2>2. /\ \A b \in Cycles \ {c} : cyc'[b] = cyc[b]
        /\ UNCHANGED <<slot, row>>
        /\ unchecked' = unchecked \cup
             {i \in Rows : row[i].slot # None /\ slot[row[i].slot].cyc = c}
    BY <1>10 DEF ActivateCycle, TypeOK, Typed
  <2> QED
    BY <2>1, <2>2, NothingBooked DEF DoubleBooked, Seated
<1>11. ASSUME NEW c \in Cycles, NEW ss \in SUBSET Slots, NEW plan \in [ss -> Hours],
              NEW max \in MaxStaff, NEW es \in SUBSET Emps,
              CreateSchedule(c, plan, max, es)
      PROVE  NoDoubleBooking'
  <2>0. PICK new, seat : Inserts(new, seat, es, ss)
    BY <1>11, ScheduleRows
  <2>1. /\ seat \in [new -> es \X ss]
        /\ row' = [i \in Rows |->
             IF i \in new THEN [st |-> "APPROVED", emp |-> seat[i][1],
                                slot |-> seat[i][2], in |-> FALSE]
             ELSE row[i]]
    BY <2>0, Zenon DEF Inserts
  <2>2. /\ cyc[c] = "none" /\ cyc' = [cyc EXCEPT ![c] = "ACTIVE"]
        /\ slot' = [s \in Slots |->
             IF s \in ss THEN [cyc |-> c, hours |-> plan[s], max |-> max]
             ELSE slot[s]]
        /\ \A s \in ss : slot[s].cyc = None
        /\ UNCHANGED unchecked
    BY <1>11 DEF CreateSchedule
  <2>3. /\ es # {} => \A s, t \in ss : s # t => ~Overlap(plan[s], plan[t])
        /\ \A e \in es, s \in ss : ~Conflict(e, plan[s], {"ACTIVE"}, {}, {})
    BY <1>11 DEF CreateSchedule, PlanFits, AvailableAtCommit
  <2>4. \A j \in Rows : Seated(j) =>
          /\ row[j].slot \in Slots \ ss
          /\ slot[row[j].slot].cyc \in Cycles \ {c}
    BY <2>2, RosterAssumption DEF Seated, TypeOK, Typed, RowKeys, SlotKeys, SlotType
  <2>5. \A j \in Rows \ new : Seated(j)' =>
          /\ Seated(j) /\ row'[j] = row[j]
          /\ slot'[row[j].slot] = slot[row[j].slot]
          /\ cyc'[slot[row[j].slot].cyc] = cyc[slot[row[j].slot].cyc]
    BY <2>1, <2>2, <2>4 DEF Seated, TypeOK, Typed
  <2>6. \A j \in Rows \cap new :
          /\ row'[j].emp \in es /\ row'[j].slot \in ss
          /\ slot'[row'[j].slot].hours = plan[row'[j].slot]
    BY <2>1, <2>2
  <2>7. \A k \in Rows \cap new, l \in Rows \ new : ~DoubleBooked(k, l)'
    BY <2>3, <2>5, <2>6 DEF DoubleBooked, Conflict
  <2>8. \A k \in Rows \cap new, l \in Rows \ new : ~DoubleBooked(l, k)'
    BY <2>7 DEF DoubleBooked, Overlap
  <2>9. \A k, l \in Rows \cap new : ~DoubleBooked(k, l)'
    BY <2>3, <2>6 DEF DoubleBooked
  <2>10. \A k, l \in Rows \ new : DoubleBooked(k, l)' => DoubleBooked(k, l)
    BY <2>5 DEF DoubleBooked
  <2>11. \A k, l \in Rows : DoubleBooked(k, l)' => DoubleBooked(k, l)
    BY <2>7, <2>8, <2>9, <2>10
  <2> QED
    BY <2>2, <2>11, NothingBooked
<1>12. CASE UNCHANGED <<cyc, slot, row, unchecked>>
  BY <1>12, NothingBooked DEF DoubleBooked, Seated
<1>13. CASE \/ \E e \in Emps, c \in Cycles, ss \in SUBSET Slots : FixedRead(e, c, ss)
            \/ \E e \in Emps, is \in SUBSET Rows : WithdrawRead(e, is)
            \/ \E w \in Swaps, i \in Rows, to \in Emps : CreateSwap(w, i, to)
            \/ \E d \in Deciders, w \in Swaps, answer \in {"APPROVED", "REJECTED"},
                  route \in {"update", "process"} : DecideRead(d, w, answer, route)
            \/ \E d \in Deciders : DecideReject(d) \/ DecideRefused(d)
            \/ UNCHANGED vars
  BY <1>12, <1>13
  DEF FixedRead, WithdrawRead, CreateSwap, DecideRead, DecideReject, DecideRefused, vars
<1> QED
  BY <1>1, <1>2, <1>3, <1>4, <1>5, <1>6, <1>7, <1>8, <1>9, <1>10, <1>11, <1>13
  DEF Next, Registering, Working, Swapping, Editing

(* Whatever is registered, swapped, worked and edited, and in whatever     *)
(* order: nobody holds two seats at overlapping times of active cycles,    *)
(* unless one came there by a route that compares no times.                *)
THEOREM NoDoubleBookings == Spec => []NoDoubleBooking
<1> QED
  BY InitNoDoubleBooking, BookingStep, TypeCorrect, PTL DEF Spec
-----------------------------------------------------------------------------
(* The rest of RosterPromise.  Rows and seats are looked at apart: what a  *)
(* step does to the state, the holder and the check-in of a row, and what  *)
(* it does to the number of seats taken in a slot.                         *)

(* The inductive invariant.                                                *)
RosterInv == TypeOK /\ RowsInOrder /\ WorkedIsConfirmed

Handed ==
  \A i \in Rows :
    row'[i].emp # row[i].emp /\ row[i].st # "none" /\ row'[i].st # "DELETED"
    => \E w \in Swaps :
         /\ swap[w].st = "PENDING" /\ swap'[w].st = "APPROVED"
         /\ swap[w].row = i /\ swap[w].to = row'[i].emp
Stays ==
  \A i \in Rows :
    /\ row[i].in => row'[i].st \in {"CONFIRMED", "COMPLETED", "DELETED"}
    /\ row[i].st = "CANCELLED" => row'[i].st \in {"CANCELLED", "DELETED"}
WithinLimit ==
  \A s \in Slots :
    Cardinality(Seats(s)') > Cardinality(Seats(s)) /\ slot'[s].max # 0
    => Cardinality(Seats(s)') <= slot'[s].max
RowFacts == RowsInOrder' /\ WorkedIsConfirmed' /\ Stays

(* What a step may do to the rows that are there.                          *)
RowMayBecome(r, q) ==
  /\ q.st # "none" /\ q.in \in BOOLEAN
  /\ q.in => q.st \in {"CONFIRMED", "COMPLETED"}
  /\ r.in => q.st \in {"CONFIRMED", "COMPLETED", "DELETED"}
  /\ r.st = "CANCELLED" => q.st \in {"CANCELLED", "DELETED"}

(* Rows that only do so keep their facts.                                  *)
LEMMA RowsMove ==
  ASSUME RosterInv,
         \A i \in Rows : \/ row'[i] = row[i]
                         \/ row[i].st # "none" /\ RowMayBecome(row[i], row'[i])
  PROVE  RowFacts
<1>1. \A i \in Rows : row[i].st = "none" => row'[i] = row[i] /\ row[i] = NoRow
  BY DEF RosterInv, RowsInOrder
<1>2. \A i \in Rows : row'[i].st = "none" <=> row[i].st = "none"
  BY DEF RowMayBecome
<1>3. RowsInOrder'
  <2>1. {i \in Rows : row'[i].st # "none"} = {i \in Rows : row[i].st # "none"}
    BY <1>2
  <2> QED
    BY <1>1, <1>2, <2>1 DEF RosterInv, RowsInOrder
<1>4. WorkedIsConfirmed'
  BY DEF RosterInv, WorkedIsConfirmed, RowMayBecome
<1>5. Stays
  BY DEF RosterInv, WorkedIsConfirmed, RowMayBecome, Stays
<1> QED
  BY <1>3, <1>4, <1>5 DEF RowFacts

(* Rows are inserted behind those that are there.                          *)
LEMMA RowsInserted ==
  ASSUME RosterInv, NEW n \in 0 .. MaxRows, NEW k \in Nat,
         {i \in Rows : row[i].st # "none"} = 1 .. n, n + 1 .. n + k \subseteq Rows,
         \A i \in Rows : IF i \in n + 1 .. n + k
                         THEN row'[i].st \in SeatStates /\ row'[i].in = FALSE
                         ELSE row'[i] = row[i]
  PROVE  RowFacts /\ (\A i \in n + 1 .. n + k : row[i].st = "none" /\ row[i] = NoRow)
<1> DEFINE new == n + 1 .. n + k
<1>0. MaxRows \in Nat /\ n \in Nat
  BY RosterAssumption
<1>1. \A i \in new : row[i].st = "none" /\ i \in Rows
  <2>1. \A i \in new : i \notin 1 .. n
    BY <1>0
  <2> QED
    BY <2>1
<1>2. \A i \in new : row[i] = NoRow
  BY <1>1 DEF RosterInv, RowsInOrder
<1>3. \A i \in new : row'[i].st # "none" /\ ~row'[i].in
  BY <1>1 DEF SeatStates
<1>4. {i \in Rows : row'[i].st # "none"} = 1 .. n + k /\ n + k \in 0 .. MaxRows
  <2>1. {i \in Rows : row'[i].st # "none"} = (1 .. n) \cup new
    BY <1>1, <1>3
  <2>2. (1 .. n) \cup new = 1 .. n + k
    BY <1>0
  <2>3. n + k \in 0 .. MaxRows
    <3>1. CASE k = 0
      BY <1>0, <3>1
    <3>2. CASE k # 0
      <4>1. n + k \in new
        BY <1>0, <3>2
      <4> QED
        BY <1>0, <1>1, <4>1 DEF Rows
    <3> QED
      BY <3>1, <3>2
  <2> QED
    BY <2>1, <2>2, <2>3
<1>5. RowsInOrder'
  <2>1. \A i \in Rows : row'[i].st = "none" => row'[i] = NoRow
    BY <1>3 DEF RosterInv, RowsInOrder
  <2> QED
    BY <1>4, <2>1 DEF RowsInOrder
<1>6. WorkedIsConfirmed'
  BY <1>3 DEF RosterInv, WorkedIsConfirmed
<1>7. Stays
  <2>1. \A i \in new : ~row[i].in /\ row[i].st # "CANCELLED"
    BY <1>1, <1>2 DEF NoRow
  <2> QED
    BY <2>1 DEF RosterInv, WorkedIsConfirmed, Stays
<1> QED
  BY <1>1, <1>2, <1>5, <1>6, <1>7 DEF RowFacts

(* A fresh row is the next one.                                            *)
LEMMA FreshIsNext ==
  ASSUME RosterInv, NEW i \in Rows, Fresh(i)
  PROVE  \E n \in 0 .. MaxRows : {j \in Rows : row[j].st # "none"} = 1 .. n /\ i = n + 1
<1>1. PICK n \in 0 .. MaxRows : {j \in Rows : row[j].st # "none"} = 1 .. n
  BY DEF RosterInv, RowsInOrder
<1>2. MaxRows \in Nat /\ i \in Nat \ {0} /\ n \in Nat
  BY RosterAssumption DEF Rows
<1>3. i \notin 1 .. n
  BY <1>1 DEF Fresh
<1>4. i > 1 => i - 1 \in 1 .. n
  <2>1. i > 1 => i - 1 \in Rows /\ row[i - 1].st # "none"
    BY <1>2, RosterAssumption DEF Fresh, Rows
  <2> QED
    BY <1>1, <2>1
<1>5. i = n + 1
  BY <1>2, <1>3, <1>4
<1> QED
  BY <1>1, <1>5

(* One row is inserted.                                                    *)
LEMMA RowInserted ==
  ASSUME RosterInv, NEW i \in Rows, Fresh(i), NEW q, q.st \in SeatStates, q.in = FALSE,
         row' = [row EXCEPT ![i] = q]
  PROVE  RowFacts /\ row[i] = NoRow
<1>1. PICK n \in 0 .. MaxRows : {j \in Rows : row[j].st # "none"} = 1 .. n /\ i = n + 1
  BY FreshIsNext
<1>2. n \in Nat /\ n + 1 .. n + 1 = {i} /\ row \in [Rows -> RowType]
  BY <1>1, RosterAssumption DEF RosterInv, TypeOK, Typed
<1>3. \A j \in Rows : IF j \in n + 1 .. n + 1 THEN row'[j].st \in SeatStates /\ row'[j].in = FALSE
                                               ELSE row'[j] = row[j]
  BY <1>2
<1>4. RowFacts /\ (\A j \in n + 1 .. n + 1 : row[j].st = "none" /\ row[j] = NoRow)
  <2>1. n + 1 .. n + 1 \subseteq Rows /\ 1 \in Nat
    BY <1>2
  <2> QED
    BY <1>1, <1>3, <2>1, RowsInserted
<1> QED
  BY <1>2, <1>4

(* Nobody takes a seat.                                                    *)
LEMMA NoSeatTaken ==
  ASSUME \A i \in Rows : Seated(i)' => Seated(i) /\ row'[i].slot = row[i].slot
  PROVE  WithinLimit
<1> SUFFICES ASSUME NEW s \in Slots
             PROVE  ~(Cardinality(Seats(s)') > Cardinality(Seats(s)))
  BY DEF WithinLimit
<1>1. Seats(s)' \in SUBSET Seats(s) /\ Seats(s) \in SUBSET Rows
  BY DEF Seats
<1>2. /\ IsFiniteSet(Seats(s)) /\ Cardinality(Seats(s)) \in Nat
      /\ Cardinality(Seats(s)') \in Nat
  BY <1>1, RowsFinite
<1>3. Cardinality(Seats(s)') <= Cardinality(Seats(s))
  BY <1>1, <1>2, FS_Subset
<1> QED
  BY <1>2, <1>3

(* One seat is taken in a slot that is not full.                           *)
LEMMA SeatTaken ==
  ASSUME TypeOK, NEW k \in Rows, NEW s \in Slots, slot' = slot, ~Full(s), row'[k].slot = s,
         \A i \in Rows \ {k} : row'[i] = row[i]
  PROVE  WithinLimit
<1> SUFFICES ASSUME NEW t \in Slots,
                    Cardinality(Seats(t)') > Cardinality(Seats(t)), slot'[t].max # 0
             PROVE  Cardinality(Seats(t)') <= slot'[t].max
  BY DEF WithinLimit
<1>1. Seats(t) \in SUBSET Rows /\ Seats(t)' \in SUBSET Rows /\ slot[t].max \in Nat
  BY DEF Seats, TypeOK, Typed, SlotType
<1>2. /\ IsFiniteSet(Seats(t)) /\ Cardinality(Seats(t)) \in Nat
      /\ Cardinality(Seats(t)') \in Nat
  BY <1>1, RowsFinite
<1>3. CASE t # s
  <2>1. Seats(t)' \subseteq Seats(t)
    BY <1>3 DEF Seats, Seated
  <2>2. Cardinality(Seats(t)') <= Cardinality(Seats(t))
    BY <1>2, <2>1, FS_Subset
  <2> QED
    BY <1>2, <2>2
<1>4. CASE t = s
  <2>1. Seats(t)' \subseteq Seats(t) \cup {k}
    BY DEF Seats, Seated
  <2>2. /\ IsFiniteSet(Seats(t) \cup {k})
        /\ Cardinality(Seats(t) \cup {k}) \in {Cardinality(Seats(t)), Cardinality(Seats(t)) + 1}
    BY <1>2, FS_AddElement
  <2>3. Cardinality(Seats(t)') <= Cardinality(Seats(t) \cup {k})
    BY <2>1, <2>2, FS_Subset
  <2>4. Cardinality(Seats(t)) < slot[t].max
    BY <1>1, <1>2, <1>4 DEF Full
  <2> QED
    BY <1>1, <1>2, <2>2, <2>3, <2>4
<1> QED
  BY <1>3, <1>4

(* A step that leaves the holders alone.                                   *)
LEMMA NobodyHandsOver ==
  ASSUME \A i \in Rows : row'[i].emp = row[i].emp \/ row[i].st = "none" \/ row'[i].st = "DELETED"
  PROVE  Handed
BY DEF Handed

(* A step that changes no row.                                             *)
LEMMA RowsUnchanged ==
  ASSUME RosterInv, row' = row
  PROVE  RowFacts /\ Handed /\ WithinLimit
<1>1. \A i \in Rows : \/ row'[i] = row[i]
                      \/ row[i].st # "none" /\ RowMayBecome(row[i], row'[i])
  OBVIOUS
<1>2. RowFacts
  BY <1>1, RowsMove, Zenon
<1>3. WithinLimit
  BY NoSeatTaken DEF Seated
<1> QED
  BY <1>2, <1>3, NobodyHandsOver

(* A registration, by either way.                                          *)
LEMMA SeatGiven ==
  ASSUME RosterInv, NEW e, NEW s \in Slots, NEW i \in Rows, NEW st \in SeatStates,
         Fresh(i), ~Full(s), slot' = slot,
         row' = [row EXCEPT ![i] = [st |-> st, emp |-> e, slot |-> s, in |-> FALSE]]
  PROVE  RowFacts /\ Handed /\ WithinLimit
<1> DEFINE q == [st |-> st, emp |-> e, slot |-> s, in |-> FALSE]
<1>1. q.st \in SeatStates /\ q.in = FALSE /\ q.slot = s
  OBVIOUS
<1> HIDE DEF q
<1>2. row' = [row EXCEPT ![i] = q] /\ row \in [Rows -> RowType] /\ TypeOK
  BY DEF q, RosterInv, TypeOK, Typed
<1>3. RowFacts
  BY <1>1, <1>2, RowInserted
<1>4. row'[i].slot = s /\ \A j \in Rows \ {i} : row'[j] = row[j]
  BY <1>1, <1>2
<1>5. WithinLimit
  BY <1>2, <1>4, SeatTaken
<1>6. Handed
  BY <1>4, NobodyHandsOver DEF Fresh
<1> QED
  BY <1>3, <1>5, <1>6

(* Rows only change their state, or give up their seat.                    *)
LEMMA RowsProgress ==
  ASSUME RosterInv,
         \A i \in Rows :
           \/ row'[i] = row[i]
           \/ /\ row[i].st # "none" /\ RowMayBecome(row[i], row'[i])
              /\ row'[i].st \in SeatStates => Seated(i) /\ row'[i].slot = row[i].slot
              /\ row'[i].emp = row[i].emp \/ row'[i].st = "DELETED"
  PROVE  RowFacts /\ Handed /\ WithinLimit
<1>1. \A i \in Rows : \/ row'[i] = row[i]
                      \/ row[i].st # "none" /\ RowMayBecome(row[i], row'[i])
  OBVIOUS
<1>2. RowFacts
  BY <1>1, RowsMove, Zenon
<1>3. WithinLimit
  BY NoSeatTaken DEF Seated
<1> QED
  BY <1>2, <1>3, NobodyHandsOver

(* An assignment that moves to a slot of its own is alone there.           *)
LEMMA MovedAlone ==
  ASSUME RosterInv, NEW i \in Rows, NEW h \in Hours, NEW t \in Slots,
         UpdateAssignmentTime(i, h, t), row' # row
  PROVE  RowFacts /\ Handed /\ WithinLimit
<1> DEFINE s == row[i].slot
<1>0. /\ row \in [Rows -> RowType] /\ slot \in [Slots -> SlotType] /\ TypeOK
      /\ row[i].in \in BOOLEAN /\ WorkedIsConfirmed
  BY DEF RosterInv, TypeOK, Typed, RowType
<1>1. /\ slot[t].cyc = None /\ row[i].st = "APPROVED" /\ row' = [row EXCEPT ![i].slot = t]
  BY DEF UpdateAssignmentTime
<1>2. s \in Slots /\ slot[s].cyc # None /\ s # t
  BY <1>0, <1>1 DEF TypeOK, RowKeys, SeatStates
<1>3. slot'[t].max = 1
  <2>1. \E m : slot' = [slot EXCEPT ![t] = [cyc |-> slot[s].cyc, hours |-> h, max |-> 1],
                                    ![s].max = m]
    BY <1>1 DEF UpdateAssignmentTime
  <2> QED
    BY <1>0, <1>2, <2>1
<1> HIDE DEF s
<1>4. /\ \A j \in Rows \ {i} : row'[j] = row[j]
      /\ row'[i] = [row[i] EXCEPT !.slot = t]
  BY <1>0, <1>1
<1>5. row'[i].st = "APPROVED" /\ row'[i].in = row[i].in /\ row'[i].emp = row[i].emp
      /\ row'[i].slot = t
  BY <1>0, <1>1, <1>4 DEF RowType
<1>6. RowFacts
  <2>1. RowMayBecome(row[i], row'[i])
    BY <1>0, <1>1, <1>5 DEF RowMayBecome, WorkedIsConfirmed
  <2>2. \A j \in Rows : \/ row'[j] = row[j]
                        \/ row[j].st # "none" /\ RowMayBecome(row[j], row'[j])
    BY <1>1, <1>4, <2>1
  <2> QED
    BY <2>2, RowsMove, Zenon
<1>7. Handed
  BY <1>4, <1>5, NobodyHandsOver
<1>8. Seats(t) = {}
  BY <1>0, <1>1 DEF Seats, Seated, TypeOK, RowKeys
<1>9. WithinLimit
  <2> SUFFICES ASSUME NEW u \in Slots, Cardinality(Seats(u)') > Cardinality(Seats(u))
               PROVE  Cardinality(Seats(u)') <= slot'[u].max
    BY DEF WithinLimit
  <2>1. Seats(u) \in SUBSET Rows /\ Seats(u)' \in SUBSET Rows
    BY DEF Seats
  <2>2. /\ IsFiniteSet(Seats(u)) /\ Cardinality(Seats(u)) \in Nat
        /\ Cardinality(Seats(u)') \in Nat
    BY <2>1, RowsFinite
  <2>3. CASE u # t
    <3>1. Seats(u)' \subseteq Seats(u)
      BY <1>4, <1>5, <2>3 DEF Seats, Seated
    <3> QED
      BY <2>2, <3>1, FS_Subset
  <2>4. CASE u = t
    <3>1. Seats(u)' \subseteq {i}
      BY <1>4, <1>8, <2>4 DEF Seats, Seated
    <3>2. IsFiniteSet({i}) /\ Cardinality({i}) = 1
      BY FS_Singleton
    <3>3. Cardinality(Seats(u)') <= 1
      BY <3>1, <3>2, FS_Subset
    <3> QED
      BY <1>3, <2>4, <3>3
  <2> QED
    BY <2>3, <2>4
<1> QED
  BY <1>6, <1>7, <1>9

(* A new schedule gives at most the chosen employees a seat in each slot.  *)
LEMMA ScheduleSeats ==
  ASSUME RosterInv, NEW c \in Cycles, NEW ss \in SUBSET Slots, NEW plan \in [ss -> Hours],
         NEW max \in MaxStaff, NEW es \in SUBSET Emps, CreateSchedule(c, plan, max, es)
  PROVE  RowFacts /\ Handed /\ WithinLimit
<1> DEFINE k   == Cardinality(es \X DOMAIN plan)
           new == NextRows(k)
<1>1. DOMAIN plan = ss
  OBVIOUS
<1>2. IsFiniteSet(es) /\ IsFiniteSet(ss) /\ IsFiniteSet(es \X ss)
  BY RosterAssumption, FS_Subset, FS_Product
<1>3. k \in Nat /\ Cardinality(es) \in Nat
  BY <1>1, <1>2, FS_CardinalityType
<1>4. PICK n \in 0 .. MaxRows : {i \in Rows : row[i].st # "none"} = 1 .. n
  BY DEF RosterInv, RowsInOrder
<1>5. n \in Nat /\ Cardinality(1 .. n) = n
  BY RosterAssumption, FS_Interval
<1>6. new = n + 1 .. n + k
  BY <1>4, <1>5 DEF NextRows
<1>7. /\ \A s \in ss : slot[s].cyc = None
      /\ max > 0 /\ Cardinality(es) <= max
      /\ slot' = [s \in Slots |->
           IF s \in ss THEN [cyc |-> c, hours |-> plan[s], max |-> max] ELSE slot[s]]
      /\ NextRows(k) \subseteq Rows
  BY <1>1 DEF CreateSchedule, PlanFits
<1>8. PICK seat \in [new -> es \X DOMAIN plan] :
        /\ \A i, j \in new : seat[i] = seat[j] => i = j
        /\ row' = [i \in Rows |->
             IF i \in new THEN [st |-> "APPROVED", emp |-> seat[i][1],
                                slot |-> seat[i][2], in |-> FALSE]
             ELSE row[i]]
  BY Zenon DEF CreateSchedule
<1> HIDE DEF k, new
<1>9. \A i \in Rows : IF i \in new
        THEN /\ row'[i].st = "APPROVED" /\ row'[i].in = FALSE
             /\ row'[i].emp = seat[i][1] /\ row'[i].slot = seat[i][2]
        ELSE row'[i] = row[i]
  BY <1>8
<1>10. RowFacts /\ \A i \in new : row[i].st = "none" /\ row[i] = NoRow
  <2>1. \A i \in Rows : IF i \in n + 1 .. n + k
                        THEN row'[i].st \in SeatStates /\ row'[i].in = FALSE
                        ELSE row'[i] = row[i]
    BY <1>6, <1>9 DEF SeatStates
  <2>2. n + 1 .. n + k \subseteq Rows
    BY <1>6, <1>7 DEF new
  <2> QED
    BY <1>3, <1>4, <1>6, <2>1, <2>2, RowsInserted
<1>11. Handed
  BY <1>9, <1>10, NobodyHandsOver
<1>12. WithinLimit
  <2> SUFFICES ASSUME NEW s \in Slots, Cardinality(Seats(s)') > Cardinality(Seats(s))
               PROVE  Cardinality(Seats(s)') <= slot'[s].max
    BY DEF WithinLimit
  <2>1. Seats(s) \in SUBSET Rows /\ Seats(s)' \in SUBSET Rows
    BY DEF Seats
  <2>2. /\ IsFiniteSet(Seats(s)) /\ Cardinality(Seats(s)) \in Nat
        /\ Cardinality(Seats(s)') \in Nat
    BY <2>1, RowsFinite
  <2>3. seat \in [new -> es \X ss] /\ \A i, j \in new : seat[i] = seat[j] => i = j
    BY <1>1, <1>8
  <2>4. CASE s \notin ss
    <3>1. Seats(s)' \subseteq Seats(s)
      BY <1>9, <2>3, <2>4 DEF Seats, Seated
    <3> QED
      BY <2>2, <3>1, FS_Subset
  <2>5. CASE s \in ss
    <3>1. Seats(s) = {}
      BY <1>7, <2>5 DEF RosterInv, TypeOK, RowKeys, Seats, Seated
    <3>2. \A i \in Seats(s)' : i \in new /\ seat[i][2] = s /\ row'[i].slot = s
      BY <1>9, <3>1 DEF Seats, Seated
    <3> DEFINE f == [i \in Seats(s)' |-> seat[i][1]]
    <3>3. f \in [Seats(s)' -> es]
      BY <2>3, <3>2
    <3>4. \A i, j \in Seats(s)' : f[i] = f[j] => i = j
      BY <2>3, <3>2
    <3>5. f \in Injection(Seats(s)', es)
      BY <3>3, <3>4 DEF Injection, IsInjective
    <3>6. Cardinality(Seats(s)') <= Cardinality(es)
      BY <1>2, <3>5, FS_Injection
    <3>7. slot'[s].max = max /\ max \in Nat
      BY <1>7, <2>5, RosterAssumption
    <3> QED
      BY <1>3, <1>7, <2>2, <3>6, <3>7
  <2> QED
    BY <2>4, <2>5
<1> QED
  BY <1>10, <1>11, <1>12

(* What every step keeps, given the invariant.                             *)
LEMMA RosterStep == RosterInv /\ [Next]_vars => RowFacts /\ Handed /\ WithinLimit
<1> SUFFICES ASSUME RosterInv, [Next]_vars PROVE RowFacts /\ Handed /\ WithinLimit
  OBVIOUS
<1>0. /\ TypeOK /\ WorkedIsConfirmed /\ \A i \in Rows : row[i].in \in BOOLEAN
      /\ row \in [Rows -> RowType] /\ swap \in [Swaps -> SwapType]
      /\ dec \in [Deciders -> DecType]
  BY DEF RosterInv, TypeOK, Typed, RowType
<1>1. ASSUME NEW e \in Emps, NEW s \in Slots, NEW i \in Rows,
             NEW byOwner \in BOOLEAN, Register(e, s, i, byOwner)
      PROVE  RowFacts /\ Handed /\ WithinLimit
  <2>1. (IF byOwner THEN "APPROVED" ELSE "PENDING") \in SeatStates
    BY DEF SeatStates
  <2> QED
    BY <1>1, <2>1, SeatGiven DEF Register
<1>2. ASSUME NEW e \in Emps, NEW s \in Slots, NEW i \in Rows, FixedSlot(e, s, i)
      PROVE  RowFacts /\ Handed /\ WithinLimit
  <2>1. CASE row' = row
    BY <2>1, RowsUnchanged
  <2>2. CASE row' # row
    <3>1. /\ ~Full(s) /\ Fresh(i) /\ slot' = slot
          /\ row' = [row EXCEPT ![i] =
               [st |-> "PENDING", emp |-> e, slot |-> s, in |-> FALSE]]
      BY <1>2, <2>2 DEF FixedSlot
    <3>2. "PENDING" \in SeatStates
      BY DEF SeatStates
    <3> QED
      BY <3>1, <3>2, SeatGiven
  <2> QED
    BY <2>1, <2>2
<1>3. ASSUME NEW e \in Emps, WithdrawWrite(e)
      PROVE  RowFacts /\ Handed /\ WithinLimit
  <2>1. \A i \in Rows :
          \/ row'[i] = row[i]
          \/ /\ row[i].st \in {"PENDING", "APPROVED"} /\ ~row[i].in
             /\ row'[i].st = "CANCELLED" /\ row'[i].emp = row[i].emp
             /\ row'[i].in = row[i].in
    BY <1>0, <1>3 DEF WithdrawWrite, RowType
  <2>2. \A i \in Rows :
          \/ row'[i] = row[i]
          \/ /\ row[i].st # "none" /\ RowMayBecome(row[i], row'[i])
             /\ row'[i].st \notin SeatStates /\ row'[i].emp = row[i].emp
    BY <1>0, <2>1 DEF RowMayBecome, SeatStates
  <2> QED
    BY <2>2, RowsProgress
<1>4. ASSUME NEW i \in Rows, NEW next \in {"APPROVED", "CONFIRMED", "CANCELLED"},
             UpdateAssignmentStatus(i, next) \/ ProcessRegister(i, next)
      PROVE  RowFacts /\ Handed /\ WithinLimit
  <2>1. row[i].st \in {"PENDING", "APPROVED"} /\ row' = [row EXCEPT ![i].st = next]
    BY <1>4 DEF UpdateAssignmentStatus, ProcessRegister
  <2>2. /\ \A j \in Rows \ {i} : row'[j] = row[j]
        /\ row'[i].st = next /\ row'[i].in = row[i].in
        /\ row'[i].emp = row[i].emp /\ row'[i].slot = row[i].slot
    BY <1>0, <2>1 DEF RowType
  <2>3. RowMayBecome(row[i], row'[i]) /\ Seated(i)
    BY <1>0, <2>1, <2>2 DEF RowMayBecome, WorkedIsConfirmed, Seated, SeatStates
  <2>4. row[i].st # "none"
    BY <2>1
  <2> QED
    BY <2>2, <2>3, <2>4, RowsProgress
<1>5. ASSUME NEW i \in Rows, CheckIn(i) \/ CheckOut(i)
      PROVE  RowFacts /\ Handed /\ WithinLimit
  <2>1. /\ row[i].st \in {"APPROVED", "CONFIRMED"}
        /\ \A j \in Rows \ {i} : row'[j] = row[j]
        /\ row'[i].st \in {"CONFIRMED", "COMPLETED"} /\ row'[i].in \in BOOLEAN
        /\ row'[i].emp = row[i].emp /\ row'[i].slot = row[i].slot
    BY <1>0, <1>5 DEF CheckIn, CheckOut, RowType
  <2>2. RowMayBecome(row[i], row'[i]) /\ Seated(i) /\ row[i].st # "none"
    BY <2>1 DEF RowMayBecome, Seated, SeatStates
  <2> QED
    BY <2>1, <2>2, RowsProgress
<1>6. ASSUME NEW d \in Deciders, DecideWrite(d)
      PROVE  RowFacts /\ Handed /\ WithinLimit
  <2> DEFINE w == dec[d].w
             i == swap[w].row
  <2>1. /\ w \in Swaps /\ swap[w].st = "PENDING"
        /\ row' = [row EXCEPT ![i].emp = swap[w].to]
        /\ swap' = [swap EXCEPT ![w].st = "APPROVED"]
    BY <1>0, <1>6 DEF DecideWrite, DecType
  <2>2. i \in Rows /\ row[i].st \in SeatStates \cup {"CANCELLED"}
    BY <1>0, <2>1 DEF TypeOK, SwapKeys
  <2> HIDE DEF w, i
  <2>3. /\ \A j \in Rows \ {i} : row'[j] = row[j]
        /\ row'[i].st = row[i].st /\ row'[i].in = row[i].in
        /\ row'[i].emp = swap[w].to /\ row'[i].slot = row[i].slot
    BY <1>0, <2>1, <2>2 DEF RowType
  <2>4. RowMayBecome(row[i], row'[i]) /\ row[i].st # "none"
    BY <1>0, <2>2, <2>3 DEF RowMayBecome, WorkedIsConfirmed, SeatStates
  <2>5. RowFacts
    <3>1. \A j \in Rows : \/ row'[j] = row[j]
                          \/ row[j].st # "none" /\ RowMayBecome(row[j], row'[j])
      BY <2>3, <2>4
    <3> QED
      BY <3>1, RowsMove, Zenon
  <2>6. WithinLimit
    BY <2>3, NoSeatTaken DEF Seated
  <2>7. swap[w].row = i /\ swap'[w].st = "APPROVED"
    BY <1>0, <2>1 DEF i, SwapType
  <2>8. Handed
    BY <2>1, <2>3, <2>7 DEF Handed
  <2> QED
    BY <2>5, <2>6, <2>8
<1>7. ASSUME NEW s \in Slots, DeleteSlot(s)
      PROVE  RowFacts /\ Handed /\ WithinLimit
  <2>1. \A i \in Rows :
          \/ row'[i] = row[i]
          \/ row[i].slot = s /\ row'[i].st = "DELETED" /\ row'[i].in = FALSE
    BY <1>7 DEF DeleteSlot, NoRow
  <2>2. \A i \in Rows : row[i].slot = s => row[i].st # "none"
    BY <1>7, RosterAssumption DEF RosterInv, RowsInOrder, NoRow
  <2>3. \A i \in Rows :
          \/ row'[i] = row[i]
          \/ /\ row[i].st # "none" /\ RowMayBecome(row[i], row'[i])
             /\ row'[i].st \notin SeatStates /\ row'[i].st = "DELETED"
    BY <2>1, <2>2 DEF RowMayBecome, SeatStates
  <2> QED
    BY <2>3, RowsProgress
<1>8. ASSUME NEW i \in Rows, NEW h \in Hours, NEW t \in Slots, UpdateAssignmentTime(i, h, t)
      PROVE  RowFacts /\ Handed /\ WithinLimit
  BY <1>8, MovedAlone, RowsUnchanged
<1>9. CASE row' = row
  BY <1>9, RowsUnchanged
<1>10. CASE row' # row /\ Registering
  <2>1. \/ \E e \in Emps, s \in Slots, i \in Rows :
             (\E byOwner \in BOOLEAN : Register(e, s, i, byOwner)) \/ FixedSlot(e, s, i)
        \/ \E e \in Emps : WithdrawWrite(e)
    BY <1>10 DEF Registering, FixedRead, WithdrawRead
  <2> QED
    BY <1>1, <1>2, <1>3, <2>1
<1>11. CASE Working
  BY <1>4, <1>5, <1>11 DEF Working
<1>12. CASE row' # row /\ Swapping
  <2>1. \E d \in Deciders : DecideWrite(d)
    BY <1>12 DEF Swapping, CreateSwap, DecideRead, DecideReject, DecideRefused
  <2> QED
    BY <1>6, <2>1
<1>13. CASE row' # row /\ Editing
  <2>1. \/ \E c \in Cycles, ss \in SUBSET Slots \ {{}} :
             \E plan \in [ss -> Hours], max \in MaxStaff, es \in SUBSET Emps :
               CreateSchedule(c, plan, max, es)
        \/ \E s \in Slots : DeleteSlot(s)
        \/ \E i \in Rows, h \in Hours, t \in Slots : UpdateAssignmentTime(i, h, t)
    BY <1>13, Zenon DEF Editing, UpdateSlot, StopCycle, ExpireCycle, ActivateCycle
  <2> QED
    BY <1>7, <1>8, <2>1, ScheduleSeats
<1>14. CASE UNCHANGED vars
  BY <1>14, RowsUnchanged DEF vars
<1> QED
  BY <1>9, <1>10, <1>11, <1>12, <1>13, <1>14 DEF Next

(* The empty roster satisfies the invariant.                               *)
LEMMA InitRosterInv == Init => RosterInv
<1> SUFFICES ASSUME Init PROVE RosterInv
  OBVIOUS
<1>1. \A i \in Rows : row[i] = NoRow /\ row[i].st = "none" /\ row[i].in = FALSE
  BY DEF Init, NoRow
<1>2. RowsInOrder
  <2>1. {i \in Rows : row[i].st # "none"} = 1 .. 0 /\ 0 \in 0 .. MaxRows
    BY <1>1, RosterAssumption
  <2> QED
    BY <1>1, <2>1 DEF RowsInOrder
<1> QED
  BY <1>1, <1>2, InitTypeOK DEF RosterInv, WorkedIsConfirmed

(* What changing the roster promises, for any number of employees, slots,  *)
(* cycles, swaps and deciders: foreign keys stay sound, no step seats one  *)
(* more employee beyond a slot's limit, an assignment changes hands only   *)
(* by an approved swap, and what was worked or cancelled stays so.         *)
THEOREM RosterKept == Spec => RosterPromise
<1>1. RosterInv /\ [Next]_vars => RosterInv'
  BY RosterStep, TypeStep DEF RosterInv, RowFacts
<1>2. RosterInv /\ [Next]_vars => [Handed]_vars /\ [Stays]_vars /\ [WithinLimit]_vars
  BY RosterStep DEF RowFacts
<1>3. RosterInv => TypeOK /\ RowsInOrder /\ WorkedIsConfirmed
  BY DEF RosterInv
<1> QED
  BY <1>1, <1>2, <1>3, InitRosterInv, PTL
  DEF Spec, RosterPromise, NoSeatBeyondLimit, HandedOverBySwap, WorkedOrCancelledStays,
      Handed, Stays, WithinLimit
=============================================================================
