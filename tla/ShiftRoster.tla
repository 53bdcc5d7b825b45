----------------------------- MODULE ShiftRoster -----------------------------
(***************************************************************************)
(* The roster of one store: schedules (a work cycle with its slots), the   *)
(* assignments of employees to slots, registrations, swaps and the owner's *)
(* edits (scheduling.part.ts, processRequest of requests.part.ts).         *)
(*                                                                         *)
(* Nearly every operation is one transaction that first takes the store's  *)
(* availability lock: one action.  Where an operation reads before it      *)
(* takes the lock and uses what it read (a fixed registration, deciding a  *)
(* swap), or takes no lock (withdrawing), the read is an action of its own.*)
(*                                                                         *)
(* Refusals that depend on settings and on the clock (deadline, started    *)
(* slot, work terms, approval policy, employment status) are steps that    *)
(* are not taken.  A slot's date and times are one interval: the code's    *)
(* search of the day before and the day after finds every overlap, since   *)
(* no shift is longer than a day.                                          *)
(***************************************************************************)
EXTENDS Integers, FiniteSets

CONSTANTS
  Emps,       \* employees of the store
  Slots,      \* ids of shift slots
  Cycles,     \* ids of work cycles
  Hours,      \* the intervals [from, to) a slot may have
  MaxStaff,   \* seat limits of a slot; 0 is unlimited
  MaxRows,    \* bound: assignments ever inserted
  Swaps,      \* ids of swap requests
  Deciders,   \* requests that decide a swap
  MaxOps,     \* bound: the owner's edits and the reads before a lock
  None        \* no employee, slot or cycle

ASSUME RosterAssumption ==
  /\ Hours # {} /\ \A h \in Hours : h \in [from : Nat, to : Nat] /\ h.from < h.to
  /\ MaxStaff \subseteq Nat /\ MaxRows \in Nat
  /\ MaxOps \in Nat
  /\ None \notin Emps \cup Slots \cup Cycles \cup Swaps
  /\ IsFiniteSet(Emps) /\ IsFiniteSet(Slots)

VARIABLES
  cyc,        \* cyc[c]: WorkCycle.status, or "none"
  slot,       \* slot[s]: the row of slot s
  row,        \* row[i]: the i-th assignment inserted
  swap,       \* swap[w]: the row of swap request w
  dec,        \* dec[d]: the swap that d decides, as it was read
  fix,        \* fix[e]: the slots a fixed registration of e still goes through
  doomed,     \* doomed[e]: the assignments that e is withdrawing
  ops,        \* edits and reads so far, for the bound
  unchecked   \* ghost: assignments placed or revived without a time check

vars == <<cyc, slot, row, swap, dec, fix, doomed, ops, unchecked>>

-----------------------------------------------------------------------------
Rows        == 1 .. MaxRows
CycleStates == {"none", "ACTIVE", "EXPIRED", "STOPPED"}
SeatStates  == {"PENDING", "APPROVED", "CONFIRMED", "COMPLETED"}
RowStates   == SeatStates \cup {"none", "CANCELLED", "DELETED"}
SwapStates  == {"none", "PENDING", "APPROVED", "REJECTED", "DELETED"}

AnyHours == CHOOSE h \in Hours : TRUE
NoSlot   == [cyc |-> None, hours |-> AnyHours, max |-> 0]
NoRow    == [st |-> "none", emp |-> None, slot |-> None, in |-> FALSE]
NoSwap   == [st |-> "none", row |-> 0, by |-> None, to |-> None]
NoDec    == [w |-> None, to |-> "APPROVED", route |-> "update", emp |-> None,
             hours |-> AnyHours]
NoFix    == [want |-> {}, locked |-> FALSE]

SlotType == [cyc : Cycles \cup {None}, hours : Hours, max : Nat]
RowType  == [st : RowStates, emp : Emps \cup {None}, slot : Slots \cup {None},
             in : BOOLEAN]
SwapType == [st : SwapStates, row : 0 .. MaxRows, by : Emps \cup {None},
             to : Emps \cup {None}]
DecType  == [w : Swaps \cup {None}, to : {"APPROVED", "REJECTED"},
             route : {"update", "process"}, emp : Emps \cup {None}, hours : Hours]
FixType  == [want : SUBSET Slots, locked : BOOLEAN]

Typed ==
  /\ cyc \in [Cycles -> CycleStates]
  /\ slot \in [Slots -> SlotType]
  /\ row \in [Rows -> RowType]
  /\ swap \in [Swaps -> SwapType]
  /\ dec \in [Deciders -> DecType]
  /\ fix \in [Emps -> FixType]
  /\ doomed \in [Emps -> SUBSET Rows]
  /\ ops \in 0 .. MaxOps
  /\ unchecked \subseteq Rows

(* The foreign keys: a slot has its cycle, an assignment its employee and  *)
(* its slot, and an undecided swap its assignment and the employee asked.  *)
SlotKeys == \A s \in Slots : slot[s].cyc # None => cyc[slot[s].cyc] # "none"

RowKeys ==
  \A i \in Rows : row[i].st \in SeatStates \cup {"CANCELLED"} =>
    row[i].emp \in Emps /\ row[i].slot \in Slots /\ slot[row[i].slot].cyc # None

SwapKeys ==
  \A w \in Swaps : swap[w].st = "PENDING" =>
    /\ swap[w].row \in Rows /\ swap[w].to \in Emps
    /\ row[swap[w].row].st \in SeatStates \cup {"CANCELLED"}

TypeOK == Typed /\ SlotKeys /\ RowKeys /\ SwapKeys

Init ==
  /\ cyc = [c \in Cycles |-> "none"]
  /\ slot = [s \in Slots |-> NoSlot]
  /\ row = [i \in Rows |-> NoRow]
  /\ swap = [w \in Swaps |-> NoSwap]
  /\ dec = [d \in Deciders |-> NoDec]
  /\ fix = [e \in Emps |-> NoFix]
  /\ doomed = [e \in Emps |-> {}]
  /\ ops = 0
  /\ unchecked = {}

-----------------------------------------------------------------------------
(* The store's availability lock is free: only the loop of a fixed         *)
(* registration holds it for more than one step.                           *)
LockFree == \A e \in Emps : ~fix[e].locked

Overlap(g, h) == g.from < h.to /\ h.from < g.to

Seated(i) == row[i].st \in SeatStates

Seats(s) == {i \in Rows : Seated(i) /\ row[i].slot = s}

(* Mutant: a registration that waits for approval is no conflict.          *)
ConflictApprovedOnly(e, h, states, rows, slots) ==
  \E i \in Rows :
    /\ row[i].st \in SeatStates \ {"PENDING"} /\ row[i].emp = e
    /\ i \notin rows /\ row[i].slot \notin slots
    /\ cyc[slot[row[i].slot].cyc] \in states
    /\ Overlap(h, slot[row[i].slot].hours)

(* findShiftTimeConflict: e holds a seat, in a cycle with one of these     *)
(* states, at a time that overlaps h, not counting the excluded rows and   *)
(* slots.                                                                  *)
Conflict(e, h, states, rows, slots) ==
  \E i \in Rows :
    /\ Seated(i) /\ row[i].emp = e
    /\ i \notin rows /\ row[i].slot \notin slots
    /\ cyc[slot[row[i].slot].cyc] \in states
    /\ Overlap(h, slot[row[i].slot].hours)

Live == {"ACTIVE", "EXPIRED"}

Full(s) == slot[s].max > 0 /\ Cardinality(Seats(s)) >= slot[s].max

(* The id of the next row to be inserted.                                  *)
Fresh(i) == i \in Rows /\ row[i].st = "none" /\ (i > 1 => row[i - 1].st # "none")

(* The ids of the next n rows.                                             *)
NextRows(n) ==
  LET used == Cardinality({i \in Rows : row[i].st # "none"}) IN used + 1 .. used + n

Op == ops < MaxOps /\ ops' = ops + 1

-----------------------------------------------------------------------------
(* planShiftSchedule: the request itself is in order.                      *)
PlanFits(plan, max, es) ==
  /\ max > 0 /\ Cardinality(es) <= max
  /\ es # {} =>
       \A s, t \in DOMAIN plan : s # t => ~Overlap(plan[s], plan[t])

(* assertShiftScheduleAvailabilityAtCommit: the chosen employees are free, *)
(* as far as the active cycles go.                                         *)
AvailableAtCommit(plan, es) ==
  \A e \in es, s \in DOMAIN plan : ~Conflict(e, plan[s], {"ACTIVE"}, {}, {})

(* createShiftSchedule: a new active cycle with its slots, and the chosen  *)
(* employees in every slot.                                                *)
CreateSchedule(c, plan, max, es) ==
  LET ss  == DOMAIN plan
      new == NextRows(Cardinality(es \X ss)) IN
  /\ LockFree
  /\ cyc[c] = "none" /\ \A s \in ss : slot[s].cyc = None
  /\ PlanFits(plan, max, es) /\ AvailableAtCommit(plan, es)
  /\ cyc' = [cyc EXCEPT ![c] = "ACTIVE"]
  /\ slot' = [s \in Slots |->
       IF s \in ss THEN [cyc |-> c, hours |-> plan[s], max |-> max] ELSE slot[s]]
  /\ new \subseteq Rows
  /\ \E seat \in [new -> es \X ss] :
       /\ \A i, j \in new : seat[i] = seat[j] => i = j
       /\ row' = [i \in Rows |->
            IF i \in new THEN [st |-> "APPROVED", emp |-> seat[i][1],
                               slot |-> seat[i][2], in |-> FALSE]
            ELSE row[i]]
  /\ UNCHANGED <<swap, dec, fix, doomed, ops, unchecked>>

(* registerToShiftSlot, by the employee or by the owner.  "Already         *)
(* registered" looks at one row of the employee in the slot, whichever the *)
(* database returns.                                                       *)
Register(e, s, i, byOwner) ==
  LET mine == {j \in Rows : row[j].slot = s /\ row[j].emp = e
                            /\ row[j].st \in SeatStates \cup {"CANCELLED"}} IN
  /\ LockFree /\ Fresh(i)
  /\ slot[s].cyc # None /\ cyc[slot[s].cyc] = "ACTIVE"
  /\ ~Full(s)
  /\ mine # {} => \E existing \in mine : row[existing].st = "CANCELLED"
  /\ ~Conflict(e, slot[s].hours, Live, {}, {s})
  /\ row' = [row EXCEPT ![i] =
       [st |-> IF byOwner THEN "APPROVED" ELSE "PENDING",
        emp |-> e, slot |-> s, in |-> FALSE]]
  /\ UNCHANGED <<cyc, slot, swap, dec, fix, doomed, ops, unchecked>>

(* createShiftRegistration of a fixed shift selects the slots first ...    *)
FixedRead(e, c, ss) ==
  /\ Op /\ fix[e] = NoFix
  /\ cyc[c] = "ACTIVE"
  /\ ss # {} /\ \A s \in ss : slot[s].cyc = c
  /\ fix' = [fix EXCEPT ![e].want = ss]
  /\ UNCHANGED <<cyc, slot, row, swap, dec, doomed, unchecked>>

(* ... then takes the lock and goes through them; a slot that is gone,     *)
(* full, taken already or in conflict is passed over.  The state of the    *)
(* cycle is not read again.                                                *)
FixedSlot(e, s, i) ==
  LET rest == fix[e].want \ {s}
      ok   == /\ slot[s].cyc # None
              /\ ~Full(s)
              /\ ~\E j \in Seats(s) : row[j].emp = e
              /\ ~Conflict(e, slot[s].hours, Live, {}, {s}) IN
  /\ fix[e].locked \/ LockFree
  /\ s \in fix[e].want
  /\ fix' = [fix EXCEPT ![e] = [want |-> rest, locked |-> rest # {}]]
  /\ IF ok THEN /\ Fresh(i)
                /\ row' = [row EXCEPT ![i] =
                     [st |-> "PENDING", emp |-> e, slot |-> s, in |-> FALSE]]
           ELSE i = 1 /\ row' = row
  /\ UNCHANGED <<cyc, slot, swap, dec, doomed, ops, unchecked>>

(* updateAssignmentStatus, by the owner.                                   *)
UpdateAssignmentStatus(i, next) ==
  /\ LockFree
  /\ \/ row[i].st = "PENDING" /\ next \in {"APPROVED", "CANCELLED"}
     \/ row[i].st = "APPROVED" /\ next \in {"CONFIRMED", "CANCELLED"}
  /\ row' = [row EXCEPT ![i].st = next]
  /\ UNCHANGED <<cyc, slot, swap, dec, fix, doomed, ops, unchecked>>

(* processRequest of a REGISTER request: the same decision, pending only.  *)
ProcessRegister(i, next) ==
  /\ LockFree
  /\ row[i].st = "PENDING" /\ next \in {"APPROVED", "CANCELLED"}
  /\ row' = [row EXCEPT ![i].st = next]
  /\ UNCHANGED <<cyc, slot, swap, dec, fix, doomed, ops, unchecked>>

(* cancelUpcomingShiftRegistrations reads, without a lock, upcoming        *)
(* assignments that e registered for, of all shifts or of one ...          *)
WithdrawRead(e, is) ==
  /\ Op /\ doomed[e] = {}
  /\ is # {}
  /\ \A i \in is :
       row[i].emp = e /\ row[i].st \in {"PENDING", "APPROVED"} /\ ~row[i].in
  /\ doomed' = [doomed EXCEPT ![e] = is]
  /\ UNCHANGED <<cyc, slot, row, swap, dec, fix, unchecked>>

(* ... and cancels what is still as it was read.                           *)
WithdrawWrite(e) ==
  /\ doomed[e] # {}
  /\ row' = [i \in Rows |->
       IF i \in doomed[e] /\ row[i].st \in {"PENDING", "APPROVED"} /\ ~row[i].in
       THEN [row[i] EXCEPT !.st = "CANCELLED"] ELSE row[i]]
  /\ doomed' = [doomed EXCEPT ![e] = {}]
  /\ UNCHANGED <<cyc, slot, swap, dec, fix, ops, unchecked>>

(* The write of checkInWithFace, under no store lock.                      *)
CheckIn(i) ==
  /\ row[i].st = "APPROVED" /\ ~row[i].in
  /\ row' = [row EXCEPT ![i].st = "CONFIRMED", ![i].in = TRUE]
  /\ UNCHANGED <<cyc, slot, swap, dec, fix, doomed, ops, unchecked>>

(* The write of checkOutWithFace.                                          *)
CheckOut(i) ==
  /\ row[i].in /\ row[i].st = "CONFIRMED"
  /\ row' = [row EXCEPT ![i].st = "COMPLETED"]
  /\ UNCHANGED <<cyc, slot, swap, dec, fix, doomed, ops, unchecked>>
-----------------------------------------------------------------------------
(* createShiftSwap: the holder offers the assignment to another employee.  *)
(* It reads first and takes no lock; a change that comes between its read  *)
(* and its insert leaves what the same change right after it leaves.       *)
CreateSwap(w, i, to) ==
  /\ swap[w] = NoSwap
  /\ Seated(i)
  /\ ~Conflict(to, slot[row[i].slot].hours, Live, {i}, {})
  /\ swap' = [swap EXCEPT ![w] =
       [st |-> "PENDING", row |-> i, by |-> row[i].emp, to |-> to]]
  /\ UNCHANGED <<cyc, slot, row, dec, fix, doomed, ops, unchecked>>

(* updateShiftSwapStatus and processRequest read the swap, its assignment  *)
(* and its slot before they take the lock.                                 *)
DecideRead(d, w, answer, route) ==
  LET r == row[swap[w].row] IN
  /\ Op /\ dec[d].w = None /\ swap[w].st = "PENDING"
  /\ dec' = [dec EXCEPT ![d] = [w |-> w, to |-> answer, route |-> route,
                                emp |-> r.emp, hours |-> slot[r.slot].hours]]
  /\ UNCHANGED <<cyc, slot, row, swap, fix, doomed, unchecked>>

(* Mutant: the swap's own state is not looked at under the lock.           *)
DecideWriteTwice(d) ==
  LET w == dec[d].w  i == swap[w].row IN
  /\ LockFree
  /\ w # None /\ dec[d].to = "APPROVED" /\ swap[w].st # "DELETED"
  /\ dec[d].route = "update" =>
       ~Conflict(swap[w].to, dec[d].hours, Live, {i}, {})
  /\ row[i].emp = dec[d].emp
  /\ row' = [row EXCEPT ![i].emp = swap[w].to]
  /\ swap' = [swap EXCEPT ![w].st = "APPROVED"]
  /\ dec' = [dec EXCEPT ![d] = NoDec]
  /\ unchecked' = IF dec[d].route = "process"
                       \/ dec[d].hours # slot[row[i].slot].hours
                  THEN unchecked \cup {i} ELSE unchecked
  /\ UNCHANGED <<cyc, slot, fix, doomed, ops>>

(* The approval: the time check of updateShiftSwapStatus (processRequest   *)
(* has none) uses the hours that were read; the assignment must still be   *)
(* with the employee that was read, whatever its state.                    *)
DecideWrite(d) ==
  LET w == dec[d].w  i == swap[w].row IN
  /\ LockFree
  /\ w # None /\ dec[d].to = "APPROVED" /\ swap[w].st = "PENDING"
  /\ dec[d].route = "update" =>
       ~Conflict(swap[w].to, dec[d].hours, Live, {i}, {})
  /\ row[i].emp = dec[d].emp
  /\ row' = [row EXCEPT ![i].emp = swap[w].to]
  /\ swap' = [swap EXCEPT ![w].st = "APPROVED"]
  /\ dec' = [dec EXCEPT ![d] = NoDec]
  /\ unchecked' = IF dec[d].route = "process"
                       \/ dec[d].hours # slot[row[i].slot].hours
                  THEN unchecked \cup {i} ELSE unchecked
  /\ UNCHANGED <<cyc, slot, fix, doomed, ops>>

DecideReject(d) ==
  LET w == dec[d].w IN
  /\ LockFree
  /\ w # None /\ dec[d].to = "REJECTED" /\ swap[w].st = "PENDING"
  /\ swap' = [swap EXCEPT ![w].st = "REJECTED"]
  /\ dec' = [dec EXCEPT ![d] = NoDec]
  /\ UNCHANGED <<cyc, slot, row, fix, doomed, ops, unchecked>>

(* The decision is refused: the transaction is rolled back.                *)
DecideRefused(d) ==
  LET w == dec[d].w  i == swap[w].row IN
  /\ LockFree
  /\ w # None
  /\ \/ swap[w].st # "PENDING"
     \/ /\ dec[d].to = "APPROVED"
        /\ \/ row[i].emp # dec[d].emp
           \/ dec[d].route = "update"
              /\ Conflict(swap[w].to, dec[d].hours, Live, {i}, {})
  /\ dec' = [dec EXCEPT ![d] = NoDec]
  /\ UNCHANGED <<cyc, slot, row, swap, fix, doomed, ops, unchecked>>
-----------------------------------------------------------------------------
(* updateShiftSlot: new hours are checked for everyone who holds a seat;   *)
(* a new limit may be below the seats taken.                               *)
UpdateSlot(s, h, max) ==
  /\ LockFree /\ Op
  /\ slot[s].cyc # None
  /\ h # slot[s].hours =>
       \A i \in Seats(s) : ~Conflict(row[i].emp, h, Live, {}, {s})
  /\ slot' = [slot EXCEPT ![s].hours = h, ![s].max = max]
  /\ UNCHANGED <<cyc, row, swap, dec, fix, doomed, unchecked>>

(* updateAssignmentTime: the hours of one employee.  A slot of that one    *)
(* seat is edited; otherwise the assignment moves to a slot t of its own   *)
(* and takes one seat of the old slot with it.                             *)
UpdateAssignmentTime(i, h, t) ==
  LET s      == row[i].slot
      others == Cardinality(Seats(s) \ {i})
      left   == IF slot[s].max - 1 > others THEN slot[s].max - 1
                ELSE IF others > 1 THEN others ELSE 1 IN
  /\ LockFree /\ Op
  /\ row[i].st = "APPROVED" /\ ~row[i].in
  /\ ~Conflict(row[i].emp, h, {"ACTIVE"}, {i}, {})
  /\ IF others = 0 /\ slot[s].max = 1
     THEN t = s /\ slot' = [slot EXCEPT ![s].hours = h] /\ row' = row
     ELSE /\ slot[t].cyc = None
          /\ slot' = [slot EXCEPT
               ![t] = [cyc |-> slot[s].cyc, hours |-> h, max |-> 1],
               ![s].max = IF @ = 0 THEN 0 ELSE left]
          /\ row' = [row EXCEPT ![i].slot = t]
  /\ UNCHANGED <<cyc, swap, dec, fix, doomed, unchecked>>

(* deleteShiftSlot: the slot's assignments and their swaps go with it,     *)
(* through the foreign keys.                                               *)
DeleteSlot(s) ==
  LET gone == {i \in Rows : row[i].slot = s} IN
  /\ LockFree /\ Op
  /\ slot[s].cyc # None
  /\ slot' = [slot EXCEPT ![s] = NoSlot]
  /\ row' = [i \in Rows |->
       IF i \in gone THEN [NoRow EXCEPT !.st = "DELETED"] ELSE row[i]]
  /\ swap' = [w \in Swaps |->
       IF swap[w].row \in gone THEN [swap[w] EXCEPT !.st = "DELETED"] ELSE swap[w]]
  /\ UNCHANGED <<cyc, dec, fix, doomed, unchecked>>

(* stopWorkCycle at once, or processExpiredCycles at the appointed time.   *)
StopCycle(c) ==
  /\ LockFree /\ Op
  /\ cyc[c] = "ACTIVE"
  /\ cyc' = [cyc EXCEPT ![c] = "STOPPED"]
  /\ UNCHANGED <<slot, row, swap, dec, fix, doomed, unchecked>>

(* processExpiredCycles, past the end date.                                *)
ExpireCycle(c) ==
  /\ LockFree /\ Op
  /\ cyc[c] = "ACTIVE"
  /\ cyc' = [cyc EXCEPT ![c] = "EXPIRED"]
  /\ UNCHANGED <<slot, row, swap, dec, fix, doomed, unchecked>>

(* activateWorkCycle, from any state; nobody's times are checked.          *)
ActivateCycle(c) ==
  /\ LockFree /\ Op
  /\ cyc[c] \in {"STOPPED", "EXPIRED"}
  /\ cyc' = [cyc EXCEPT ![c] = "ACTIVE"]
  /\ unchecked' = unchecked \cup
       {i \in Rows : row[i].slot # None /\ slot[row[i].slot].cyc = c}
  /\ UNCHANGED <<slot, row, swap, dec, fix, doomed>>
-----------------------------------------------------------------------------
Registering ==
  \/ \E e \in Emps, s \in Slots, i \in Rows :
       \/ \E byOwner \in BOOLEAN : Register(e, s, i, byOwner)
       \/ FixedSlot(e, s, i)
  \/ \E e \in Emps, c \in Cycles, ss \in SUBSET Slots : FixedRead(e, c, ss)
  \/ \E e \in Emps :
       WithdrawWrite(e) \/ \E is \in SUBSET Rows : WithdrawRead(e, is)

Working ==
  \E i \in Rows :
    \/ \E next \in {"APPROVED", "CONFIRMED", "CANCELLED"} :
         UpdateAssignmentStatus(i, next) \/ ProcessRegister(i, next)
    \/ CheckIn(i) \/ CheckOut(i)

Swapping ==
  \/ \E w \in Swaps, i \in Rows, to \in Emps : CreateSwap(w, i, to)
  \/ \E d \in Deciders :
       \/ \E w \in Swaps, answer \in {"APPROVED", "REJECTED"},
             route \in {"update", "process"} : DecideRead(d, w, answer, route)
       \/ DecideWrite(d) \/ DecideReject(d) \/ DecideRefused(d)

Editing ==
  \/ \E c \in Cycles, ss \in SUBSET Slots \ {{}} :
       \E plan \in [ss -> Hours], max \in MaxStaff, es \in SUBSET Emps :
         CreateSchedule(c, plan, max, es)
  \/ \E s \in Slots : DeleteSlot(s) \/
       \E h \in Hours, max \in MaxStaff : UpdateSlot(s, h, max)
  \/ \E i \in Rows, h \in Hours, t \in Slots : UpdateAssignmentTime(i, h, t)
  \/ \E c \in Cycles : StopCycle(c) \/ ExpireCycle(c) \/ ActivateCycle(c)

Next == Registering \/ Working \/ Swapping \/ Editing

Spec == Init /\ [][Next]_vars
-----------------------------------------------------------------------------
(* One employee holds the seats i and j, in two slots of active cycles at  *)
(* overlapping times.                                                      *)
DoubleBooked(i, j) ==
  /\ Seated(i) /\ Seated(j) /\ row[i].emp = row[j].emp
  /\ row[i].slot # row[j].slot
  /\ cyc[slot[row[i].slot].cyc] = "ACTIVE"
  /\ cyc[slot[row[j].slot].cyc] = "ACTIVE"
  /\ Overlap(slot[row[i].slot].hours, slot[row[j].slot].hours)

(* Nobody is booked twice, unless one of the two assignments came there by *)
(* a route that does not compare the times under the store lock: a swap    *)
(* approved through processRequest or on hours read before they changed,   *)
(* or a cycle that was activated again.                                    *)
NoDoubleBooking ==
  \A i, j \in Rows : DoubleBooked(i, j) => i \in unchecked \/ j \in unchecked

(* No step seats one more employee in a slot beyond its limit, whoever     *)
(* registers and whatever the owner edits meanwhile.                       *)
NoSeatBeyondLimit ==
  [][\A s \in Slots :
       Cardinality(Seats(s)') > Cardinality(Seats(s)) /\ slot'[s].max # 0
       => Cardinality(Seats(s)') <= slot'[s].max]_vars

(* An assignment changes hands only in the step in which a pending swap of *)
(* that assignment is approved, and goes to the employee the swap names.   *)
HandedOverBySwap ==
  [][\A i \in Rows :
       row'[i].emp # row[i].emp /\ row[i].st # "none" /\ row'[i].st # "DELETED"
       => \E w \in Swaps :
            /\ swap[w].st = "PENDING" /\ swap'[w].st = "APPROVED"
            /\ swap[w].row = i /\ swap[w].to = row'[i].emp]_vars

(* An assignment that was checked in is not cancelled any more, and a      *)
(* cancelled one does not come back.                                       *)
WorkedOrCancelledStays ==
  [][\A i \in Rows :
       /\ row[i].in => row'[i].st \in {"CONFIRMED", "COMPLETED", "DELETED"}
       /\ row[i].st = "CANCELLED" => row'[i].st \in {"CANCELLED", "DELETED"}]_vars

(* Why: assignments are numbered as they are inserted, so no insert meets  *)
(* an old one, and whoever was checked in is confirmed or has completed.   *)
RowsInOrder ==
  /\ \E n \in 0 .. MaxRows : {i \in Rows : row[i].st # "none"} = 1 .. n
  /\ \A i \in Rows : row[i].st = "none" => row[i] = NoRow
WorkedIsConfirmed ==
  \A i \in Rows : row[i].in => row[i].st \in {"CONFIRMED", "COMPLETED"}

(* What changing the roster promises: rows keep their foreign keys, no     *)
(* seat is given beyond the limit, assignments change hands by swaps only, *)
(* and what was worked or cancelled stays so.                              *)
RosterPromise ==
  /\ [](TypeOK /\ RowsInOrder /\ WorkedIsConfirmed)
  /\ NoSeatBeyondLimit
  /\ HandedOverBySwap
  /\ WorkedOrCancelledStays

(* An employee has at most one seat in a slot.                             *)
OneSeatPerSlot ==
  \A s \in Slots : \A i, j \in Seats(s) : row[i].emp = row[j].emp => i = j

(* A swap takes an assignment from the employee who asked for it.          *)
TakenFromRequester ==
  [][\A w \in Swaps :
       swap[w].st = "PENDING" /\ swap'[w].st = "APPROVED"
       => row[swap[w].row].emp = swap[w].by]_vars
=============================================================================
