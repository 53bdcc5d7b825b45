------------------------------ MODULE WorkCycles ------------------------------
(***************************************************************************)
(* The work cycles of one store and the nightly jobs that fill them with   *)
(* slots (service-parts/scheduling.part.ts).  A cycle is                   *)
(*   "dated"   a dated cycle, copied from its first day every night;       *)
(*   "weekly"  an open-ended cycle with a template per weekday;            *)
(*   "series"  an open-ended recurring schedule of createShiftSchedule,    *)
(*             kept filled up to a horizon.                                *)
(*                                                                         *)
(* Stopping, activating, expiring and the nightly copy of dated cycles     *)
(* hold the store's shift-availability lock.  Creating a cycle, changing   *)
(* it, adding slots and filling the open-ended ones go without it; what    *)
(* they have read is in their desk.  Deleting one slot is ShiftRoster's.   *)
(***************************************************************************)
EXTENDS Integers, FiniteSets

CONSTANTS
  CycleIds, ShiftIds, CycleStaff,
  CycleDesks,       \* requests and nightly jobs in flight
  ShiftHours,       \* the hours a shift may have; different ones never overlap
  WeekLength,       \* days of a week
  Horizon,          \* SHIFT_SCHEDULE_HORIZON_DAYS
  Interval,         \* a series recurs every so many days
  NoDay,            \* no end date, no scheduled stop
  MaxCycleDay, MaxSlots,
  MaxCycleOps       \* requests of the owner

VARIABLES
  cycleDay,     \* today
  shiftRows,    \* work_shifts: [active, hours]
  cycleRows,    \* work_cycles
  slotRows,     \* shift_slots with the staff holding a seat
  cycleDesk,
  nightly,      \* jobs of tonight that have run
  crossed,      \* history: slots of a cycle were made between the look and the
                \* save of another filling of it
  cycleOps

cycleVars ==
  <<cycleDay, shiftRows, cycleRows, slotRows, cycleDesk, nightly, crossed,
    cycleOps>>

Days == 0 .. MaxCycleDay + Horizon
CycleStatuses == {"ACTIVE", "STOPPED", "EXPIRED"}

(* plan is the weekly template, or the shift of a series; broken says that *)
(* a night passed without the series being filled.                         *)
WorkCycle ==
  [kind : {"none", "dated", "weekly", "series"}, status : CycleStatuses,
   start : Days, end : Days \cup {NoDay}, stopAt : Days \cup {NoDay},
   plan : SUBSET (ShiftIds \X (0 .. WeekLength - 1)), shift : ShiftIds \cup {NoDay},
   broken : BOOLEAN]
NoCycle ==
  [kind |-> "none", status |-> "STOPPED", start |-> 0, end |-> NoDay,
   stopAt |-> NoDay, plan |-> {}, shift |-> NoDay, broken |-> FALSE]

(* own is the slot's own hours, or NoDay where it takes those of its       *)
(* shift; by is history: the owner made it, or a nightly copy of the first *)
(* day did, or the filling of an open-ended cycle.                         *)
ShiftSlot ==
  [n : 1 .. MaxSlots, cycle : CycleIds, shift : ShiftIds, day : Days,
   own : ShiftHours \cup {NoDay}, held : SUBSET CycleStaff,
   by : {"owner", "copy", "fill"}]

GetDayOfWeek(d) == d % WeekLength
SlotsOn(c, d) == {s \in slotRows : s.cycle = c /\ s.day = d}
SlotOf(c, x, d) == {s \in SlotsOn(c, d) : s.shift = x}
Kind(k) == {c \in CycleIds : cycleRows[c].kind = k}
Active == {c \in CycleIds : cycleRows[c].kind # "none" /\ cycleRows[c].status = "ACTIVE"}

(* matchesShiftRecurrence of an unending daily rule with an interval.      *)
MatchesShiftRecurrence(d, start) == d >= start /\ (d - start) % Interval = 0
GenerateShiftScheduleDates(start) ==
  {d \in start .. start + Horizon - 1 : MatchesShiftRecurrence(d, start)}

(* Rows that are numbered from the first free number; a request may list   *)
(* the same shift and day again.                                           *)
FreeNumber(k) ==
  CHOOSE n \in 1 .. MaxSlots : Cardinality({m \in 1 .. n :
    \A s \in slotRows : s.n # m}) = k /\ \A s \in slotRows : s.n # n
NewSlots(rows) ==
  LET order == CHOOSE f \in [rows -> 1 .. Cardinality(rows)] :
                 \A a, b \in rows : a # b => f[a] # f[b]
  IN {[n |-> FreeNumber(order[r]), cycle |-> r.cycle, shift |-> r.shift,
       day |-> r.day, own |-> r.own, held |-> r.held, by |-> r.by] : r \in rows}
Room(rows) == Cardinality(slotRows) + Cardinality(rows) <= MaxSlots
AddSlots(rows) == Room(rows) /\ slotRows' = slotRows \cup NewSlots(rows)
Blank(c, x, d) ==
  [cycle |-> c, shift |-> x, day |-> d, own |-> NoDay, held |-> {},
   by |-> "fill", again |-> 0]
Listed(c, x, d, again) ==
  [Blank(c, x, d) EXCEPT !.by = "owner", !.again = again]

(* from and till are the dates of the cycle as the desk knows them.        *)
IdleDesk == [pc |-> "idle", c |-> NoDay, from |-> 0, till |-> 0, rows |-> {}]
DeskIdle(w) == cycleDesk[w] = IdleDesk
DeskTo(w, o) == cycleDesk' = [cycleDesk EXCEPT ![w] = o]

(* The lock of the store is held by a nightly copy that has looked at the  *)
(* day; the other holders take one step.                                   *)
StoreLockFree == \A w \in CycleDesks : cycleDesk[w].pc # "copy"

(* Another desk has looked for slots of c and will make some.              *)
Crosses(w, c) ==
  \E v \in CycleDesks \ {w} :
    cycleDesk[v].c = c /\ cycleDesk[v].pc \in {"copy", "save"}

CyclesInit ==
  /\ cycleDay = 0
  /\ LET hours == CHOOSE f \in [ShiftIds -> ShiftHours] :
                    \A x, y \in ShiftIds : x # y => f[x] # f[y]
     IN shiftRows = [x \in ShiftIds |-> [active |-> TRUE, hours |-> hours[x]]]
  /\ cycleRows = [c \in CycleIds |-> NoCycle]
  /\ slotRows = {}
  /\ cycleDesk = [w \in CycleDesks |-> IdleDesk]
  /\ nightly = {}
  /\ crossed = FALSE
  /\ cycleOps = 0

-----------------------------------------------------------------------------
(* Creating cycles                                                         *)

(* calculateEndDate: a day, a week, or none.                               *)
CalculateEndDate(start) == {start, start + WeekLength - 1}

(* The partial unique index: at most one active cycle that is no series.   *)
IndexAllows(rows) ==
  Cardinality({c \in CycleIds : rows[c].kind \in {"dated", "weekly"}
                                /\ rows[c].status = "ACTIVE"}) <= 1
(* createWorkCycleInternal looks for an active cycle and for the shifts... *)
CreateWorkCycle(w, c) ==
  /\ DeskIdle(w)
  /\ cycleRows[c] = NoCycle
  /\ \A v \in CycleDesks : cycleDesk[v].c # c
  /\ Active \ Kind("series") = {}
  /\ DeskTo(w, [IdleDesk EXCEPT !.pc = "create", !.c = c])
  /\ UNCHANGED <<cycleDay, shiftRows, cycleRows, slotRows, nightly, crossed>>

(* ...saves the cycle, which the index may refuse...                       *)
SaveWorkCycle(w, kind, plan) ==
  LET c == cycleDesk[w].c
      row(end) == [NoCycle EXCEPT !.kind = kind, !.status = "ACTIVE",
                     !.start = cycleDay, !.end = end, !.plan = plan]
  IN
  /\ cycleDesk[w].pc = "create"
  /\ \E end \in IF kind = "dated" THEN CalculateEndDate(cycleDay) ELSE {NoDay} :
       LET rows == [cycleRows EXCEPT ![c] = row(end)] IN
       IF IndexAllows(rows)
       THEN /\ cycleRows' = rows
            /\ DeskTo(w, [IdleDesk EXCEPT
                   !.pc = IF kind = "dated" THEN "list" ELSE "fill",
                   !.c = c, !.from = cycleDay, !.till = end])
       ELSE DeskTo(w, IdleDesk) /\ UNCHANGED cycleRows
  /\ UNCHANGED <<cycleDay, shiftRows, slotRows, nightly, crossed>>

(* ...and fills it: with slots the owner lists (here of the first day), or *)
(* with every shift on every day (autoGenerateSlots), in one save.  The    *)
(* shifts of `twice` are listed twice.                                     *)
AutoGenerateSlots(w, S, twice, all) ==
  LET c == cycleDesk[w].c
      days == IF all THEN cycleDesk[w].from .. cycleDesk[w].till
              ELSE {cycleDesk[w].from}
  IN
  /\ cycleDesk[w].pc = "list"
  /\ AddSlots({Listed(c, x, d, 0) : x \in S, d \in days}
               \cup {Listed(c, x, d, 1) : x \in twice, d \in days})
  /\ DeskTo(w, IdleDesk)
  /\ crossed' = (crossed \/ Crosses(w, c))
  /\ UNCHANGED <<cycleDay, shiftRows, cycleRows, nightly>>

(* generateSlotsFromTemplate: the days of the template that have no slot   *)
(* yet are looked up...                                                    *)
Templated(c, days) ==
  {Blank(c, t[1], d) : <<t, d>> \in
     {<<t, d>> \in cycleRows[c].plan \X days :
        /\ t[2] = GetDayOfWeek(d)
        /\ shiftRows[t[1]].active
        /\ SlotOf(c, t[1], d) = {}}}
GenerateFromTemplate(w, c, days) ==
  /\ DeskTo(w, [IdleDesk EXCEPT !.pc = "save", !.c = c, !.rows = Templated(c, days)])
  /\ crossed' = (crossed \/ Crosses(w, c))

FillFromTemplate(w) ==
  LET c == cycleDesk[w].c IN
  /\ cycleDesk[w].pc = "fill"
  /\ GenerateFromTemplate(w, c, cycleDesk[w].from .. cycleDesk[w].from + Horizon - 1)
  /\ UNCHANGED <<cycleDay, shiftRows, cycleRows, slotRows, nightly>>

(* ...and saved.                                                           *)
SaveGenerated(w) ==
  /\ cycleDesk[w].pc = "save"
  /\ AddSlots(cycleDesk[w].rows)
  /\ DeskTo(w, IdleDesk)
  /\ UNCHANGED <<cycleDay, shiftRows, cycleRows, nightly, crossed>>

(* createShiftSchedule of an unending rule: the cycle and its slots up to  *)
(* the horizon in one transaction under the lock.                          *)
CreateSeries(c, x) ==
  /\ StoreLockFree
  /\ cycleRows[c] = NoCycle
  /\ \A v \in CycleDesks : cycleDesk[v].c # c
  /\ shiftRows[x].active
  /\ cycleRows' = [cycleRows EXCEPT ![c] =
       [NoCycle EXCEPT !.kind = "series", !.status = "ACTIVE",
                       !.start = cycleDay, !.shift = x]]
  /\ AddSlots({[Listed(c, x, d, 0) EXCEPT !.own = shiftRows[x].hours] :
                 d \in GenerateShiftScheduleDates(cycleDay)})
  /\ UNCHANGED <<cycleDay, shiftRows, cycleDesk, nightly, crossed>>

(* createShiftSlots: the owner adds slots to any cycle, ended ones and     *)
(* deleted shifts included, and nothing is looked up or locked; here they  *)
(* have the hours of their shift.                                          *)
CreateShiftSlots(c, x, d, copies) ==
  /\ cycleRows[c].kind # "none"
  /\ AddSlots({Listed(c, x, d, k) : k \in 1 .. copies})
  /\ crossed' = (crossed \/ \E w \in CycleDesks : Crosses(w, c))
  /\ UNCHANGED <<cycleDay, shiftRows, cycleRows, cycleDesk, nightly>>

-----------------------------------------------------------------------------
(* Changing, stopping and activating                                       *)

(* updateWorkCycle: an unlocked update of what the request names; the      *)
(* index may refuse the change of kind.  What a series has been filled     *)
(* with is not made to fit.                                                *)
Changed(c) ==
  LET r == cycleRows[c] IN
  UNION {{[r EXCEPT !.start = d] : d \in {cycleDay, cycleDay + 1}},
         {[r EXCEPT !.end = d] : d \in ({cycleDay - 1, cycleDay} \cap Days) \cup {NoDay}},
         {[r EXCEPT !.stopAt = d] : d \in {cycleDay, NoDay}},
         {[r EXCEPT !.shift = x] : x \in ShiftIds},
         {[r EXCEPT !.kind = k] : k \in {"dated", "weekly"}},
         IF r.shift # NoDay THEN {[r EXCEPT !.kind = "series"]} ELSE {}} \ {r}
UpdateWorkCycle(c, row) ==
  /\ cycleRows[c].kind # "none"
  /\ IndexAllows([cycleRows EXCEPT ![c] = row])
  /\ cycleRows' = [cycleRows EXCEPT ![c] =
       IF row.end = @.end /\ row.stopAt = @.stopAt THEN [row EXCEPT !.broken = TRUE] ELSE row]
  /\ UNCHANGED <<cycleDay, shiftRows, slotRows, cycleDesk, nightly, crossed>>

StopWorkCycle(c) ==
  /\ StoreLockFree
  /\ c \in Active
  /\ \/ cycleRows' = [cycleRows EXCEPT ![c].status = "STOPPED", ![c].broken = TRUE]
     \/ /\ cycleRows[c].stopAt = NoDay
        /\ cycleRows' = [cycleRows EXCEPT ![c].stopAt = cycleDay + 1]
  /\ UNCHANGED <<cycleDay, shiftRows, slotRows, cycleDesk, nightly, crossed>>

(* A scheduled stop and the end date stay as they are: the next night ends *)
(* the cycle again.                                                        *)
ActivateWorkCycle(c) ==
  LET rows == [cycleRows EXCEPT ![c].status = "ACTIVE"] IN
  /\ StoreLockFree
  /\ cycleRows[c].kind # "none"
  /\ c \notin Active
  /\ cycleRows[c].kind # "series" => (Active \ Kind("series")) \ {c} = {}
  /\ IndexAllows(rows)
  /\ cycleRows' = rows
  /\ UNCHANGED <<cycleDay, shiftRows, slotRows, cycleDesk, nightly, crossed>>

(* processExpiredCycles lists the cycles whose end has passed...           *)
ListExpired(w, c) ==
  /\ DeskIdle(w)
  /\ c \in Active
  /\ cycleRows[c].end # NoDay /\ cycleRows[c].end < cycleDay
  /\ DeskTo(w, [IdleDesk EXCEPT !.pc = "expire", !.c = c])
  /\ UNCHANGED <<cycleDay, shiftRows, cycleRows, slotRows, nightly, crossed>>

(* ...and ends each by an update of its own, if it is still active.        *)
ProcessExpired(w) ==
  LET c == cycleDesk[w].c IN
  /\ cycleDesk[w].pc = "expire"
  /\ StoreLockFree
  /\ cycleRows' = IF c \in Active THEN [cycleRows EXCEPT ![c].status = "EXPIRED"]
                  ELSE cycleRows
  /\ DeskTo(w, IdleDesk)
  /\ UNCHANGED <<cycleDay, shiftRows, slotRows, nightly, crossed>>

ProcessScheduledStop(c) ==
  /\ StoreLockFree
  /\ c \in Active
  /\ cycleRows[c].stopAt # NoDay /\ cycleRows[c].stopAt <= cycleDay
  /\ cycleRows' = [cycleRows EXCEPT ![c].status = "STOPPED", ![c].broken = TRUE]
  /\ UNCHANGED <<cycleDay, shiftRows, slotRows, cycleDesk, nightly, crossed>>

-----------------------------------------------------------------------------
(* The nightly jobs                                                        *)

(* generateDailySlotsForAllCycles lists the dated cycles...                *)
GenerateDailyBegins(w, c) ==
  /\ DeskIdle(w)
  /\ c \in Active \cap Kind("dated")
  /\ cycleRows[c].end # NoDay => cycleRows[c].end >= cycleDay
  /\ DeskTo(w, [IdleDesk EXCEPT !.pc = "daily", !.c = c,
                   !.from = cycleRows[c].start, !.till = cycleRows[c].end])
  /\ UNCHANGED <<cycleDay, shiftRows, cycleRows, slotRows, nightly, crossed>>

(* ...takes the lock and looks whether today or tomorrow has slots...      *)
LookAtDay(w, d) ==
  LET desk == cycleDesk[w] IN
  /\ desk.pc = "daily"
  /\ d \in {cycleDay, cycleDay + 1}
  /\ desk.from <= d /\ (desk.till # NoDay => d <= desk.till)
  /\ desk.c \in Active
  /\ DeskTo(w, [desk EXCEPT !.pc = "copy", !.rows = {d}])
  /\ crossed' = (crossed \/ Crosses(w, desk.c))
  /\ UNCHANGED <<cycleDay, shiftRows, cycleRows, slotRows, nightly>>
CopyTwice(w, d) == StoreLockFree /\ LookAtDay(w, d)
GenerateDailySlots(w, d) ==
  /\ StoreLockFree
  /\ SlotsOn(cycleDesk[w].c, d) = {}
  /\ LookAtDay(w, d)

(* ...and copies the first day to it, with the seats held on it.           *)
CopiedDay(c, first, d) ==
  {[cycle |-> c, shift |-> s.shift, day |-> d, own |-> s.own, held |-> s.held,
    by |-> "copy", again |-> s.n] :
     s \in {s \in SlotsOn(c, first) : shiftRows[s.shift].active}}
CopyFirstDay(w) ==
  LET desk == cycleDesk[w] IN
  /\ desk.pc = "copy"
  /\ \E d \in desk.rows : AddSlots(CopiedDay(desk.c, desk.from, d))
  /\ DeskTo(w, [desk EXCEPT !.pc = "daily", !.rows = {}])
  /\ UNCHANGED <<cycleDay, shiftRows, cycleRows, nightly, crossed>>
GenerateDailyEnds(w) ==
  /\ cycleDesk[w].pc = "daily"
  /\ DeskTo(w, IdleDesk)
  /\ UNCHANGED <<cycleDay, shiftRows, cycleRows, slotRows, nightly, crossed>>

(* generateDailySlotsForIndefiniteCycles: a series whose rule falls on the *)
(* last day of the horizon gets a slot there, for its own shift and every  *)
(* other shift it has slots of.                                            *)
SeriesShifts(c) == {cycleRows[c].shift} \cup {s.shift : s \in {t \in slotRows : t.cycle = c}}
HorizonRows(c) ==
  LET d == cycleDay + Horizon - 1 IN
  {[Blank(c, x, d) EXCEPT !.own = shiftRows[x].hours] :
     x \in {x \in SeriesShifts(c) : SlotOf(c, x, d) = {} /\ shiftRows[x].active}}
GenerateSeries(w, c) ==
  /\ DeskIdle(w)
  /\ c \in Active \cap Kind("series")
  /\ c \notin nightly
  /\ nightly' = nightly \cup {c}
  /\ IF MatchesShiftRecurrence(cycleDay + Horizon - 1, cycleRows[c].start)
     THEN /\ DeskTo(w, [IdleDesk EXCEPT !.pc = "save", !.c = c, !.rows = HorizonRows(c)])
          /\ crossed' = (crossed \/ Crosses(w, c))
     ELSE UNCHANGED <<cycleDesk, crossed>>
  /\ UNCHANGED <<cycleDay, shiftRows, cycleRows, slotRows>>

(* A weekly cycle that has no slot tomorrow gets those of its template.    *)
GenerateWeekly(w, c) ==
  /\ DeskIdle(w)
  /\ c \in Active \cap Kind("weekly")
  /\ SlotsOn(c, cycleDay + 1) = {}
  /\ GenerateFromTemplate(w, c, {cycleDay + 1})
  /\ UNCHANGED <<cycleDay, shiftRows, cycleRows, slotRows, nightly>>

(* The process stops in the middle of a job or of a request.               *)
CycleCrash(w) ==
  /\ ~DeskIdle(w)
  /\ DeskTo(w, IdleDesk)
  /\ LET c == cycleDesk[w].c IN
     cycleRows' = IF cycleDesk[w].pc = "save" /\ cycleRows[c].kind = "series"
                  THEN [cycleRows EXCEPT ![c].broken = TRUE] ELSE cycleRows
  /\ UNCHANGED <<cycleDay, shiftRows, slotRows, nightly, crossed>>

(* Midnight.  A series the job has not come to tonight has missed a night, *)
(* and so has one whose slots are still to be saved.                       *)
Midnight ==
  /\ cycleDay < MaxCycleDay
  /\ cycleDay' = cycleDay + 1
  /\ nightly' = {}
  /\ cycleRows' = [c \in CycleIds |->
       IF /\ cycleRows[c].kind = "series"
          /\ \/ c \notin nightly \/ cycleRows[c].status # "ACTIVE"
             \/ \E w \in CycleDesks : cycleDesk[w].c = c /\ cycleDesk[w].pc = "save"
       THEN [cycleRows[c] EXCEPT !.broken = TRUE] ELSE cycleRows[c]]
  /\ UNCHANGED <<shiftRows, slotRows, cycleDesk, crossed>>

-----------------------------------------------------------------------------
(* Shifts                                                                  *)

SlotHours(s) == IF s.own # NoDay THEN s.own ELSE shiftRows[s.shift].hours
Rostered == {s \in slotRows : cycleRows[s.cycle].status \in {"ACTIVE", "EXPIRED"}}
Clash(s, t, hs, ht) == s.day = t.day /\ s.n # t.n /\ hs = ht /\ s.held \cap t.held # {}

(* A seat is taken: ShiftRoster's Register, or the owner's assignment.     *)
HoldSeat(s, e) ==
  /\ StoreLockFree
  /\ s \in slotRows /\ s.day >= cycleDay
  /\ s.cycle \in Active
  /\ e \notin s.held
  /\ \A t \in Rostered :
       ~(t.day = s.day /\ SlotHours(t) = SlotHours(s) /\ e \in t.held)
  /\ slotRows' = (slotRows \ {s}) \cup {[s EXCEPT !.held = @ \cup {e}]}
  /\ UNCHANGED <<cycleDay, shiftRows, cycleRows, cycleDesk, nightly, crossed>>

(* updateAssignmentTime: other hours for one holder of a slot, who has no  *)
(* other shift then.  A slot for one takes them; of any other slot a slot  *)
(* of the holder's own is split off.                                       *)
UpdateAssignmentTime(s, e, hours, split) ==
  LET retimed == [s EXCEPT !.own = hours]
      left == [s EXCEPT !.held = @ \ {e}]
      own == [cycle |-> s.cycle, shift |-> s.shift, day |-> s.day, own |-> hours,
              held |-> {e}, by |-> "owner", again |-> 0]
  IN
  /\ StoreLockFree
  /\ s \in slotRows /\ e \in s.held
  /\ \A t \in slotRows \ {s} :
       ~(t.cycle \in Active /\ t.day = s.day /\ SlotHours(t) = hours /\ e \in t.held)
  /\ s.held # {e} => split
  /\ IF split
     THEN /\ Room({own})
          /\ slotRows' = (slotRows \ {s}) \cup {left} \cup NewSlots({own})
     ELSE slotRows' = (slotRows \ {s}) \cup {retimed}
  /\ UNCHANGED <<cycleDay, shiftRows, cycleRows, cycleDesk, nightly, crossed>>

(* assertTemplateRetimeFree: with the new hours no holder of an upcoming   *)
(* slot of the shift has another shift at the same time.                   *)
RetimeFree(x, hours) ==
  LET at(s) == IF s.own # NoDay THEN s.own
               ELSE IF s.shift = x THEN hours ELSE shiftRows[s.shift].hours
  IN \A s \in Rostered, t \in Rostered :
       (s.shift = x /\ s.day >= cycleDay) => ~Clash(s, t, at(s), at(t))
UpdateWorkShift(x, hours) ==
  /\ StoreLockFree
  /\ shiftRows[x].active
  /\ hours # shiftRows[x].hours
  /\ RetimeFree(x, hours)
  /\ shiftRows' = [shiftRows EXCEPT ![x].hours = hours]
  /\ UNCHANGED <<cycleDay, cycleRows, slotRows, cycleDesk, nightly, crossed>>

(* deleteWorkShift removes the slots that have not begun, unless somebody  *)
(* holds a seat on one; begun tells whether today's have.                  *)
DeleteWorkShift(x, begun) ==
  LET upcoming == {s \in Rostered : s.shift = x /\
                     (s.day > cycleDay \/ (s.day = cycleDay /\ ~begun))}
  IN
  /\ StoreLockFree
  /\ shiftRows[x].active
  /\ \A s \in upcoming : s.held = {}
  /\ slotRows' = slotRows \ upcoming
  /\ shiftRows' = [shiftRows EXCEPT ![x].active = FALSE]
  /\ UNCHANGED <<cycleDay, cycleRows, cycleDesk, nightly, crossed>>

-----------------------------------------------------------------------------
(* A request or a job takes an idle desk; which one makes no difference.   *)
IdleOne == CHOOSE w \in CycleDesks : DeskIdle(w)

CyclesNext ==
  \/ /\ cycleOps < MaxCycleOps
     /\ cycleOps' = cycleOps + 1
     /\ \/ \E c \in CycleIds :
             \/ \E w \in CycleDesks : DeskIdle(w) /\ w = IdleOne /\ CreateWorkCycle(w, c)
             \/ \E x \in ShiftIds : CreateSeries(c, x)
             \/ \E d \in cycleDay .. cycleDay + 1, x \in ShiftIds, copies \in 1 .. 2 :
                  CreateShiftSlots(c, x, d, copies)
             \/ \E row \in Changed(c) : UpdateWorkCycle(c, row)
             \/ StopWorkCycle(c)
             \/ ActivateWorkCycle(c)
        \/ \E x \in ShiftIds :
             \/ \E hours \in ShiftHours : UpdateWorkShift(x, hours)
             \/ \E begun \in BOOLEAN : DeleteWorkShift(x, begun)
        \/ \E s \in slotRows, e \in CycleStaff, hours \in ShiftHours, split \in BOOLEAN :
             UpdateAssignmentTime(s, e, hours, split)
  \/ /\ \/ \E w \in CycleDesks, c \in CycleIds :
             /\ DeskIdle(w) /\ w = IdleOne
             /\ \/ GenerateDailyBegins(w, c)
                \/ GenerateSeries(w, c)
                \/ GenerateWeekly(w, c)
                \/ ListExpired(w, c)
        \/ \E w \in CycleDesks :
             \/ SaveWorkCycle(w, "dated", {})
             \/ \E x \in ShiftIds :
                  shiftRows[x].active /\ SaveWorkCycle(w, "weekly", {<<x, 0>>})
             \/ \E S \in SUBSET ShiftIds \ {{}}, all \in BOOLEAN :
                  \E twice \in SUBSET S : AutoGenerateSlots(w, S, twice, all)
             \/ FillFromTemplate(w)
             \/ SaveGenerated(w)
             \/ \E d \in Days : GenerateDailySlots(w, d)
             \/ CopyFirstDay(w)
             \/ ProcessExpired(w)
             \/ GenerateDailyEnds(w)
             \/ CycleCrash(w)
        \/ \E c \in CycleIds : ProcessScheduledStop(c)
        \/ \E s \in slotRows, e \in CycleStaff : HoldSeat(s, e)
        \/ Midnight
     /\ UNCHANGED cycleOps

CyclesSpec == CyclesInit /\ [][CyclesNext]_cycleVars

-----------------------------------------------------------------------------
CyclesTypeOK ==
  /\ cycleDay \in 0 .. MaxCycleDay
  /\ shiftRows \in [ShiftIds -> [active : BOOLEAN, hours : ShiftHours]]
  /\ \A c \in CycleIds : cycleRows[c] \in WorkCycle
  /\ slotRows \subseteq ShiftSlot
  /\ \A s, t \in slotRows : s.n = t.n => s = t
  /\ nightly \subseteq CycleIds

(* "One ACTIVE cycle per store applies to old-style cycles only": however  *)
(* creations and activations race, a store never runs two of them.         *)
OneOpenCycle == Cardinality(Active \ Kind("series")) <= 1

(* "Running twice creates nothing twice": a nightly copy never comes to a  *)
(* day that another copy has come to, however many processes run the jobs, *)
(* whatever the owner does in between.  Neither it nor the filling of an   *)
(* open-ended cycle adds to slots that are there, but where slots of the   *)
(* cycle were made between its look and its save: those writers take no    *)
(* common lock.                                                            *)
NightlyAddsOnce ==
  \A s \in slotRows' \ slotRows : \A t \in slotRows :
    (/\ \A u \in slotRows : u.n # s.n
     /\ s.by # "owner" /\ t.cycle = s.cycle /\ t.day = s.day)
    => \/ s.by = "copy" /\ t.by # "copy" /\ crossed'
       \/ s.by = "fill" /\ (t.shift # s.shift \/ crossed')

(* The nightly copy listed its cycle some time before: a cycle stopped or  *)
(* a shift deleted meanwhile gets no slots.                                *)
NightlyRespectsStop ==
  \A s \in slotRows' \ slotRows :
    (s.by = "copy" /\ \A t \in slotRows : t.n # s.n)
    => (s.cycle \in Active /\ shiftRows[s.shift].active)

(* A series that was filled every night has a slot on every day of its     *)
(* rule up to the horizon, as long as its shift exists.  A night that was  *)
(* missed is never made up for.                                            *)
NoGaps ==
  \A c \in Kind("series") :
    (~cycleRows[c].broken /\ shiftRows[cycleRows[c].shift].active) =>
      \A d \in cycleRows[c].start ..
               cycleDay + Horizon - (IF c \in nightly THEN 1 ELSE 2) :
        (MatchesShiftRecurrence(d, cycleRows[c].start)
          /\ \A w \in CycleDesks : cycleDesk[w].c = c => cycleDesk[w].pc # "save")
        => SlotOf(c, cycleRows[c].shift, d) # {}

(* New hours of a shift never put somebody on two shifts at the same time: *)
(* whoever is on two of them from today on was so before.                  *)
RetimeKeepsApart ==
  shiftRows' # shiftRows /\ slotRows' = slotRows =>
    \A s, t \in Rostered :
      (s.day >= cycleDay /\ Clash(s, t, SlotHours(s)', SlotHours(t)'))
      => Clash(s, t, SlotHours(s), SlotHours(t))

(* What the cycles of a store promise: the five properties above.          *)
WorkCyclesPromise ==
  /\ [](CyclesTypeOK /\ OneOpenCycle /\ NoGaps)
  /\ [][NightlyAddsOnce /\ NightlyRespectsStop /\ RetimeKeepsApart]_cycleVars
=============================================================================
