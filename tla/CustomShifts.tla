----------------------------- MODULE CustomShifts -----------------------------
(***************************************************************************)
(* Shifts an employee proposes himself, of his own hours, and the owner    *)
(* approves (custom-shift-request.service.ts).  The owner also books him   *)
(* the ordinary way; every booking is made under the store's lock.         *)
(*                                                                         *)
(* An approval first locks the request, checks it and the employee, then   *)
(* waits for the store's lock and books every date that has not passed.    *)
(***************************************************************************)
EXTENDS Integers, FiniteSets, FiniteSetsExt

CONSTANTS PlanDesks, AskIds, PlanDates, PlanHours,
          WeekLimit,         \* the days the employee agreed to work
          MaxBooked

ASSUME PlansAssumption ==
  /\ 0 \notin AskIds \cup PlanDesks
  /\ PlanDates \subseteq Nat /\ IsFiniteSet(PlanDates)

VARIABLES planToday,
          rosterable,        \* the employee may be given shifts
          asks,              \* custom shift requests
          booked,            \* [date, hours, name, ask]
          storeHolder,       \* who has the store's lock, 0 nobody
          planDesk
planVars == <<planToday, rosterable, asks, booked, storeHolder, planDesk>>

CustomShiftRequest ==
  [status : {"PENDING", "APPROVED", "REJECTED", "CANCELLED"},
   dates : SUBSET PlanDates, hours : PlanHours, ref : SUBSET PlanDates]
NoAsk == [status |-> "NONE"]
IdlePlanDesk == [at |-> "idle"]
LastPlanDate == CHOOSE d \in PlanDates : \A e \in PlanDates : e <= d

(* intervalsOverlap over the hours of one day; "all" overlaps both halves. *)
HoursOverlap(a, b) == a = b \/ "all" \in {a, b}

PlansInit ==
  /\ planToday = 0 /\ rosterable = TRUE
  /\ asks = [r \in AskIds |-> NoAsk]
  /\ booked = {}
  /\ storeHolder = 0
  /\ planDesk = [d \in PlanDesks |-> IdlePlanDesk]

-----------------------------------------------------------------------------
(* Asking                                                                  *)

BookedDates == {b.date : b \in booked}

(* create: one day after the other against the agreed number of days, on   *)
(* top of what is booked; a pending request for the same hours and dates   *)
(* is refused by the unique index.                                         *)
Ask(r) ==
  /\ rosterable /\ asks[r] = NoAsk
  /\ \E dates \in SUBSET PlanDates, h \in PlanHours :
       /\ dates # {} /\ \A d \in dates : d >= planToday
       /\ Cardinality(BookedDates \cup dates) <= WeekLimit
       /\ ~\E q \in AskIds : /\ asks[q].status = "PENDING"
                             /\ asks[q].dates = dates /\ asks[q].hours = h
       /\ asks' = [asks EXCEPT ![r] = [status |-> "PENDING", dates |-> dates, hours |-> h,
                                       ref |-> {}]]
  /\ UNCHANGED <<planToday, rosterable, booked, storeHolder, planDesk>>

(* lockRequest: FOR UPDATE on the row until the transaction ends.          *)
NoRowLock(r) == TRUE
RowFree(r) == ~\E d \in PlanDesks : planDesk[d].at # "idle" /\ planDesk[d].ask = r

(* cancel by the employee and reject by the owner, under the row's lock.   *)
CloseAsk(r) ==
  /\ asks[r].status = "PENDING" /\ RowFree(r)
  /\ \E s \in {"CANCELLED", "REJECTED"} : asks' = [asks EXCEPT ![r].status = s]
  /\ UNCHANGED <<planToday, rosterable, booked, storeHolder, planDesk>>

-----------------------------------------------------------------------------
(* Approving                                                               *)

(* lockRequest, the status and the employee.                               *)
ApproveLocks(d, r) ==
  /\ planDesk[d] = IdlePlanDesk /\ RowFree(r)
  /\ asks[r].status = "PENDING" /\ rosterable
  /\ planDesk' = [planDesk EXCEPT ![d] = [at |-> "locked", ask |-> r]]
  /\ UNCHANGED <<planToday, rosterable, asks, booked, storeHolder>>
WaitForStore(d) ==
  /\ planDesk[d].at = "locked" /\ storeHolder = 0
  /\ storeHolder' = d
  /\ planDesk' = [planDesk EXCEPT ![d].at = "store"]
  /\ UNCHANGED <<planToday, rosterable, asks, booked>>

(* findEmployeeShiftConflicts over the dates that are left.                *)
AskConflicts(r, dates) ==
  \E b \in booked : b.date \in dates /\ HoursOverlap(b.hours, asks[r].hours)

(* shiftNameFor: the first name of the series that the date has not got.   *)
FreeName(date) ==
  Min({n \in 1 .. Cardinality(booked) + 1 :
         ~\E b \in booked : b.date = date /\ b.name = n})

(* The rest of approve: every date that has not passed, one shift each.    *)
ApproveBooks(d) ==
  LET r == planDesk[d].ask
      dates == {x \in asks[r].dates : x >= planToday}
  IN /\ planDesk[d].at = "store"
     /\ IF dates # {} /\ ~AskConflicts(r, dates)
        THEN /\ booked' = booked \cup {[date |-> x, hours |-> asks[r].hours,
                                        name |-> FreeName(x), ask |-> r] : x \in dates}
             /\ asks' = [asks EXCEPT ![r].status = "APPROVED", ![r].ref = dates]
        ELSE UNCHANGED <<booked, asks>>
     /\ storeHolder' = 0
     /\ planDesk' = [planDesk EXCEPT ![d] = IdlePlanDesk]
     /\ UNCHANGED <<planToday, rosterable>>

-----------------------------------------------------------------------------
(* What else happens                                                       *)

(* createShiftSchedule by the owner: under the store's lock, with the same *)
(* check, its name taken on no date.                                       *)
OwnerBooks ==
  /\ storeHolder = 0 /\ rosterable /\ Cardinality(booked) < MaxBooked
  /\ \E x \in PlanDates, h \in PlanHours :
       /\ x >= planToday
       /\ ~\E b \in booked : b.date = x /\ (HoursOverlap(b.hours, h) \/ b.name = 1)
       /\ booked' = booked \cup {[date |-> x, hours |-> h, name |-> 1, ask |-> 0]}
  /\ UNCHANGED <<planToday, rosterable, asks, storeHolder, planDesk>>
EmployeeLeaves ==
  /\ rosterable /\ rosterable' = FALSE
  /\ UNCHANGED <<planToday, asks, booked, storeHolder, planDesk>>
NextPlanDay ==
  /\ planToday < LastPlanDate /\ planToday' = planToday + 1
  /\ UNCHANGED <<rosterable, asks, booked, storeHolder, planDesk>>

PlansNext ==
  \/ \E r \in AskIds : Ask(r) \/ CloseAsk(r)
  \/ \E d \in PlanDesks :
       \/ \E r \in AskIds : ApproveLocks(d, r)
       \/ WaitForStore(d) \/ ApproveBooks(d)
  \/ OwnerBooks \/ EmployeeLeaves \/ NextPlanDay
PlansSpec == PlansInit /\ [][PlansNext]_planVars

-----------------------------------------------------------------------------
(* Properties                                                              *)

PlansTypeOK ==
  /\ asks \in [AskIds -> CustomShiftRequest \cup {NoAsk}]
  /\ booked \subseteq [date : PlanDates, hours : PlanHours, name : Nat,
                      ask : AskIds \cup {0}]
  /\ IsFiniteSet(booked)
  /\ storeHolder \in PlanDesks \cup {0}
  /\ planDesk \in [PlanDesks -> {IdlePlanDesk} \cup [at : {"locked", "store"}, ask : AskIds]]

(* Whoever works on a request has it to himself, it is still pending, and  *)
(* whoever books has the store to himself.                                 *)
LocksAreHeld ==
  \A d \in PlanDesks : planDesk[d].at # "idle" =>
    /\ asks[planDesk[d].ask].status = "PENDING"
    /\ planDesk[d].at = "store" => storeHolder = d
    /\ \A e \in PlanDesks \ {d} :
         planDesk[e].at # "idle" => planDesk[e].ask # planDesk[d].ask

(* A request has a shift on exactly the dates it recorded if it is         *)
(* approved, and none otherwise.                                           *)
ApprovedMeansBooked ==
  \A r \in AskIds :
    LET mine == {b \in booked : b.ask = r} IN
    IF asks[r].status = "APPROVED"
    THEN {b.date : b \in mine} = asks[r].ref
         /\ Cardinality(mine) = Cardinality(asks[r].ref)
    ELSE mine = {}

(* No two shifts of the employee overlap, and no two of a day have the     *)
(* same name.                                                              *)
ShiftsAreApart ==
  \A b, c \in booked : b # c /\ b.date = c.date =>
    ~HoursOverlap(b.hours, c.hours) /\ b.name # c.name

(* What was decided stays so.                                              *)
AnswersStand ==
  [][\A r \in AskIds : asks[r].status \in {"APPROVED", "REJECTED", "CANCELLED"} =>
       asks'[r] = asks[r]]_planVars

(* What the custom shifts promise, with approvals from two devices, and    *)
(* cancellations and bookings made meanwhile.                              *)
CustomShiftsPromise ==
  /\ [](PlansTypeOK /\ LocksAreHeld /\ ApprovedMeansBooked /\ ShiftsAreApart)
  /\ AnswersStand
=============================================================================
