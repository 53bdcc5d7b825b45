------------------------------ MODULE MCOffice ------------------------------
(***************************************************************************)
(* The office of a store, for TLC: the job lock, goods and money, careers  *)
(* and what a store tells by itself.  These models share no variables, so  *)
(* each behaviour exercises one of them.                                   *)
(***************************************************************************)
EXTENDS CronLock, Inventory, Payroll, PayrollRules, PayFormulas,
        PayrollFollowUps, CareerStructure, TLC

CONSTANTS
  Rungs, Probationary, People, Editors, MaxScore, MaxEdits, Entry, Idle,
  NoticeDesks, Crew, ReportIds, SeatSlots, MaxSeats, Wishers,
  ThrottleWindow, MaxEntries, AnnounceDays, Frequencies, MaxNoticeClock,
  MaxNoticeOps, NoReport, NoPeriod

VARIABLES
  focus,    \* the component that takes steps in this behaviour
  rung, edges, demand, auto, at, probation, score, picked, advancing, request, edits,
  oldRung, handmade,
  noticeClock, reports, attendance, seats, throttle, told, career,
  noticeDesk, noticeOps, recorded, announcedAt, forgotten, claimed,
  irregular

\* Free seats tomorrow and the day after.
SeatTimes == <<1, 2>>

Ladder == INSTANCE CareerLadder WITH
  stale <- oldRung
Notices == INSTANCE StoreNotices WITH
  SeatStart <- SeatTimes

lockState == <<depth, phase, row, exposed>>
ladderState == <<rung, edges, demand, auto, at, probation, score, picked,
                 advancing, request, edits, oldRung, handmade>>
noticesState == <<noticeClock, reports, attendance, seats, throttle, told,
                  career, noticeDesk, noticeOps, recorded, announcedAt,
                  forgotten, claimed, irregular>>

\* One component is in focus; the others keep one initial state.
OfficeInit ==
  /\ focus \in {"lock", "stock", "pay", "rules", "formulas",
                "follow", "ladder", "structure", "notices"}
  /\ Init
  /\ InventoryInit
  /\ focus # "stock" =>
       listed = {}
  /\ PayrollInit
  /\ focus # "pay" =>
       ~book
  /\ PayrollRulesInit
  /\ focus # "rules" =>
       late = {}
  /\ IF focus = "formulas" THEN FormulaInit
     ELSE sample = NoSample
  /\ FollowUpsInit /\ finePrice = 1 /\ wageRate = 1
  /\ Ladder!LadderInit
  /\ StructureInit
  /\ Notices!NoticesInit

Rests(component, state) ==
  IF focus = component THEN TRUE ELSE UNCHANGED state

OfficeNext ==
  /\ \/ focus = "lock" /\ Next
     \/ focus = "stock" /\ InventoryNext
     \/ focus = "pay" /\ PayrollNext
     \/ focus = "rules" /\ PayrollRulesNext
     \/ focus = "follow" /\ FollowUpsNext
     \/ focus = "ladder" /\ Ladder!LadderNext
     \/ focus = "structure" /\ StructureNext
     \/ focus = "notices" /\ Notices!NoticesNext
  /\ Rests("lock", lockState)
  /\ Rests("stock", inventoryVars)
  /\ Rests("pay", payrollVars)
  /\ Rests("rules", payrollRulesVars)
  /\ Rests("formulas", sample)
  /\ Rests("follow", followVars)
  /\ Rests("ladder", ladderState)
  /\ Rests("structure", structureVars)
  /\ Rests("notices", noticesState)
  /\ UNCHANGED focus

officeState == <<focus, lockState, inventoryVars, payrollVars, payrollRulesVars,
   sample, followVars, ladderState, structureVars, noticesState>>
OfficeSpec == OfficeInit /\ [][OfficeNext]_officeState

-----------------------------------------------------------------------------
\* The shifts of one work date, which a check-out prices together.
ShiftDates == [s \in MonthShifts |-> 1]

\* Those who serve a request at a time are the same two in every component;
\* the shifts of a month, all of one date, are the slots,
\* the advances and the hand-outs.
Symmetry == Permutations(FollowDesks) \cup Permutations(MonthShifts)
              \cup Permutations(Rungs \ Probationary)

\* The ladder: no cycle, no stage out of reach, and no automatic advance
\* that is no longer due (CareerLadder).
LadderHolds == Ladder!CareerLadderPromise

\* Daily reports keep every entry, free seats are announced once per window,
\* and a review period is reminded of once (StoreNotices).
NoticesHold == Notices!StoreNoticesPromise
=============================================================================
