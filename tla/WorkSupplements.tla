--------------------------- MODULE WorkSupplements ---------------------------
(***************************************************************************)
(* Requests to be credited with time that was worked but not recorded      *)
(* (requests.part.ts): a bonus work request that names no shift.  The      *)
(* owner's approval finds the shift that overlaps the claimed time most,   *)
(* checks leave and payslip, and then, with the shift's row locked, merges *)
(* the claimed time into what is recorded.                                 *)
(***************************************************************************)
EXTENDS AttendanceRules, FiniteSetsExt

CONSTANTS SupTurns, SupWindow,   \* the employee's shifts and their hours
          SupIds, SupDesks,
          SupClocks,             \* clock times a request may name
          SupDay,                \* the length of a day
          SupRules,              \* the store's attendance rules
          MaxSupClock

ASSUME SupplementsAssumption ==
  /\ MaxSupClock \in Nat /\ SupDay \in Nat \ {0}
  /\ SupWindow \in [SupTurns -> [start : Nat, end : Nat]]
  /\ SupClocks \subseteq 0 .. MaxSupClock
  /\ SupRules \in [grace : Nat, earlyGrace : Nat, earlyCheckin : Nat,
                   lateCheckout : Nat, creditLateEarly : BOOLEAN]

VARIABLES supClock,
          record,     \* [turn -> status, recorded times, minutes, leave]
          sup,        \* bonus_work_requests without a shift
          slipOpen,   \* whether the month's payslip may still change
          supDesk,
          creditedFor \* history: the requests credited, and how often
supVars == <<supClock, record, sup, slipOpen, supDesk, creditedFor>>

SupTimesNamed == 0 .. MaxSupClock + SupDay
MaybeTime == SupTimesNamed \cup {Null}
ShiftRecord ==
  [status : {"APPROVED", "COMPLETED", "CANCELLED"}, in : MaybeTime, out : MaybeTime,
   auto : BOOLEAN, late : Nat, early : Nat, worked : Nat, onLeave : BOOLEAN]
BonusWorkRequest ==
  [status : {"PENDING", "APPROVED", "REJECTED", "CANCELLED"},
   from : SupTimesNamed, to : SupTimesNamed, turn : SupTurns \cup {"none"}]
NoSup == [status |-> "NONE"]
IdleSupDesk == [at |-> "idle"]
SupDeskGoes(d, state) == supDesk' = [supDesk EXCEPT ![d] = state]

SupInit ==
  /\ supClock = 0
  /\ record = [s \in SupTurns |->
       [status |-> "APPROVED", in |-> Null, out |-> Null, auto |-> FALSE,
        late |-> 0, early |-> 0, worked |-> 0, onLeave |-> FALSE]]
  /\ sup = [r \in SupIds |-> NoSup]
  /\ slipOpen = TRUE
  /\ supDesk = [d \in SupDesks |-> IdleSupDesk]
  /\ creditedFor = [r \in SupIds |-> 0]

-----------------------------------------------------------------------------
(* Around the requests: ordinary attendance, leave, roster and payroll.    *)

Recorded(s, r) == /\ record' = [record EXCEPT ![s] = r]
                  /\ UNCHANGED <<supClock, sup, slipOpen, supDesk, creditedFor>>
PunchIn(s) ==
  /\ record[s].status = "APPROVED" /\ record[s].in = Null
  /\ supClock >= SupWindow[s].start /\ supClock < SupWindow[s].end
  /\ Recorded(s, [record[s] EXCEPT !.in = supClock])
PunchOut(s) ==
  /\ record[s].status = "APPROVED" /\ record[s].in # Null /\ record[s].out = Null
  /\ supClock > record[s].in
  /\ Recorded(s, [record[s] EXCEPT !.out = supClock, !.status = "COMPLETED"])
AutoOut(s) ==
  /\ record[s].status = "APPROVED" /\ record[s].in # Null /\ record[s].out = Null
  /\ supClock >= SupWindow[s].end
  /\ Recorded(s, [record[s] EXCEPT !.out = SupWindow[s].end, !.auto = TRUE,
                                   !.status = "COMPLETED"])
TurnTaken(s) ==
  /\ record[s].status = "APPROVED" /\ record[s].in = Null
  /\ \/ Recorded(s, [record[s] EXCEPT !.status = "CANCELLED"])
     \/ ~record[s].onLeave /\ Recorded(s, [record[s] EXCEPT !.onLeave = TRUE])
PayslipCloses ==
  /\ slipOpen /\ slipOpen' = FALSE
  /\ UNCHANGED <<supClock, record, sup, supDesk, creditedFor>>
SupTick ==
  /\ supClock < MaxSupClock /\ supClock' = supClock + 1
  /\ UNCHANGED <<record, sup, slipOpen, supDesk, creditedFor>>

-----------------------------------------------------------------------------
(* The requests.                                                           *)

\* The claimed time: an end that is not after the start is on the next day.
ClaimedTime(from, to) == [from |-> from, to |-> IF to <= from THEN to + SupDay ELSE to]

\* createBonusWorkRequest without a shift that can take overtime.
CreateSupplement(r, from, to) ==
  /\ sup[r] = NoSup
  /\ sup' = [sup EXCEPT ![r] = [status |-> "PENDING", from |-> ClaimedTime(from, to).from,
                                to |-> ClaimedTime(from, to).to, turn |-> "none"]]
  /\ UNCHANGED <<supClock, record, slipOpen, supDesk, creditedFor>>

Overlap(r, s) == AtMost(SupWindow[s].end, sup[r].to) - AtLeast(SupWindow[s].start, sup[r].from)

\* The shifts of that day and of the day before that were not cancelled and
\* overlap the claim; the one that overlaps it most.
Candidates(r) ==
  {s \in SupTurns : /\ record[s].status # "CANCELLED"
                    /\ (sup[r].from \div SupDay) - (SupWindow[s].start \div SupDay) \in {0, 1}
                    /\ Overlap(r, s) > 0}
Best(r) == CHOOSE s \in Candidates(r) : \A t \in Candidates(r) : Overlap(r, s) >= Overlap(r, t)

\* approveWorkSupplement, before its transaction.
ApproveWorkSupplement(d, r) ==
  /\ supDesk[d] = IdleSupDesk
  /\ sup[r].status = "PENDING" /\ sup[r].to <= supClock
  /\ Candidates(r) # {} /\ ~record[Best(r)].onLeave /\ slipOpen
  /\ SupDeskGoes(d, [at |-> "credits", r |-> r, turn |-> Best(r)])
  /\ UNCHANGED <<supClock, record, sup, slipOpen, creditedFor>>

\* The claim in place of what is recorded.
ClaimAlone(old, r) == [in |-> sup[r].from, out |-> sup[r].to]

\* What is recorded with the claim merged in: the earlier start, and the
\* later end unless the recorded end was not the employee's.
Merged(old, r) ==
  [in  |-> IF old.in # Null /\ old.in < sup[r].from THEN old.in ELSE sup[r].from,
   out |-> IF old.out = Null \/ old.auto THEN sup[r].to ELSE AtLeast(old.out, sup[r].to)]

\* The transaction: nothing is written when the shift was cancelled, the
\* request decided, or the times would not be in order.
CreditSupplement(d) ==
  LET r == supDesk[d].r
      s == supDesk[d].turn
      m == Merged(record[s], r)
      late == ApplyGrace(LateMinutes(SupWindow[s].start, m.in), SupRules.grace)
      early == ApplyGrace(EarlyMinutes(SupWindow[s].end, m.out), SupRules.earlyGrace)
  IN
  /\ supDesk[d].at = "credits"
  /\ IF /\ record[s].status # "CANCELLED"
        /\ sup[r].status = "PENDING"
        /\ m.out > m.in
     THEN /\ sup' = [sup EXCEPT ![r].status = "APPROVED", ![r].turn = s]
          /\ record' = [record EXCEPT ![s] =
               [@ EXCEPT !.status = "COMPLETED", !.in = m.in, !.out = m.out,
                  !.auto = FALSE, !.late = late, !.early = early,
                  !.worked = CreditedWorkedMinutes(SupWindow[s], m.in, m.out, SupRules,
                                                   late, Null, FALSE, FALSE)]]
          /\ creditedFor' = [creditedFor EXCEPT ![r] = @ + 1]
     ELSE UNCHANGED <<sup, record, creditedFor>>
  /\ SupDeskGoes(d, IdleSupDesk)
  /\ UNCHANGED <<supClock, slipOpen>>

\* rejectBonusWorkRequest: an approved supplement is not rejected any more.
RejectSupplement(r) ==
  /\ sup[r].status = "PENDING"
  /\ sup' = [sup EXCEPT ![r].status = "REJECTED"]
  /\ UNCHANGED <<supClock, record, slipOpen, supDesk, creditedFor>>

\* cancelBonusWorkRequest reads, and saves whatever was decided since.
CancelSupplement(d, r) ==
  /\ supDesk[d] = IdleSupDesk /\ sup[r].status = "PENDING"
  /\ SupDeskGoes(d, [at |-> "cancels", r |-> r])
  /\ UNCHANGED <<supClock, record, sup, slipOpen, creditedFor>>
SaveCancelledSupplement(d) ==
  /\ supDesk[d].at = "cancels"
  /\ sup' = [sup EXCEPT ![supDesk[d].r].status = "CANCELLED"]
  /\ SupDeskGoes(d, IdleSupDesk)
  /\ UNCHANGED <<supClock, record, slipOpen, creditedFor>>

SupNext ==
  \/ SupTick \/ PayslipCloses
  \/ \E s \in SupTurns : PunchIn(s) \/ PunchOut(s) \/ AutoOut(s) \/ TurnTaken(s)
  \/ \E r \in SupIds :
       \/ \E from, to \in SupClocks : CreateSupplement(r, from, to)
       \/ RejectSupplement(r)
       \/ \E d \in SupDesks : ApproveWorkSupplement(d, r) \/ CancelSupplement(d, r)
  \/ \E d \in SupDesks : CreditSupplement(d) \/ SaveCancelledSupplement(d)

SupSpec == SupInit /\ [][SupNext]_supVars

SupTypeOK ==
  /\ record \in [SupTurns -> ShiftRecord]
  /\ sup \in [SupIds -> BonusWorkRequest \cup {NoSup}]
  /\ slipOpen \in BOOLEAN /\ supClock \in 0 .. MaxSupClock
  /\ supDesk \in [SupDesks -> {IdleSupDesk}
        \cup [at : {"credits"}, r : SupIds, turn : SupTurns] \cup [at : {"cancels"}, r : SupIds]]
  /\ creditedFor \in [SupIds -> Nat]

(***************************************************************************)
(* What was approved is recorded, and stays: the shift runs from the start *)
(* of the claim or earlier to its end or later, whichever other claim and  *)
(* whichever check-out crossed the approval.                               *)
(***************************************************************************)
ApprovedIsRecorded ==
  \A r \in SupIds : sup[r].status = "APPROVED" =>
    LET rec == record[sup[r].turn] IN
    /\ creditedFor[r] = 1
    /\ rec.status = "COMPLETED" /\ rec.in <= sup[r].from /\ rec.out >= sup[r].to

(***************************************************************************)
(* A claim takes nothing away: what the employee recorded himself is not   *)
(* shortened, and a claim refused or withdrawn before it is decided leaves *)
(* no trace.                                                               *)
(***************************************************************************)
NothingTakenAway ==
  [][\A s \in SupTurns :
       /\ record[s].in # Null => record'[s].in <= record[s].in
       /\ record[s].out # Null /\ ~record[s].auto => record'[s].out >= record[s].out
       /\ record[s].status = "CANCELLED" => record'[s] = record[s]]_supVars
NoTraceOfRefused ==
  \A r \in SupIds : sup[r].status \in {"PENDING", "REJECTED"} => creditedFor[r] = 0

(***************************************************************************)
(* Why what was approved stays: it names a shift whose end nobody but the  *)
(* employee recorded, so a later claim moves the end only forward; and a   *)
(* request that was not made has left no trace, and nobody works on it.    *)
(***************************************************************************)
CreditsStand ==
  /\ \A r \in SupIds :
       /\ sup[r].status = "APPROVED" =>
            /\ sup[r].turn \in SupTurns /\ ~record[sup[r].turn].auto
            /\ record[sup[r].turn].in # Null /\ record[sup[r].turn].out # Null
       /\ sup[r] = NoSup => creditedFor[r] = 0
  /\ \A d \in SupDesks : supDesk[d].at # "idle" => sup[supDesk[d].r] # NoSup

(***************************************************************************)
(* What the supplements promise.                                           *)
(***************************************************************************)
WorkSupplementsPromise ==
  /\ [](SupTypeOK /\ CreditsStand /\ ApprovedIsRecorded /\ NoTraceOfRefused)
  /\ NothingTakenAway
=============================================================================
