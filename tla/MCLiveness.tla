------------------------------ MODULE MCLiveness ------------------------------
(***************************************************************************)
(* What must happen in the end, for three components that TLC explores one *)
(* at a time: `focus` says which of them moves, and the fairness assumed   *)
(* is that one's.                                                          *)
(***************************************************************************)
EXTENDS ShiftAttendance

CONSTANTS Procs, Deliveries, Users, Rows, DeviceIds, Tokens, NoUser,
          MaxAttempts, MaxClaims, MaxPolls, MaxVersion, MaxPushFaults,
          Accounts, NoAccount, MaxEvents, MaxOutboxFaults

VARIABLES focus,
          led, exp, rows, recipient, pc, known, conflict, cycle, dispatching,
          accepted, ambiguous, invalid, pushFaults,
          ev, member, ready, step, claimed, copy, istep, icopy, emitted,
          dropped, made, outboxFaults

\* Two shifts back to back.
BackToBack == [a |-> [start |-> 0, end |-> 2], b |-> [start |-> 2, end |-> 3]]
TwoShifts == DOMAIN BackToBack
StoreRules == [grace |-> 0, earlyGrace |-> 0, earlyCheckin |-> 1,
               lateCheckout |-> 1, creditLateEarly |-> FALSE]

P == INSTANCE ChatPush WITH
       member <- recipient, ready <- dispatching, faults <- pushFaults,
       MaxFaults <- MaxPushFaults, Rejections <- FALSE
O == INSTANCE ChatOutbox WITH
       faults <- outboxFaults, MaxFaults <- MaxOutboxFaults

pushVars == <<led, exp, rows, recipient, pc, known, conflict, cycle,
              dispatching, accepted, ambiguous, invalid, pushFaults>>
outboxVars == <<ev, member, ready, step, claimed, copy, istep, icopy, emitted,
                dropped, made, outboxFaults>>
LiveVars == <<focus, vars, pushVars, outboxVars>>
LiveInit == focus \in {"push", "outbox", "workday"} /\ P!Init /\ O!Init /\ Init
LiveNext ==
  \/ focus = "push" /\ P!Next /\ UNCHANGED <<focus, vars, outboxVars>>
  \/ focus = "outbox" /\ O!Next /\ UNCHANGED <<focus, vars, pushVars>>
  \/ focus = "workday" /\ Next /\ UNCHANGED <<focus, pushVars, outboxVars>>

(* Fairness of the three specifications, while each is the one that moves. *)
PushFairness ==
  /\ \A p \in Procs :
       /\ WF_pushVars(focus = "push" /\ P!Claim(p))
       /\ WF_pushVars(focus = "push" /\ P!ClaimReceipts(p))
       /\ WF_pushVars(focus = "push" /\ P!Exit(p))
       /\ WF_pushVars(focus = "push" /\ P!Restart(p))
       /\ \A d \in Deliveries :
            /\ WF_pushVars(focus = "push" /\ P!Flush(p, d))
            /\ \A c \in P!Claims :
                 /\ WF_pushVars(focus = "push" /\ P!DispatchStep(p, d, c))
                 /\ WF_pushVars(focus = "push" /\ P!PollStep(p, d, c))
  /\ \A d \in Deliveries :
       /\ WF_pushVars(focus = "push" /\ P!TimePasses(d))
       /\ WF_pushVars(focus = "push" /\ P!TicketAges(d))
OutboxFairness ==
  /\ \A p \in Procs :
       /\ WF_outboxVars(focus = "outbox" /\ O!Progress(p))
       /\ WF_outboxVars(focus = "outbox" /\ O!IntentProgress(p))
       /\ WF_outboxVars(focus = "outbox" /\ p \notin ready /\ O!Restart(p))
  /\ \A i \in O!Ids : WF_outboxVars(focus = "outbox" /\ O!Ripen(i))
WorkdayFairness ==
  /\ WF_vars(focus = "workday" /\ Tick)
  /\ \A w \in Workers : WF_vars(focus = "workday" /\ Continue(w))
  /\ \A a \in Shifts :
       /\ SF_vars(focus = "workday" /\ ReconcileActive(a))
       /\ WF_vars(focus = "workday" /\ MarkAbsent(a))
  /\ SF_vars(focus = "workday" /\ \E j \in jobs : HandleReminderJob(j, TRUE))

LiveSpec ==
  /\ LiveInit /\ [][LiveNext]_LiveVars
  /\ PushFairness /\ OutboxFairness /\ WorkdayFairness

(* Every delivery is settled and every ticket resolved, every outbox row   *)
(* and every push intent is settled, every shift is closed, written off or *)
(* excused: see EveryDeliverySettles of ChatPush, EveryEventSettles of     *)
(* ChatOutbox and EveryShiftSettles of ShiftAttendance.                    *)
DeliveriesSettle == P!EveryDeliverySettles
EventsSettle == O!EveryEventSettles
ShiftsSettle == \A a \in Shifts : <>[](focus = "workday" => Settled(a))
===============================================================================
