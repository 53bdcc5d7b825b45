----------------------------- MODULE MCDelivery -----------------------------
(***************************************************************************)
(* From the chat outbox to the push provider with two chat processes, for  *)
(* TLC.  The outbox hands over through rows of the push ledger, and        *)
(* nothing the ledger does comes back to it: each behaviour exercises one  *)
(* of the two.                                                             *)
(***************************************************************************)
EXTENDS ChatOutbox, TLC

CONSTANTS Deliveries, Users, Rows, DeviceIds, Tokens, NoUser, MaxPushClaims,
          MaxPolls, MaxVersion, MaxPushFaults

VARIABLES focus,      \* the component that takes steps in this behaviour
          led, exp, rows, recipient, pc, known, conflict, cycle, dispatching,
          accepted, ambiguous, invalid, pushFaults

P == INSTANCE ChatPush WITH
       member <- recipient, ready <- dispatching, faults <- pushFaults,
       MaxClaims <- MaxPushClaims, MaxFaults <- MaxPushFaults,
       Rejections <- FALSE

pushVars == <<led, exp, rows, recipient, pc, known, conflict, cycle,
              dispatching, accepted, ambiguous, invalid, pushFaults>>
DeliveryVars == <<focus, vars, pushVars>>
DeliveryInit == focus \in {"outbox", "push"} /\ Init /\ P!Init
DeliveryNext ==
  \/ focus = "outbox" /\ Next /\ UNCHANGED <<focus, pushVars>>
  \/ focus = "push" /\ P!Next /\ UNCHANGED <<focus, vars>>
DeliverySpec == DeliveryInit /\ [][DeliveryNext]_DeliveryVars

(* Processes are interchangeable in both components.                       *)
Symmetry == Permutations(Procs)

(* What the push ledger promises, in the behaviours where it takes steps   *)
(* (the fenced updates of chat-push-dispatcher.service.ts).                *)
PushesHold == P!PushesHold
=============================================================================
