--------------------------- MODULE EventDelivery ---------------------------
(***************************************************************************)
(* What the chat outbox promises for an event, whatever processes, retries *)
(* and crashes it takes: an event is not done before it was told to its    *)
(* recipients; the pushes it owes are made once or given up; and it is not *)
(* forgotten while it still owes them.                                     *)
(***************************************************************************)
CONSTANT Events

VARIABLES
  status,  \* status[e]: where the event is
  told,    \* events told at least once
  push     \* push[e]: the pushes of the event

vars == <<status, told, push>>

Init ==
  /\ status = [e \in Events |-> "none"]
  /\ told = {}
  /\ push = [e \in Events |-> "none"]

(* The event is recorded with the change it is about.                      *)
Record(e) ==
  /\ status[e] = "none"
  /\ status' = [status EXCEPT ![e] = "open"]
  /\ \E x \in {"none", "owed"} : push' = [push EXCEPT ![e] = x]
  /\ UNCHANGED told

(* Telling may happen more than once, and late.                            *)
Tell(e) ==
  /\ status[e] # "none"
  /\ told' = told \cup {e}
  /\ UNCHANGED <<status, push>>

Finish(e) ==
  /\ status[e] = "open" /\ e \in told
  /\ status' = [status EXCEPT ![e] = "done"]
  /\ UNCHANGED <<told, push>>

GiveUp(e) ==
  /\ status[e] = "open"
  /\ status' = [status EXCEPT ![e] = "lost"]
  /\ UNCHANGED <<told, push>>

SettlePush(e) ==
  /\ push[e] = "owed" /\ status[e] # "forgotten"
  /\ \E x \in {"made", "lost"} : push' = [push EXCEPT ![e] = x]
  /\ UNCHANGED <<status, told>>

Forget(e) ==
  /\ status[e] \in {"done", "lost"} /\ push[e] # "owed"
  /\ status' = [status EXCEPT ![e] = "forgotten"]
  /\ UNCHANGED <<told, push>>

Next ==
  \E e \in Events :
    \/ Record(e) \/ Tell(e) \/ Finish(e) \/ GiveUp(e)
    \/ SettlePush(e) \/ Forget(e)

Spec == Init /\ [][Next]_vars
=============================================================================
