--------------------------- MODULE MCChatMessages ---------------------------
(***************************************************************************)
(* Three scenes of one instance, each of which TLC explores by itself: the *)
(* members send under one key with different texts, read, clear once,      *)
(* leave and come back while no process dispatches; they clear repeatedly  *)
(* around one message; and a process dispatches what one member's two      *)
(* messages and their receipt announce.                                    *)
(***************************************************************************)
EXTENDS ChatMessages, TLC

VARIABLE scene

SceneInit == ChatInit /\ scene \in {"members", "clears", "ticks"}
OneKey(r) == req'[r].st = "new" \/ req'[r].id = CHOOSE id \in ClientIds : TRUE
OneText(r) == req'[r].st = "new" \/ req'[r].text = CHOOSE x \in Contents : TRUE
(* One member sends, under the second key after the first is used.         *)
InTurn ==
  /\ Cardinality({req'[r].a : r \in Requests} \ {NoAccount}) <= 1
  /\ \A r \in Requests :
       req[r].st = "new" /\ req'[r].st # "new" => OneKey(r) <=> msgs = <<>>
OneRequest == Cardinality({r \in Requests : req'[r].st # "new"}) <= 1
OneClear == Cardinality({c \in ClearCalls : clr'[c].a # NoAccount}) <= 1
SceneNext ==
  /\ scene' = scene
  /\ \/ scene = "members" /\ MembersNext /\ OneClear /\ \A r \in Requests : OneKey(r)
     \/ scene = "clears" /\ MembersNext /\ OneRequest
     \/ scene = "ticks" /\ TicksNext /\ InTurn /\ \A r \in Requests : OneText(r)
SceneSpec == SceneInit /\ [][SceneNext]_<<chatVars, scene>>

Symmetry ==
  Permutations(Procs) \cup Permutations(Requests) \cup Permutations(Accounts)
    \cup Permutations(ClearCalls)
=============================================================================
