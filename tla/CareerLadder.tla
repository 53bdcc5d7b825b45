---------------------------- MODULE CareerLadder ----------------------------
(***************************************************************************)
(* The employment-type ladder of one store (career-ladder.service.ts):     *)
(* its stages (rungs), the edges people may move along, and the people on  *)
(* it.  An edge from Entry (from_rung_id NULL) leads to the stages a       *)
(* newcomer may enter.  Every edit reads the ladder and writes it later;   *)
(* the stage editor (saveStage) shuts out its own kind with an advisory    *)
(* lock that the older endpoints do not take, so an edit may be written    *)
(* over a ladder that has changed since it was read.  Every rung id stands *)
(* for itself and for the employment type that it targets.                 *)
(***************************************************************************)
EXTENDS FiniteSets, Integers

CONSTANTS Rungs,        \* ids of stages, created at most once each
          Probationary, \* the stages whose employment type is a probation
          People,       \* employee profiles
          Editors,      \* requests that edit the ladder
          MaxScore,     \* bound of what the criteria of a stage measure
          MaxEdits,     \* bound on stage edits
          Entry, Idle

VARIABLES rung,      \* "none", "live" or "gone" (soft-deleted)
          edges,     \* store_ladder_edges, pairs <<from, to>>
          demand,    \* criteria of a stage: the score needed to leave it
          auto,      \* stages people enter without the owner's word
          at,        \* the employment type of a profile, Entry for none
          probation, \* profiles whose employment status is PROBATION
          score,     \* what the criteria measure of a profile
          picked,    \* whom the nightly sweep looks at, and the stage it found
          advancing, \* a locked profile between the reads and the save of advance
          request,   \* an edit between its reads and its write
          edits,
          stale,     \* history: an edit was written over a changed ladder
          handmade   \* history: edges were laid by hand
ladderVars == <<rung, edges, demand, auto, at, probation, score, picked,
                advancing, request, edits, stale, handmade>>
shapeVars == <<rung, edges, demand, auto>>
peopleVars == <<at, probation, score>>
editVars == <<request, edits, stale, handmade>>

Live == {r \in Rungs : rung[r] = "live"}
Nodes == Rungs \cup {Entry}
NoPick == [who |-> Idle, to |-> Idle]
Resting == [by |-> Idle, from |-> Idle, to |-> Idle]
NoRequest == [kind |-> Idle, on |-> Idle, wipe |-> {}, lay |-> {},
              demand |-> 0, overtaken |-> FALSE]

(***************************************************************************)
(* Graph walks.                                                            *)
(***************************************************************************)
\* What is reached from the nodes of S along the edges of E.
Reached[S \in SUBSET Nodes, E \in SUBSET (Nodes \X Rungs)] ==
  LET more == S \cup {e[2] : e \in {x \in E : x[1] \in S}}
  IN  IF more = S THEN S ELSE Reached[more, E]

\* hasCycle: the depth-first search, which skips entry edges.
HasCycle(E) ==
  \E r \in Rungs : r \in Reached[{e[2] : e \in {x \in E : x[1] = r}}, E]

(***************************************************************************)
(* replaceStageEdges: the edges of stage r give way to prev -> r and       *)
(* r -> next; without a previous stage it is an entry, and a stage that    *)
(* only followed r becomes an entry too.                                   *)
(***************************************************************************)
Touching(r, E) == {e \in E : r \in {e[1], e[2]}}

Orphans(r, next, E) ==
  {q \in Live \ next :
     /\ <<r, q>> \in E
     /\ ~ \E e \in E \ Touching(r, E) : e[2] = q /\ e[1] \in Live \cup {Entry}}

StageEdges(r, prev, next) ==
  {<<p, r>> : p \in prev} \cup {<<r, q>> : q \in next}
    \cup (IF prev = {} THEN {<<Entry, r>>} ELSE {})
    \cup {<<Entry, q>> : q \in Orphans(r, next, edges)}

PrevOf(r) == {p \in Live : <<p, r>> \in edges}
NextOf(r) == {q \in Live : <<r, q>> \in edges}

\* replaceStageCriteria: the criteria of a stage are replaced as a whole.
ReplaceStageCriteria(r, d) == demand' = [demand EXCEPT ![r] = d]

(***************************************************************************)
(* Edits.  Begin reads and checks; the commits write what the request      *)
(* resolved: edges to wipe out and edges to lay.  A commit overtakes the   *)
(* edits that have read and not written yet.                               *)
(***************************************************************************)
Free(w) == request[w].kind = Idle /\ edits < MaxEdits

Begin(w, kind, r, wipe, lay, d) ==
  /\ edits' = edits + 1
  /\ request' = [request EXCEPT ![w] =
       [kind |-> kind, on |-> r, wipe |-> wipe, lay |-> lay, demand |-> d,
        overtaken |-> FALSE]]
  /\ UNCHANGED <<shapeVars, peopleVars, picked, advancing, stale, handmade>>

Finish(w) ==
  /\ request' = [v \in Editors |->
       IF v = w \/ request[v].kind = Idle THEN NoRequest
       ELSE [request[v] EXCEPT !.overtaken = TRUE]]
  /\ stale' = (stale \/ request[w].overtaken)
  /\ UNCHANGED <<peopleVars, picked, advancing, edits>>

\* saveStage: creates or edits a stage in one transaction, one such request
\* at a time.  Lists that are left out keep what is live of the old ones.
SaveStage(w, r) ==
  /\ Free(w)
  /\ rung[r] \in {"none", "live"}
  /\ \A v \in Editors : /\ request[v].kind # "stage"
                        /\ ~ (request[v].kind = "create" /\ request[v].on = r)
  /\ \E prev \in SUBSET Live \cup {PrevOf(r)},
        next \in SUBSET Live \cup {NextOf(r)} :
       /\ prev \cap next = {}
       /\ r \notin prev \cup next
       /\ ~ HasCycle((edges \ Touching(r, edges))
                       \cup {<<p, r>> : p \in prev} \cup {<<r, q>> : q \in next})
       /\ \E d \in 0..MaxScore :
            Begin(w, "stage", r, Touching(r, edges), StageEdges(r, prev, next), d)

\* A stage that was deleted in between comes back when the row was saved
\* after the deletion: save compares with the stored row and clears its mark.
CommitStage(w) ==
  LET r == request[w].on
  IN  /\ request[w].kind = "stage"
      /\ \/ rung' = [rung EXCEPT ![r] = "live"]
         \/ rung[r] = "gone" /\ rung' = rung
      /\ edges' = (edges \ request[w].wipe) \cup request[w].lay
      /\ ReplaceStageCriteria(r, request[w].demand)
      /\ UNCHANGED <<auto, handmade>>
      /\ Finish(w)

\* createRung: the stage is new and every stage it is joined from exists.
CreateRung(w, r) ==
  /\ Free(w)
  /\ rung[r] = "none"
  /\ \A v \in Editors : request[v].kind \in {"create", "stage"} => request[v].on # r
  /\ \E from \in SUBSET Live : Begin(w, "create", r, {}, {<<p, r>> : p \in from}, 0)

HasLiveEntry == \E r \in Live : <<Entry, r>> \in edges

CommitCreate(w) ==
  LET r == request[w].on
      lay == request[w].lay
  IN  /\ request[w].kind = "create"
      /\ rung' = [rung EXCEPT ![r] = "live"]
      /\ edges' = edges \cup lay \cup (IF HasLiveEntry THEN {} ELSE {<<Entry, r>>})
      /\ handmade' = (handmade \/ (lay = {} /\ HasLiveEntry))
      /\ UNCHANGED <<demand, auto>>
      /\ Finish(w)

\* setRungNextRungs: the cycle check is made before the transaction.
SetRungNextRungs(w, r) ==
  /\ Free(w)
  /\ rung[r] = "live"
  /\ \E next \in SUBSET (Live \ {r}) :
       LET lay == {<<r, q>> : q \in next}
       IN  /\ ~ HasCycle({e \in edges : e[1] # r} \cup lay)
           /\ Begin(w, "next", r, {}, lay, 0)

CommitNext(w) ==
  LET r == request[w].on
  IN  /\ request[w].kind = "next"
      /\ edges' = {e \in edges : e[1] # r} \cup request[w].lay
      /\ handmade' = TRUE
      /\ UNCHANGED <<rung, demand, auto>>
      /\ Finish(w)

\* deleteRung counts the people on the stage before its transaction.
DeleteRung(w, r) ==
  /\ Free(w)
  /\ rung[r] = "live"
  /\ \A p \in People : at[p] # r
  /\ Begin(w, "delete", r, {}, {}, 0)

\* Mutant: the edges of the stage go with it, and nothing bridges the gap.
PlanWithoutBridges(r, E) == E \ Touching(r, E)

\* planRungRemoval: whoever led to the stage now leads to what followed it.
PlanRungRemoval(r, E) ==
  (E \ Touching(r, E))
    \cup {b \in Nodes \X Rungs :
            /\ <<b[1], r>> \in E /\ <<r, b[2]>> \in E
            /\ b[1] # b[2] /\ b[2] # r}

CommitDelete(w) ==
  LET r == request[w].on
  IN  /\ request[w].kind = "delete"
      /\ edges' = PlanRungRemoval(r, edges)
      /\ rung' = [rung EXCEPT ![r] = "gone"]
      /\ UNCHANGED <<demand, auto, handmade>>
      /\ Finish(w)

\* updateRung changes how people enter the stage; the old value is demand 0.
UpdateRung(w, r) ==
  /\ Free(w)
  /\ rung[r] = "live"
  /\ \E approval \in 0..1 : Begin(w, "update", r, {}, {}, approval)

\* It saves the row as it read it, over a deletion in between too.  The shape
\* of the ladder changes only then, so it overtakes nobody.
CommitUpdate(w) ==
  LET r == request[w].on
  IN  /\ request[w].kind = "update"
      /\ rung' = [rung EXCEPT ![r] = "live"]
      /\ auto' = IF request[w].demand = 1 THEN auto \cup {r} ELSE auto \ {r}
      /\ request' = [request EXCEPT ![w] = NoRequest]
      /\ stale' = (stale \/ rung[r] = "gone")
      /\ UNCHANGED <<edges, demand, peopleVars, picked, advancing, edits, handmade>>

\* setRungCriteria: the criteria are replaced in one transaction.
SetRungCriteria(r) ==
  /\ edits < MaxEdits
  /\ rung[r] = "live"
  /\ \E d \in 0..MaxScore : ReplaceStageCriteria(r, d)
  /\ edits' = edits + 1
  /\ UNCHANGED <<rung, edges, auto, peopleVars, picked, advancing, request,
                 stale, handmade>>

(***************************************************************************)
(* People.                                                                 *)
(***************************************************************************)
CurrentRung(p) == IF at[p] \in Live THEN at[p] ELSE Entry

\* metricValue: the days, shifts and completed work that count for a stage.
MetricValue(p) == score[p]

\* evaluateRung on the employment-type ladder: the criteria of the stage the
\* person is on (criteriaSourceId), none for a newcomer.
Passed(p) == CurrentRung(p) \in Live => MetricValue(p) >= demand[CurrentRung(p)]

\* The edge a person may take.  For somebody on no live stage the look-up asks
\* for fromRungId null, which find drops: any edge into the stage will do.
LeadsTo(p, r) ==
  \E e \in edges : e[2] = r /\ (CurrentRung(p) \in Live => e[1] = CurrentRung(p))
NextRungs(p) == {r \in Live : LeadsTo(p, r)}

\* A profile locked by advance waits for it.
Unlocked(p) == advancing[p] = Resting

\* advance locks the profile, looks at the path and at the criteria, which the
\* owner may override ...
MayAdvance(p, r, by) ==
  /\ r \in NextRungs(p) /\ r # CurrentRung(p)
  /\ by = "sweep" => Passed(p)

LookAtAdvance(p, r, by) ==
  /\ Unlocked(p)
  /\ MayAdvance(p, r, by)
  /\ advancing' = [advancing EXCEPT ![p] = [by |-> by, from |-> at[p], to |-> r]]

Enter(p, r) ==
  /\ at' = [at EXCEPT ![p] = r]
  /\ probation' = IF r \in Probationary THEN probation \cup {p} ELSE probation \ {p}
  /\ UNCHANGED <<shapeVars, score, picked, editVars>>

Advance(p, r) ==
  /\ LookAtAdvance(p, r, "owner")
  /\ UNCHANGED <<shapeVars, peopleVars, picked, editVars>>

\* ... and saves; the ladder may have changed since.
SaveAdvance(p) ==
  /\ ~ Unlocked(p)
  /\ Enter(p, advancing[p].to)
  /\ advancing' = [advancing EXCEPT ![p] = Resting]

\* sweepEligibleEmployees: the nightly job passes over whoever stands on no
\* stage (nobody enters the ladder by the sweep), ...
SweepEligibleEmployees(p) ==
  /\ picked = NoPick /\ CurrentRung(p) # Entry
  /\ picked' = [who |-> p, to |-> Idle]
  /\ UNCHANGED <<shapeVars, peopleVars, advancing, editVars>>

\* ... takes an automatic stage whose criteria are met, if there is one ...
SweepCandidates ==
  /\ picked.who # Idle /\ picked.to = Idle
  /\ LET p == picked.who
         due == IF Passed(p) THEN NextRungs(p) \cap auto ELSE {}
     IN  picked' \in IF due = {} THEN {NoPick} ELSE {[who |-> p, to |-> r] : r \in due}
  /\ UNCHANGED <<shapeVars, peopleVars, advancing, editVars>>

\* ... and calls advance, which looks at the path and the criteria again.
SweepAdvances ==
  /\ picked.to # Idle /\ Unlocked(picked.who)
  /\ picked' = NoPick
  /\ \/ LookAtAdvance(picked.who, picked.to, "sweep")
     \/ ~ MayAdvance(picked.who, picked.to, "sweep") /\ UNCHANGED advancing
  /\ UNCHANGED <<shapeVars, peopleVars, editVars>>

\* awardCapabilityPoints and the passing of time change what is measured.
AwardCapabilityPoints(p) ==
  /\ score' \in {[score EXCEPT ![p] = s] : s \in 0..MaxScore}
  /\ UNCHANGED <<shapeVars, at, probation, picked, advancing, editVars>>

\* changeEmploymentType (career-ladder.lifecycle.ts): the owner picks any
\* type of the store; the status follows the type.
ChangeEmploymentType(p, r) ==
  /\ Unlocked(p)
  /\ rung[r] # "none" /\ at[p] # r
  /\ Enter(p, r)
  /\ UNCHANGED advancing

\* resetLadder: a stage of another ladder sends the person to a stage of this
\* one; meant is an entry, and the look-up takes any edge.  Only a probation
\* changes the status.
ResetLadder(p) ==
  \E e \in edges :
    /\ Unlocked(p)
    /\ e[2] \in Live /\ e[2] # CurrentRung(p)
    /\ at' = [at EXCEPT ![p] = e[2]]
    /\ probation' = IF e[2] \in Probationary THEN probation \cup {p} ELSE probation
    /\ UNCHANGED <<shapeVars, score, picked, advancing, editVars>>

LadderInit ==
  /\ rung = [r \in Rungs |-> "none"]
  /\ edges = {} /\ auto = {}
  /\ demand = [r \in Rungs |-> 0]
  /\ at = [p \in People |-> Entry]
  /\ probation = {}
  /\ score = [p \in People |-> 0]
  /\ picked = NoPick
  /\ advancing = [p \in People |-> Resting]
  /\ request = [w \in Editors |-> NoRequest]
  /\ edits = 0
  /\ stale = FALSE /\ handmade = FALSE

LadderNext ==
  \/ \E w \in Editors, r \in Rungs :
       SaveStage(w, r) \/ CreateRung(w, r) \/ SetRungNextRungs(w, r)
         \/ DeleteRung(w, r) \/ UpdateRung(w, r)
  \/ \E w \in Editors : CommitStage(w) \/ CommitCreate(w) \/ CommitNext(w)
                         \/ CommitDelete(w) \/ CommitUpdate(w)
  \/ \E r \in Rungs : SetRungCriteria(r)
  \/ \E p \in People, r \in Rungs : Advance(p, r) \/ ChangeEmploymentType(p, r)
  \/ \E p \in People : SaveAdvance(p) \/ SweepEligibleEmployees(p)
                          \/ AwardCapabilityPoints(p) \/ ResetLadder(p)
  \/ SweepCandidates \/ SweepAdvances

LadderSpec == LadderInit /\ [][LadderNext]_ladderVars

StoreLadderRung == {"none", "live", "gone"}
StoreLadderEdge == Nodes \X Rungs
StoreRungCriteria == 0..MaxScore
LadderTypeOK ==
  /\ rung \in [Rungs -> StoreLadderRung]
  /\ edges \subseteq StoreLadderEdge
  /\ demand \in [Rungs -> StoreRungCriteria]
  /\ auto \subseteq Rungs
  /\ at \in [People -> Nodes]
  /\ probation \subseteq People
  /\ score \in [People -> 0..MaxScore]
  /\ edits \in 0..MaxEdits
  /\ \A p \in People : advancing[p].to \in Rungs \cup {Idle}
  /\ {stale, handmade} \subseteq BOOLEAN

(***************************************************************************)
(* As long as no edit was written over a ladder that another edit had      *)
(* changed since it was read, the ladder has no cycle (hasCycle before     *)
(* every write, and planRungRemoval never closes one) and no edge to a     *)
(* deleted stage.                                                          *)
(***************************************************************************)
LadderHasNoCycle ==
  ~ stale => /\ ~ HasCycle(edges)
             /\ edges \subseteq (Live \cup {Entry}) \X Live

(***************************************************************************)
(* Edited through the stage editor, the ladder keeps every stage within    *)
(* reach of a newcomer: deletions bridge the gap and a stage whose only    *)
(* predecessor lets go of it becomes an entry.                             *)
(***************************************************************************)
StagesReachable ==
  ~ (stale \/ handmade) => Live \subseteq Reached[{Entry}, edges]

(***************************************************************************)
(* The sweep judges people by where they stand when their profile is       *)
(* locked, not by what it saw before: whoever it begins to advance meets   *)
(* what the stage they are on asks and the ladder leads on from it, edits, *)
(* decisions and advances of the owner in between notwithstanding.  And    *)
(* the save that follows moves them from that very place, so it never      *)
(* overwrites a decision about them.                                       *)
(***************************************************************************)
AutoAdvanceIsDue ==
  [][\A p \in People :
       /\ Unlocked(p) /\ advancing'[p].by = "sweep" /\ at[p] \in Live =>
            /\ <<at[p], advancing'[p].to>> \in edges
            /\ score[p] >= demand[at[p]]
       /\ ~ Unlocked(p) /\ at'[p] # at[p] => at[p] = advancing[p].from]_ladderVars

(* What the ladder promises: no cycle, no stage out of reach, and no       *)
(* automatic advance that is no longer due.                                *)
CareerLadderPromise ==
  /\ [](LadderTypeOK /\ LadderHasNoCycle /\ StagesReachable)
  /\ AutoAdvanceIsDue
=============================================================================
