---------------------------- MODULE CareerProgress ----------------------------
(***************************************************************************)
(* Learning the skills of a department (career-progress.service.ts and     *)
(* career-evaluation.service.ts): evaluations, confirmations, the nightly  *)
(* sweep of automatic skills and promotions, while the owner edits the     *)
(* skills.  Every operation locks the profile (lockProfile) and carries a  *)
(* request id that the app repeats when an answer is lost; evaluations     *)
(* look for it in their store, career events in the events of the person.  *)
(* Time is a counter of operations; it only matters which came first.      *)
(***************************************************************************)
EXTENDS FiniteSets, Integers, FiniteSetsExt

CONSTANTS Subjects,    \* the skills, as numbers: their first sequence
          Learners,    \* employee profiles of the department
          RequestIds,  \* clientRequestId values
          Thresholds,  \* SUCCESSFUL_REPS targets; 0 is no requirement
          MaxClock, MaxTweaks,
          NoRequestId

VARIABLES trait,   \* of a skill: place, required, ordered, auto, needs
          joined,  \* start of a person's stint; 0 while they are away
          rows,    \* employee_skill_progress: [made, done] times, made 0 for none
          passes,  \* employee_skill_evaluations that are passes: times
          filed,   \* what was written under a request id: evaluations and events
          level,   \* rank of the position of a person
          clock, tweaks
progressVars == <<trait, joined, rows, passes, filed, level, clock, tweaks>>

Never == [made |-> 0, done |-> 0]

(***************************************************************************)
(* skillStates.                                                            *)
(***************************************************************************)
\* progressRows: the rows of the current stint.
Achieved(e) == {k \in Subjects : rows[e][k].made # 0 /\ rows[e][k].made >= joined[e]}

Gates(k) == {j \in Subjects : trait[j].ordered /\ trait[j].required
                                /\ trait[j].place < trait[k].place}

\* An ordered skill is locked behind the required skills before it.
Locked(e, k) == trait[k].ordered /\ ~ (Gates(k) \subseteq Achieved(e))

UnlockedAt(e, k) ==
  Max({joined[e]} \cup {rows[e][j].done :
                          j \in IF trait[k].ordered THEN Gates(k) \cap Achieved(e) ELSE {}})

PassCount(e, k) == Cardinality({t \in passes[e][k] : t >= UnlockedAt(e, k)})

InProgress(e, k) == k \notin Achieved(e) /\ ~ Locked(e, k)
Awaiting(e, k) == InProgress(e, k) /\ PassCount(e, k) >= trait[k].needs

(***************************************************************************)
(* Operations.                                                             *)
(***************************************************************************)
\* The look-ups of evaluations (store and id) and of events (profile and id):
\* a request that was filed is answered from the row and changes nothing, and
\* the unique index of the table settles two that cross (withReplay).
PriorEvaluation(r) == \E f \in filed : f.kind = "evaluation" /\ f.id = r

\* A repeated request is taken for a new one.
NeverPrior(e, r) == FALSE

PriorEvent(e, r) == \E f \in filed : f.kind = "event" /\ f.id = r /\ f.who = e

Tick == clock < MaxClock /\ clock' = clock + 1
Filed(kind, e, r, k) == [kind |-> kind, who |-> e, id |-> r, on |-> k, at |-> clock']
File(kind, e, r, k) == filed' = filed \cup {Filed(kind, e, r, k)}

\* achieve: an old row is reused, else one is made.
AchievedRow(e, k) == [rows EXCEPT ![e][k] =
                        [made |-> IF @.made # 0 THEN @.made ELSE clock', done |-> clock']]

\* recordEvaluation: a pass may complete an automatic skill at once.
RecordEvaluation(e, k, r, pass) ==
  /\ Tick
  /\ joined[e] # 0 /\ ~ PriorEvaluation(r) /\ InProgress(e, k)
  /\ passes' = [passes EXCEPT ![e][k] = IF pass THEN @ \cup {clock'} ELSE @]
  /\ IF trait[k].auto /\ PassCount(e, k) + (IF pass THEN 1 ELSE 0) >= trait[k].needs
     THEN /\ rows' = AchievedRow(e, k)
          /\ filed' = filed \cup {Filed("evaluation", e, r, k),
                                  Filed("event", e, NoRequestId, k)}
     ELSE rows' = rows /\ File("evaluation", e, r, k)
  /\ UNCHANGED <<trait, joined, level, tweaks>>

\* confirmSkill: force replaces the criteria, never the order.
ConfirmSkill(e, k, r, force) ==
  /\ Tick
  /\ joined[e] # 0 /\ ~ PriorEvent(e, r) /\ InProgress(e, k)
  /\ Awaiting(e, k) \/ force
  /\ rows' = AchievedRow(e, k)
  /\ File("event", e, r, k)
  /\ UNCHANGED <<trait, joined, passes, level, tweaks>>

\* promote, within the department: the required skills (requiredSkillsMet,
\* addImplicitSkills), or force.
Promote(e, r, force) ==
  /\ Tick
  /\ joined[e] # 0 /\ ~ PriorEvent(e, r) /\ level[e] < Cardinality(RequestIds)
  /\ force \/ {k \in Subjects : trait[k].required} \subseteq Achieved(e)
  /\ level' = [level EXCEPT ![e] = @ + 1]
  /\ File("event", e, r, 0)
  /\ UNCHANGED <<trait, joined, rows, passes, tweaks>>

\* sweepAutoSkills: as long as an automatic skill awaits confirmation, the
\* first one is achieved; then the states are computed again.
Ready(e) == {k \in Subjects : trait[k].auto /\ Awaiting(e, k)}
\* What one transaction achieves: a skill opened by another one has its
\* passes counted anew, so only skills without a requirement follow.
Follows(e, done, k) ==
  /\ k \notin Achieved(e) \cup done /\ trait[k].auto /\ trait[k].needs = 0
  /\ trait[k].ordered => Gates(k) \subseteq Achieved(e) \cup done
Swept[e \in Learners, done \in SUBSET Subjects] ==
  LET next == {k \in Subjects : k \in Ready(e) \ done \/ Follows(e, done, k)}
  IN  IF next = {} THEN done
      ELSE Swept[e, done \cup {CHOOSE k \in next : \A j \in next : trait[k].place <= trait[j].place}]
SweptSkills(e) == Swept[e, {}]

SweepAutoSkills(e) ==
  /\ Tick
  /\ joined[e] # 0 /\ Ready(e) # {}
  /\ rows' = [rows EXCEPT ![e] = [k \in Subjects |->
       IF k \in SweptSkills(e)
       THEN [made |-> IF @[k].made # 0 THEN @[k].made ELSE clock', done |-> clock']
       ELSE @[k]]]
  /\ filed' = filed \cup {Filed("event", e, NoRequestId, k) : k \in SweptSkills(e)}
  /\ UNCHANGED <<trait, joined, passes, level, tweaks>>

\* updateSkill: level, confirmation, order and requirements; a new sequence
\* swaps with the neighbour here.
UpdateSkill(k) ==
  /\ tweaks < MaxTweaks /\ tweaks' = tweaks + 1
  /\ \/ \E q \in BOOLEAN, o \in BOOLEAN, a \in BOOLEAN, n \in Thresholds :
          trait' = [trait EXCEPT ![k] = [@ EXCEPT !.required = q, !.ordered = o,
                                                  !.auto = a, !.needs = n]]
     \/ \E j \in Subjects : trait' = [trait EXCEPT ![k].place = trait[j].place,
                                                   ![j].place = trait[k].place]
  /\ UNCHANGED <<joined, rows, passes, filed, level, clock>>

\* deleteEmployee, and a rehire, which deletes the rows of the old stint
\* (initializeEmployeeProfile) and starts on the first position.
Leave(e) ==
  /\ joined[e] # 0
  /\ joined' = [joined EXCEPT ![e] = 0]
  /\ UNCHANGED <<trait, rows, passes, filed, level, clock, tweaks>>

ForgetRows(e) == [rows EXCEPT ![e] = [k \in Subjects |-> Never]]

Rehire(e) ==
  /\ Tick
  /\ joined[e] = 0
  /\ joined' = [joined EXCEPT ![e] = clock']
  /\ rows' = ForgetRows(e)
  /\ level' = [level EXCEPT ![e] = 0]
  /\ UNCHANGED <<trait, passes, filed, tweaks>>

ProgressInit ==
  /\ trait = [k \in Subjects |-> [place |-> k, required |-> TRUE, ordered |-> TRUE,
                                  auto |-> TRUE, needs |-> Max(Thresholds)]]
  /\ joined = [e \in Learners |-> 0]
  /\ rows = [e \in Learners |-> [k \in Subjects |-> Never]]
  /\ passes = [e \in Learners |-> [k \in Subjects |-> {}]]
  /\ filed = {}
  /\ level = [e \in Learners |-> 0]
  /\ clock = 0 /\ tweaks = 0

ProgressNext ==
  \/ \E e \in Learners, k \in Subjects, r \in RequestIds, b \in BOOLEAN :
       RecordEvaluation(e, k, r, b) \/ ConfirmSkill(e, k, r, b)
  \/ \E e \in Learners, r \in RequestIds, b \in BOOLEAN : Promote(e, r, b)
  \/ \E e \in Learners : SweepAutoSkills(e) \/ Leave(e) \/ Rehire(e)
  \/ \E k \in Subjects : UpdateSkill(k)

ProgressSpec == ProgressInit /\ [][ProgressNext]_progressVars

EmployeeSkillProgress == [made : 0..MaxClock, done : 0..MaxClock]
EmployeeSkillEvaluation == 1..MaxClock  \* when it was passed
EmployeeCareerEvent ==  \* and the evaluations, by request id
  [kind : {"evaluation", "event"}, who : Learners, id : RequestIds \cup {NoRequestId},
   on : Subjects \cup {0}, at : 1..MaxClock]
ProgressTypeOK ==
  /\ trait \in [Subjects -> [place : Subjects, required : BOOLEAN, ordered : BOOLEAN,
                             auto : BOOLEAN, needs : Thresholds]]
  /\ joined \in [Learners -> 0..MaxClock]
  /\ rows \in [Learners -> [Subjects -> EmployeeSkillProgress]]
  /\ passes \in [Learners -> [Subjects -> SUBSET EmployeeSkillEvaluation]]
  /\ filed \subseteq EmployeeCareerEvent
  /\ level \in [Learners -> 0..Cardinality(RequestIds)]
  /\ clock \in 0..MaxClock /\ tweaks \in 0..MaxTweaks

(***************************************************************************)
(* A request that is sent again has no second effect of its kind: an id    *)
(* stands for one evaluation of the store and for one career event of a    *)
(* person, so a repeated promotion climbs one rank, a repeated pass counts *)
(* once and an id spent on one skill does not confirm another (priorEvent, *)
(* withReplay).  It may stand for one of each kind, see the README.        *)
(***************************************************************************)
AppliedOnce ==
  \A f, g \in filed :
    /\ f.id = g.id /\ f.id # NoRequestId /\ f.kind = g.kind
    /\ f.kind = "event" => f.who = g.who
    => f = g

(***************************************************************************)
(* Skills that are learnt in order are learnt in order: when an ordered    *)
(* skill is achieved, every required ordered skill placed before it at     *)
(* that moment is achieved, by the sweep and by a forced confirmation too  *)
(* (skillStates, SKILL_LOCKED).                                            *)
(***************************************************************************)
LearntInOrder ==
  [][\A e \in Learners, k \in Subjects :
       rows'[e][k].done > rows[e][k].done /\ trait[k].ordered =>
         \A j \in Gates(k) : rows'[e][j].done # 0]_progressVars

(***************************************************************************)
(* One night's sweep leaves nothing behind: after it no automatic skill of *)
(* the person awaits confirmation, however many follow from each other.    *)
(***************************************************************************)
SweepSettles ==
  [][\A e \in Learners : SweepAutoSkills(e) => Ready(e)' = {}]_progressVars

(***************************************************************************)
(* A rehired person earns a skill anew: what counts as achieved was        *)
(* achieved in the present stint.                                          *)
(***************************************************************************)
EarnedInThisStint ==
  \A e \in Learners : joined[e] # 0 =>
    \A k \in Subjects : rows[e][k].done # 0 =>
      k \in Achieved(e) /\ rows[e][k].done >= joined[e]

(* What learning promises: a request counts once, skills are learnt in     *)
(* order and in this stint, and a sweep leaves nothing behind.             *)
CareerProgressPromise ==
  /\ [](ProgressTypeOK /\ AppliedOnce /\ EarnedInThisStint)
  /\ LearntInOrder
  /\ SweepSettles
=============================================================================
