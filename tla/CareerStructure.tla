--------------------------- MODULE CareerStructure ---------------------------
(***************************************************************************)
(* Departments, positions and skills of one store (career/                 *)
(* career-structure.service.ts) and where its people stand in them         *)
(* (career-progress.service.ts, stores.service.ts).  Every edit of the     *)
(* structure holds the store's career row exclusively (write), promotions  *)
(* and transfers hold it shared with the profile locked (lockProfile), and *)
(* hiring holds it shared: each of them is one step.  restoreEmployee does *)
(* not hold it: it looks up the place of the person first and saves the    *)
(* profile later.                                                          *)
(***************************************************************************)
EXTENDS FiniteSets, Integers, Functions

CONSTANTS Departments,  \* ids of departments, created at most once each
          Top,          \* the system department (tier 1), always there
          Positions, Skills, Employees,
          MaxChanges,   \* bound on structure edits
          Nowhere       \* NULL

(* A store has finitely many positions and skills, and NULL is no row.     *)
ASSUME StructureAssumption ==
  /\ IsFiniteSet(Positions) /\ IsFiniteSet(Skills)
  /\ Top \notin Departments
  /\ Nowhere \notin Departments \cup Positions \cup {Top}
  /\ MaxChanges \in Nat

VARIABLES dept,      \* [state, parent, tier] of every department
          position,  \* [state, dept, rank]; rank 0 is NULL
          skill,     \* [state, dept, pos, rank]; rank is the sequence
          person,    \* [state, dept, pos, learnt] of every profile
          changes,
          overtaken  \* history: a restore saved a place that was gone by then
structureVars == <<dept, position, skill, person, changes, overtaken>>

AnyDept == Departments \cup {Top}
LiveDepts == {d \in AnyDept : dept[d].state = "live"}
LivePositions == {p \in Positions : position[p].state = "live"}
LiveSkills == {k \in Skills : skill[k].state = "live"}
Employed == {e \in Employees : person[e].state = "works"}

(***************************************************************************)
(* Order within a department: orderedIds, placed and applyOrder over rows  *)
(* (positions with their rank, skills with their sequence).                *)
(***************************************************************************)
RowsOf(row, d) == {x \in DOMAIN row : row[x].state = "live" /\ row[x].dept = d}

\* orderedIds: by rank, the ones without a rank last.
Ahead(row, y, x) ==
  row[y].rank # 0 /\ (row[x].rank = 0 \/ row[y].rank < row[x].rank)
Place(row, S, x) == Cardinality({y \in S : Ahead(row, y, x)}) + 1

\* The rows S keep their order and are numbered 1, 2, ...
ApplyOrder(row, S) ==
  [x \in DOMAIN row |->
     IF x \in S THEN [row[x] EXCEPT !.rank = Place(row, S, x)] ELSE row[x]]

\* Row x takes the given place of a department, past the end the last one,
\* among the others in their order.
Placed(row, d, x, at) ==
  LET rest == RowsOf(row, d) \ {x}
      i == IF at > Cardinality(rest) THEN Cardinality(rest) + 1 ELSE at
  IN  [y \in DOMAIN row |->
         IF y = x THEN [row[y] EXCEPT !.dept = d, !.rank = i]
         ELSE IF y \notin rest THEN row[y]
         ELSE [row[y] EXCEPT !.rank = LET n == Place(row, rest, y)
                                      IN  IF n < i THEN n ELSE n + 1]]

Places(row, d) == 1..(Cardinality(RowsOf(row, d)) + 1)

\* A row leaves the list of its department, which closes the gap.
Without(row, x) ==
  ApplyOrder([row EXCEPT ![x].rank = 0], RowsOf(row, row[x].dept) \ {x})

\* A row moves to another department, at a place of its list.
MovedTo(row, x, d, at) == Placed(Without(row, x), d, x, at)

Edit == /\ changes < MaxChanges
        /\ changes' = changes + 1
        /\ UNCHANGED <<person, overtaken>>

(***************************************************************************)
(* Departments.                                                            *)
(***************************************************************************)
\* assertTier: from 2 to 4, below the parent.
TierFits(parent, tier) == tier \in 2..4 /\ dept[parent].tier < tier

\* The department and everything above it; the tree is at most four tiers deep.
Parents(S) == S \cup {dept[d].parent : d \in S \ {Top, Nowhere}}
Above(d) == Parents(Parents(Parents({d})))

CreateDepartment(d, parent, tier) ==
  /\ Edit
  /\ dept[d].state = "none" /\ parent \in LiveDepts /\ TierFits(parent, tier)
  /\ dept' = [dept EXCEPT ![d] = [state |-> "live", parent |-> parent, tier |-> tier]]
  /\ UNCHANGED <<position, skill>>

\* A request that moves nothing (a new name) is not checked; the system
\* department takes no other.
UpdateDepartment(d, parent, tier) ==
  /\ Edit
  /\ d \in LiveDepts
  /\ \/ parent = dept[d].parent /\ tier = dept[d].tier
     \/ /\ d # Top /\ parent \in LiveDepts /\ TierFits(parent, tier)
        /\ d \notin Above(parent)
        /\ \A c \in LiveDepts : dept[c].parent = d => dept[c].tier > tier
  /\ dept' = [dept EXCEPT ![d] = [@ EXCEPT !.parent = parent, !.tier = tier]]
  /\ UNCHANGED <<position, skill>>

\* A department with children or with people, in it or in one of its
\* positions, stays; its positions and skills are deleted with it.
Retired(row, d) ==
  [x \in DOMAIN row |-> IF x \in RowsOf(row, d)
                        THEN [row[x] EXCEPT !.state = "gone", !.rank = 0] ELSE row[x]]

DeleteDepartment(d) ==
  /\ Edit
  /\ d \in LiveDepts \ {Top}
  /\ \A c \in LiveDepts : dept[c].parent # d
  /\ \A e \in Employed : person[e].dept # d /\ person[e].pos \notin RowsOf(position, d)
  /\ dept' = [dept EXCEPT ![d].state = "gone"]
  /\ position' = Retired(position, d)
  /\ skill' = Retired(skill, d)

\* duplicateDepartment: every row of the source gets a copy with the same
\* place; a skill of a position becomes a skill of the copied position.
DuplicateDepartment(d, c) ==
  /\ Edit
  /\ d \in LiveDepts \ {Top} /\ dept[c].state = "none"
  /\ \E ps \in [RowsOf(position, d) -> {p \in Positions : position[p].state = "none"}],
        ks \in [RowsOf(skill, d) -> {k \in Skills : skill[k].state = "none"}] :
       /\ IsInjective(ps) /\ IsInjective(ks)
       /\ dept' = [dept EXCEPT ![c] = [dept[d] EXCEPT !.state = "live"]]
       /\ position' = [p \in Positions |->
            IF \E q \in DOMAIN ps : ps[q] = p
            THEN [position[CHOOSE q \in DOMAIN ps : ps[q] = p] EXCEPT !.dept = c]
            ELSE position[p]]
       /\ skill' = [k \in Skills |->
            IF \E j \in DOMAIN ks : ks[j] = k
            THEN LET i == CHOOSE j \in DOMAIN ks : ks[j] = k
                 IN  [skill[i] EXCEPT !.dept = c,
                        !.pos = IF @ \in DOMAIN ps THEN ps[@] ELSE Nowhere]
            ELSE skill[k]]

(***************************************************************************)
(* Positions.                                                              *)
(***************************************************************************)
\* countHolders counts the people who work; skills of the position hold it.
Holders(p) == {e \in Employed : person[e].pos = p}
PositionSkills(p) == {k \in LiveSkills : skill[k].pos = p}

CreatePosition(p, d, at) ==
  /\ Edit
  /\ position[p].state = "none" /\ d \in LiveDepts \ {Top} /\ at \in Places(position, d)
  /\ position' = Placed([position EXCEPT ![p] = [state |-> "live", dept |-> d, rank |-> 0]],
                        d, p, at)
  /\ UNCHANGED <<dept, skill>>

\* A position may leave its skills behind.
UpdatePositionWithSkills(p, d, at) ==
  /\ Edit
  /\ p \in LivePositions /\ d \in LiveDepts \ {Top} /\ at \in Places(position, d)
  /\ IF d = position[p].dept
     THEN position' = Placed(position, d, p, at)
     ELSE /\ Holders(p) = {}
          /\ position' = MovedTo(position, p, d, at)
  /\ UNCHANGED <<dept, skill>>

UpdatePosition(p, d, at) ==
  /\ Edit
  /\ p \in LivePositions /\ d \in LiveDepts \ {Top} /\ at \in Places(position, d)
  /\ IF d = position[p].dept
     THEN position' = Placed(position, d, p, at)
     ELSE /\ Holders(p) = {} /\ PositionSkills(p) = {}
          /\ position' = MovedTo(position, p, d, at)
  /\ UNCHANGED <<dept, skill>>

DeletePosition(p) ==
  /\ Edit
  /\ p \in LivePositions /\ Holders(p) = {} /\ PositionSkills(p) = {}
  /\ position' = [Without(position, p) EXCEPT ![p].state = "gone"]
  /\ UNCHANGED <<dept, skill>>

(***************************************************************************)
(* Skills.                                                                 *)
(***************************************************************************)
\* skillPosition: none, or a ranked position of the department.
SkillPositions(d) ==
  {Nowhere} \cup {p \in RowsOf(position, d) : position[p].rank # 0}
Learners(k) == {e \in Employees : k \in person[e].learnt}

CreateSkill(k, d, p, at) ==
  /\ Edit
  /\ skill[k].state = "none" /\ d \in LiveDepts \ {Top} /\ at \in Places(skill, d)
  /\ p \in SkillPositions(d)
  /\ skill' = Placed([skill EXCEPT ![k] = [state |-> "live", dept |-> d, pos |-> p, rank |-> 0]],
                     d, k, at)
  /\ UNCHANGED <<dept, position>>

\* A skill somebody has progress in stays in its department; one that moves
\* loses its position unless the request names one of the new department.
UpdateSkill(k, d, p, at) ==
  /\ Edit
  /\ k \in LiveSkills /\ d \in LiveDepts \ {Top} /\ at \in Places(skill, d)
  /\ p \in SkillPositions(d)
  /\ d # skill[k].dept => Learners(k) = {}
  /\ skill' = [(IF d = skill[k].dept
                THEN Placed(skill, d, k, at)
                ELSE MovedTo(skill, k, d, at)) EXCEPT ![k].pos = p]
  /\ UNCHANGED <<dept, position>>

DeleteSkill(k) ==
  /\ Edit
  /\ k \in LiveSkills /\ Learners(k) = {}
  /\ skill' = [Without(skill, k) EXCEPT ![k].state = "gone"]
  /\ UNCHANGED <<dept, position>>

(***************************************************************************)
(* People.                                                                 *)
(***************************************************************************)
\* Where a person may be put: in a ranked position, and so in its
\* department, or in a department without a position.
Seats == {<<position[p].dept, p>> : p \in {q \in LivePositions : position[q].rank # 0}}
           \cup {<<d, Nowhere>> : d \in LiveDepts \ {Top}}

Settle(e, seat) ==
  /\ person' = [person EXCEPT ![e].state = "works",
                              ![e].dept = seat[1], ![e].pos = seat[2]]
  /\ UNCHANGED <<dept, position, skill, changes, overtaken>>

\* Hiring places the newcomer, or leaves them unplaced.
Hire(e) ==
  /\ person[e].state = "away"
  /\ \E seat \in Seats \cup {<<Nowhere, Nowhere>>} : Settle(e, seat)

\* transfer: any seat of another department.
Transfer(e) ==
  /\ e \in Employed
  /\ \E seat \in Seats : seat[1] # person[e].dept /\ Settle(e, seat)

\* positionsOf: the ranked positions of a department, the lowest of them,
\* and whether the person is in the highest.
PositionsOf(d) == {p \in RowsOf(position, d) : position[p].rank # 0}
EntryOf(d) ==
  {p \in PositionsOf(d) : \A q \in PositionsOf(d) : position[p].rank <= position[q].rank}
CurrentLive(e) == person[e].pos \in LivePositions /\ position[person[e].pos].rank # 0
IsAncestor(a, d) == d # Nowhere /\ a \in Above(d) \ {d}
AtTop(e) ==
  /\ person[e].pos \in PositionsOf(person[e].dept)
  /\ \A p \in PositionsOf(person[e].dept) :
       position[p].rank <= position[person[e].pos].rank

\* positionAdjacent: whether position t is the person's next step.
PositionAdjacent(e, t) ==
  LET here == person[e].dept
      there == position[t].dept
  IN  IF ~ CurrentLive(e)
      THEN /\ position[t].rank = 1
           /\ \/ here = Nowhere
              \/ there = here
              \/ PositionsOf(here) = {} /\ IsAncestor(there, here)
      ELSE IF there = here
           THEN position[t].rank = position[person[e].pos].rank + 1
           ELSE position[t].rank = 1 /\ AtTop(e) /\ IsAncestor(there, here)

\* evaluateDepartment, for a department that has no position.
DepartmentAdjacent(e, d) ==
  LET here == person[e].dept
  IN  /\ d \notin {Top, here}
      /\ \/ here = Nowhere
         \/ /\ IsAncestor(d, here)
            /\ IF CurrentLive(e) THEN AtTop(e) ELSE PositionsOf(here) = {}

\* nextTarget: the seat the app offers next, if any: the next position of the
\* department, else the first position of its parent, else the parent.
NextTarget(e) ==
  LET here == person[e].dept
      up == {p \in PositionsOf(here) : position[p].rank = position[person[e].pos].rank + 1}
      inside == IF CurrentLive(e) THEN up ELSE EntryOf(here)
      parent == dept[here].parent
  IN  IF here = Nowhere THEN {}
      ELSE IF inside # {} THEN {<<here, p>> : p \in inside}
      ELSE IF parent = Top THEN {}
      ELSE IF PositionsOf(parent) = {} THEN {<<parent, Nowhere>>}
      ELSE {<<parent, p>> : p \in EntryOf(parent)}

\* promote, by path or forced by the owner: to a position, or to a
\* department, which means its first position if it has one.
Promote(e) ==
  /\ e \in Employed
  /\ \E seat \in Seats :
       /\ seat[2] = Nowhere => PositionsOf(seat[1]) = {} /\ seat[1] # person[e].dept
       /\ seat[2] # Nowhere => seat[2] # person[e].pos
       /\ Settle(e, seat)

\* A skill is achieved (achieve) while the person works in its department.
Achieve(e, k) ==
  /\ e \in Employed /\ k \in LiveSkills /\ k \notin person[e].learnt
  /\ skill[k].dept = person[e].dept
  /\ skill[k].pos \in {Nowhere, person[e].pos}
  /\ person' = [person EXCEPT ![e].learnt = @ \cup {k}]
  /\ UNCHANGED <<dept, position, skill, changes, overtaken>>

\* deleteEmployee keeps the place on the profile.
Leave(e) ==
  /\ e \in Employed
  /\ person' = [person EXCEPT ![e].state = "left"]
  /\ UNCHANGED <<dept, position, skill, changes, overtaken>>

\* reconcileRestoredPlacement: a deleted position is dropped, the department
\* follows a position that moved, a deleted department is dropped.
Reconciled(e) ==
  LET p == IF person[e].pos \in LivePositions THEN person[e].pos ELSE Nowhere
      d == IF p # Nowhere THEN position[p].dept ELSE person[e].dept
  IN  <<IF d \in LiveDepts THEN d ELSE Nowhere, p>>

\* restoreEmployee: reads and reconciles ...
RestoreEmployee(e) ==
  /\ person[e].state = "left"
  /\ person' = [person EXCEPT ![e].state = "returning",
                  ![e].dept = Reconciled(e)[1], ![e].pos = Reconciled(e)[2]]
  /\ UNCHANGED <<dept, position, skill, changes, overtaken>>

InLivePlace(e) ==
  /\ person[e].dept \in (LiveDepts \ {Top}) \cup {Nowhere}
  /\ person[e].pos # Nowhere =>
       person[e].pos \in LivePositions /\ position[person[e].pos].dept = person[e].dept

\* ... and saves the profile as ACTIVE.  Until then the person counts for
\* nobody who edits the structure.
SaveRestored(e) ==
  /\ person[e].state = "returning"
  /\ person' = [person EXCEPT ![e].state = "works"]
  /\ overtaken' = (overtaken \/ ~ InLivePlace(e))
  /\ UNCHANGED <<dept, position, skill, changes>>

StructureInit ==
  /\ dept = [d \in AnyDept |->
       IF d = Top THEN [state |-> "live", parent |-> Nowhere, tier |-> 1]
       ELSE [state |-> "none", parent |-> Nowhere, tier |-> 0]]
  /\ position = [p \in Positions |-> [state |-> "none", dept |-> Nowhere, rank |-> 0]]
  /\ skill = [k \in Skills |->
       [state |-> "none", dept |-> Nowhere, pos |-> Nowhere, rank |-> 0]]
  /\ person = [e \in Employees |->
       [state |-> "away", dept |-> Nowhere, pos |-> Nowhere, learnt |-> {}]]
  /\ changes = 0
  /\ overtaken = FALSE

StructureNext ==
  \/ \E d \in Departments, parent \in AnyDept, tier \in 2..4 : CreateDepartment(d, parent, tier)
  \/ \E d \in AnyDept, parent \in AnyDept \cup {Nowhere}, tier \in 1..4 :
       UpdateDepartment(d, parent, tier)
  \/ \E d \in Departments : DeleteDepartment(d)
  \/ \E d, c \in Departments : DuplicateDepartment(d, c)
  \/ \E p \in Positions, d \in Departments, at \in 1..(Cardinality(Positions) + 1) :
       CreatePosition(p, d, at) \/ UpdatePosition(p, d, at)
  \/ \E p \in Positions : DeletePosition(p)
  \/ \E k \in Skills, d \in Departments, p \in Positions \cup {Nowhere},
        at \in 1..(Cardinality(Skills) + 1) :
       CreateSkill(k, d, p, at) \/ UpdateSkill(k, d, p, at)
  \/ \E k \in Skills : DeleteSkill(k)
  \/ \E e \in Employees : Hire(e) \/ Transfer(e) \/ Promote(e) \/ Leave(e)
                            \/ RestoreEmployee(e) \/ SaveRestored(e)
  \/ \E e \in Employees, k \in Skills : Achieve(e, k)

StructureSpec == StructureInit /\ [][StructureNext]_structureVars

RowState == {"none", "live", "gone"}
StoreDepartment == [state : RowState, parent : AnyDept \cup {Nowhere}, tier : 0..4]
StoreRole == [state : RowState, dept : AnyDept \cup {Nowhere},
              rank : 0..Cardinality(Positions)]
StoreSkill == [state : RowState, dept : AnyDept \cup {Nowhere},
               pos : Positions \cup {Nowhere}, rank : 0..Cardinality(Skills)]
StructureTypeOK ==
  /\ dept \in [AnyDept -> StoreDepartment]
  /\ position \in [Positions -> StoreRole]
  /\ skill \in [Skills -> StoreSkill]
  /\ person \in [Employees -> [state : {"away", "works", "left", "returning"},
                               dept : AnyDept \cup {Nowhere},
                               pos : Positions \cup {Nowhere}, learnt : SUBSET Skills]]
  /\ changes \in 0..MaxChanges /\ overtaken \in BOOLEAN

(***************************************************************************)
(* The departments form a tree under the system department, every child    *)
(* on a higher tier number than its parent, through creations, moves,      *)
(* copies and deletions (createDepartment, updateDepartment, ...).         *)
(***************************************************************************)
TreeIsSound ==
  \A d \in LiveDepts \ {Top} :
    /\ dept[d].parent \in LiveDepts /\ dept[d].tier \in 2..4
    /\ dept[dept[d].parent].tier < dept[d].tier

(***************************************************************************)
(* The positions of a department are ranked 1, 2, ... without gap or tie,  *)
(* and so are its skills: applyOrder rewrites what every edit disturbs.    *)
(***************************************************************************)
Dense(row, d) ==
  {row[x].rank : x \in RowsOf(row, d)} = 1..Cardinality(RowsOf(row, d))
RanksAreDense == \A d \in LiveDepts : Dense(position, d) /\ Dense(skill, d)

(***************************************************************************)
(* A skill belongs to a live department and, if to a position, to a live   *)
(* position of that department (skillPosition, assertNoPositionSkills).    *)
(***************************************************************************)
SkillsHavePlaces ==
  \A k \in LiveSkills :
    /\ skill[k].dept \in LiveDepts
    /\ skill[k].pos # Nowhere =>
         skill[k].pos \in LivePositions /\ position[skill[k].pos].dept = skill[k].dept

(***************************************************************************)
(* Whoever works stands in a live department and in a live position of     *)
(* that department, unless a restore saved a place that an edit had taken  *)
(* away in between (restoreEmployee holds no career lock).                 *)
(***************************************************************************)
PlacesExist == ~ overtaken => \A e \in Employed : InLivePlace(e)

(***************************************************************************)
(* The step the app offers (nextTarget) is one promote accepts without     *)
(* force (positionAdjacent, evaluateDepartment): the next position of the  *)
(* department, or the way into its parent.                                 *)
(***************************************************************************)
OfferedStepIsAccepted ==
  ~ overtaken => \A e \in Employed : \A seat \in NextTarget(e) :
    IF seat[2] # Nowhere THEN PositionAdjacent(e, seat[2])
    ELSE DepartmentAdjacent(e, seat[1])

(* A position belongs to a live department that is not the system's.       *)
PositionsHavePlaces ==
  \A p \in LivePositions : position[p].dept \in LiveDepts \ {Top}

StructureInd ==
  /\ StructureTypeOK
  /\ TreeIsSound
  /\ RanksAreDense
  /\ PositionsHavePlaces
  /\ SkillsHavePlaces
  /\ PlacesExist

(* What the career structure promises: a sound tree, dense ranks, skills   *)
(* and people in places that exist, and offers that hold.                  *)
CareerStructurePromise == StructureInd /\ OfferedStepIsAccepted
=============================================================================
