--------------------------------- MODULE Kpi ---------------------------------
(***************************************************************************)
(* The KPI sheets of one employee (stores.service.ts): sheets, their       *)
(* tasks, and the requests by which a draft is approved.  The employee may *)
(* edit a draft, the owner anything.  Every operation but the approval     *)
(* checks first and writes later, outside a transaction, and saves the     *)
(* sheet or task as it was read: over what others wrote since, and the     *)
(* save inserts a task that is no longer there.                            *)
(***************************************************************************)
EXTENDS FiniteSets, Integers

CONSTANTS Sheets, Tasks, KpiAsks,  \* ids of sheets, tasks and requests
          KpiDesks,                \* requests being served
          KpiTargets, KpiActuals,  \* values of a target and of a progress
          KpiChoices,              \* statuses that owners choose
          MaxKpiOps,               \* bound on requests
          NoKpi

VARIABLES sheets,    \* employee_kpis
          kpiTasks,  \* kpi_tasks
          kpiAsks,   \* kpi_approval_requests
          kpiDesk,   \* what each desk has checked and is about to write
          kpiStaff,  \* whether the employee still works here
          kpiOps,
          kpiCrossed \* history: edits overtaken since their check
kpiVars == <<sheets, kpiTasks, kpiAsks, kpiDesk, kpiStaff, kpiOps, kpiCrossed>>

KpiStatus == {"DRAFT", "ACTIVE", "PAUSED", "COMPLETED", "CANCELLED"}
\* "own": made by the employee, and the owner has not set its status by hand.
EmployeeKpi == [status : KpiStatus, live : BOOLEAN, own : BOOLEAN]
KpiTask == [sheet : Sheets, target : KpiTargets, actual : KpiActuals,
            rate : Int, hidden : BOOLEAN]
KpiApprovalRequest ==
  [status : {"PENDING", "APPROVED", "REJECTED"}, sheet : Sheets]
IdleKpiDesk == [at |-> "idle"]
KpiDeskState ==
  [at : {"idle"}]
  \cup [at : {"save", "drop"}, id : Tasks, row : KpiTask, owner : BOOLEAN]
  \cup [at : {"remove"}, id : Sheets, owner : BOOLEAN]
  \cup [at : {"copy"}, rows : [Tasks -> KpiTask \cup {NoKpi}], owner : BOOLEAN]
  \cup [at : {"paste"}, id : Sheets, rows : [Tasks -> KpiTask \cup {NoKpi}],
        owner : BOOLEAN]
  \cup [at : {"set"}, id : Sheets, row : EmployeeKpi, owner : {TRUE}]
  \cup [at : {"decide"}, id : KpiAsks, status : {"APPROVED", "REJECTED"},
        owner : {TRUE}]

(* NULL is no row, and progress starts at 0.                               *)
ASSUME KpiAssumption ==
  /\ NoKpi \notin EmployeeKpi \cup KpiTask \cup KpiApprovalRequest
  /\ IsFiniteSet(KpiAsks)
  /\ KpiChoices \subseteq KpiStatus
  /\ KpiTargets \subseteq Int /\ KpiActuals \subseteq Int /\ 0 \in KpiActuals

LiveSheets == {k \in Sheets : sheets[k] # NoKpi /\ sheets[k].live}
LiveTasks == {t \in Tasks : kpiTasks[t] # NoKpi}
PendingAsks(k) == {r \in KpiAsks : kpiAsks[r] # NoKpi /\ kpiAsks[r].sheet = k
                                 /\ kpiAsks[r].status = "PENDING"}

\* kpiCompletionRate, in percent: the column holds -999.99 to 999.99.
KpiRateMax == 999
KpiCompletionRate(actual, target) ==
  LET rate == (100 * actual) \div target
  IN  IF target <= 0 THEN 0
      ELSE IF rate > KpiRateMax THEN KpiRateMax
      ELSE IF rate < -KpiRateMax THEN -KpiRateMax ELSE rate

\* resolveKpiActor: the owner of the store, or the employee of the sheet
\* while employed.
KpiActor(owner) == owner \/ kpiStaff

\* What the employee may do whatever the state of the sheet.
KpiAnyWriteAccess(k, owner, draftOnly) == k \in LiveSheets /\ KpiActor(owner)

\* assertKpiWriteAccess.
KpiWriteAccess(k, owner, draftOnly) ==
  /\ k \in LiveSheets
  /\ KpiActor(owner)
  /\ ~owner /\ draftOnly => sheets[k].status = "DRAFT"

\* Edits of a task, and of the tasks of a sheet, that passed their check.
EditsOf(t) == {v \in KpiDesks : kpiDesk[v].at \in {"save", "drop"} /\ kpiDesk[v].id = t}
EditsIn(k) == {v \in KpiDesks : /\ kpiDesk[v].at \in {"save", "drop"}
                                /\ kpiDesk[v].row.sheet = k}

KpiBegin(w, o) ==
  /\ kpiDesk[w] = IdleKpiDesk
  /\ kpiOps < MaxKpiOps
  /\ kpiOps' = kpiOps + 1
  /\ kpiDesk' = [kpiDesk EXCEPT ![w] = o]
  /\ kpiCrossed' = kpiCrossed \ {w}
  /\ UNCHANGED <<sheets, kpiTasks, kpiAsks, kpiStaff>>
KpiEnd(w) == /\ kpiDesk' = [kpiDesk EXCEPT ![w] = IdleKpiDesk]
             /\ UNCHANGED <<kpiStaff, kpiOps>>
KpiNow == /\ kpiOps < MaxKpiOps
          /\ kpiOps' = kpiOps + 1
          /\ UNCHANGED <<kpiDesk, kpiStaff, kpiCrossed>>

\* buildKpiTaskFields.
NewTask(k, target, actual) ==
  [sheet |-> k, target |-> target, actual |-> actual,
   rate |-> KpiCompletionRate(actual, target), hidden |-> FALSE]

\* createEmployeeKpi: the employee's sheet is a draft, the owner's what the
\* owner says.
CreateEmployeeKpi(k, owner, status) ==
  /\ sheets[k] = NoKpi
  /\ KpiActor(owner)
  /\ sheets' = [sheets EXCEPT ![k] =
                  [status |-> IF owner THEN status ELSE "DRAFT", live |-> TRUE,
                   own |-> ~owner]]
  /\ KpiNow
  /\ UNCHANGED <<kpiTasks, kpiAsks>>

\* duplicateEmployeeKpi reads a sheet with its tasks ...
DuplicateEmployeeKpi(w, k, owner) ==
  /\ KpiWriteAccess(k, owner, TRUE)
  /\ KpiBegin(w, [at |-> "copy", owner |-> owner,
                  rows |-> [t \in Tasks |-> IF t \in LiveTasks /\ kpiTasks[t].sheet = k
                                            THEN kpiTasks[t] ELSE NoKpi]])

\* ... saves a draft ...
SaveDuplicate(w, copy) ==
  LET o == kpiDesk[w] IN
  /\ o.at = "copy"
  /\ sheets[copy] = NoKpi
  /\ sheets' = [sheets EXCEPT ![copy] = [status |-> "DRAFT", live |-> TRUE,
                                         own |-> ~o.owner]]
  /\ kpiDesk' = [kpiDesk EXCEPT ![w] = [at |-> "paste", id |-> copy, owner |-> o.owner,
                                        rows |-> o.rows]]
  /\ UNCHANGED <<kpiTasks, kpiAsks, kpiStaff, kpiOps, kpiCrossed>>

\* ... and the tasks as they were read, undone.
Undone(row, copy) == [row EXCEPT !.sheet = copy, !.actual = 0, !.rate = 0]
SaveDuplicateTasks(w) ==
  LET o == kpiDesk[w]
      source == {t \in Tasks : o.rows[t] # NoKpi}
      unused == {t \in Tasks \ LiveTasks : EditsOf(t) = {}}
  IN
  /\ o.at = "paste"
  /\ \E of \in [source -> unused] :
       /\ \A s, t \in source : of[s] = of[t] => s = t
       /\ kpiTasks' = [t \in Tasks |->
            IF \E s \in source : of[s] = t
            THEN Undone(o.rows[CHOOSE s \in source : of[s] = t], o.id)
            ELSE kpiTasks[t]]
  /\ KpiEnd(w)
  /\ UNCHANGED <<sheets, kpiAsks, kpiCrossed>>

CreateKpiTask(w, k, t, target, actual, owner) ==
  /\ KpiWriteAccess(k, owner, TRUE)
  /\ kpiTasks[t] = NoKpi /\ EditsOf(t) = {}
  /\ KpiBegin(w, [at |-> "save", id |-> t, row |-> NewTask(k, target, actual),
                  owner |-> owner])

\* updateKpiTaskProgress: an employee's closed sheet takes no progress.
UpdateKpiTaskProgress(w, t, actual, owner) ==
  LET row == kpiTasks[t] IN
  /\ row # NoKpi
  /\ KpiWriteAccess(row.sheet, owner, FALSE)
  /\ ~owner => sheets[row.sheet].status \notin {"COMPLETED", "CANCELLED"}
  /\ KpiBegin(w, [at |-> "save", id |-> t, owner |-> owner,
                  row |-> [row EXCEPT !.actual = actual,
                             !.rate = IF row.target > 0
                                      THEN KpiCompletionRate(actual, row.target) ELSE @]])

HideKpiTask(w, t, owner) ==
  /\ kpiTasks[t] # NoKpi
  /\ KpiWriteAccess(kpiTasks[t].sheet, owner, TRUE)
  /\ KpiBegin(w, [at |-> "save", id |-> t, owner |-> owner,
                  row |-> [kpiTasks[t] EXCEPT !.hidden = TRUE]])

\* The save of a task, new or as it was read.
SaveKpiTask(w) ==
  /\ kpiDesk[w].at = "save"
  /\ kpiTasks' = [kpiTasks EXCEPT ![kpiDesk[w].id] = kpiDesk[w].row]
  /\ kpiCrossed' = kpiCrossed \cup EditsOf(kpiDesk[w].id)
  /\ KpiEnd(w)
  /\ UNCHANGED <<sheets, kpiAsks>>

DeleteKpiTask(w, t, owner) ==
  /\ kpiTasks[t] # NoKpi
  /\ KpiWriteAccess(kpiTasks[t].sheet, owner, TRUE)
  /\ KpiBegin(w, [at |-> "drop", id |-> t, row |-> kpiTasks[t], owner |-> owner])

DropKpiTask(w) ==
  /\ kpiDesk[w].at = "drop"
  /\ kpiTasks' = [kpiTasks EXCEPT ![kpiDesk[w].id] = NoKpi]
  /\ kpiCrossed' = kpiCrossed \cup EditsOf(kpiDesk[w].id)
  /\ KpiEnd(w)
  /\ UNCHANGED <<sheets, kpiAsks>>

\* deleteEmployeeKpi: a soft delete, which leaves the tasks.
DeleteEmployeeKpi(w, k, owner) ==
  /\ KpiWriteAccess(k, owner, TRUE)
  /\ KpiBegin(w, [at |-> "remove", id |-> k, owner |-> owner])

RemoveEmployeeKpi(w) ==
  /\ kpiDesk[w].at = "remove"
  /\ sheets' = [sheets EXCEPT ![kpiDesk[w].id].live = FALSE]
  /\ KpiEnd(w)
  /\ UNCHANGED <<kpiTasks, kpiAsks, kpiCrossed>>

\* updateEmployeeKpiStatus: the owner sets any status, by hand.
UpdateEmployeeKpiStatus(w, k, status) ==
  /\ k \in LiveSheets
  /\ KpiBegin(w, [at |-> "set", id |-> k, owner |-> TRUE,
                  row |-> [sheets[k] EXCEPT !.status = status, !.own = FALSE]])

SaveEmployeeKpi(w) ==
  /\ kpiDesk[w].at = "set"
  /\ sheets' = [sheets EXCEPT ![kpiDesk[w].id] = kpiDesk[w].row]
  /\ kpiCrossed' = kpiCrossed \cup EditsIn(kpiDesk[w].id)
  /\ KpiEnd(w)
  /\ UNCHANGED <<kpiTasks, kpiAsks>>

\* createKpiApprovalRequest: under the lock of the sheet, whatever its
\* status; a pending request is answered instead of a second one.
CreateKpiApprovalRequest(k, r) ==
  /\ k \in LiveSheets
  /\ kpiAsks[r] = NoKpi
  /\ kpiAsks' = IF PendingAsks(k) # {} THEN kpiAsks
                ELSE [kpiAsks EXCEPT ![r] = [status |-> "PENDING", sheet |-> k]]
  /\ KpiNow
  /\ UNCHANGED <<sheets, kpiTasks>>

\* handleKpiApprovalRequest: the owner reads the request ...
HandleKpiApprovalRequest(w, r, status) ==
  /\ kpiAsks[r] # NoKpi /\ kpiAsks[r].status = "PENDING"
  /\ kpiAsks[r].sheet \in LiveSheets
  /\ KpiBegin(w, [at |-> "decide", id |-> r, status |-> status, owner |-> TRUE])

\* ... and decides it by a conditional update; the sheet follows.
DecideKpiApproval(w) ==
  LET o == kpiDesk[w]
      k == kpiAsks[o.id].sheet
  IN
  /\ o.at = "decide"
  /\ IF kpiAsks[o.id].status = "PENDING"
     THEN /\ kpiAsks' = [kpiAsks EXCEPT ![o.id].status = o.status]
          /\ sheets' = [sheets EXCEPT ![k].status =
                          IF o.status = "APPROVED" THEN "ACTIVE" ELSE "DRAFT"]
          /\ kpiCrossed' = kpiCrossed \cup EditsIn(k)
     ELSE UNCHANGED <<kpiAsks, sheets, kpiCrossed>>
  /\ KpiEnd(w)
  /\ UNCHANGED kpiTasks

\* The employee leaves the store.
LeaveKpi == /\ kpiStaff /\ kpiStaff' = FALSE
            /\ UNCHANGED <<sheets, kpiTasks, kpiAsks, kpiDesk, kpiOps, kpiCrossed>>

KpiInit ==
  /\ sheets = [k \in Sheets |-> NoKpi]
  /\ kpiTasks = [t \in Tasks |-> NoKpi]
  /\ kpiAsks = [r \in KpiAsks |-> NoKpi]
  /\ kpiDesk = [w \in KpiDesks |-> IdleKpiDesk]
  /\ kpiStaff = TRUE
  /\ kpiOps = 0
  /\ kpiCrossed = {}

KpiNext ==
  \/ \E k \in Sheets, owner \in BOOLEAN :
       \E status \in KpiChoices : CreateEmployeeKpi(k, owner, status)
  \/ \E w \in KpiDesks, owner \in BOOLEAN, t \in Tasks :
       \/ \E k \in Sheets, target \in KpiTargets, actual \in KpiActuals :
            CreateKpiTask(w, k, t, target, actual, owner)
       \/ \E actual \in KpiActuals : UpdateKpiTaskProgress(w, t, actual, owner)
       \/ HideKpiTask(w, t, owner) \/ DeleteKpiTask(w, t, owner)
  \/ \E w \in KpiDesks, owner \in BOOLEAN, k \in Sheets :
       DeleteEmployeeKpi(w, k, owner) \/ DuplicateEmployeeKpi(w, k, owner)
  \/ \E w \in KpiDesks, k \in Sheets, status \in KpiChoices :
       UpdateEmployeeKpiStatus(w, k, status)
  \/ \E k \in Sheets, r \in KpiAsks : CreateKpiApprovalRequest(k, r)
  \/ \E w \in KpiDesks, r \in KpiAsks, status \in {"APPROVED", "REJECTED"} :
       HandleKpiApprovalRequest(w, r, status)
  \/ \E w \in KpiDesks :
       \/ \E copy \in Sheets : SaveDuplicate(w, copy)
       \/ SaveDuplicateTasks(w)
       \/ SaveKpiTask(w) \/ DropKpiTask(w) \/ RemoveEmployeeKpi(w)
       \/ SaveEmployeeKpi(w) \/ DecideKpiApproval(w)
  \/ LeaveKpi

KpiSpec == KpiInit /\ [][KpiNext]_kpiVars

KpiTypeOK ==
  /\ sheets \in [Sheets -> EmployeeKpi \cup {NoKpi}]
  /\ kpiTasks \in [Tasks -> KpiTask \cup {NoKpi}]
  /\ kpiAsks \in [KpiAsks -> KpiApprovalRequest \cup {NoKpi}]
  /\ kpiDesk \in [KpiDesks -> KpiDeskState]
  /\ kpiStaff \in BOOLEAN
  /\ kpiCrossed \subseteq KpiDesks

(***************************************************************************)
(* The rate of a task is the rate of its progress, and fits its column,    *)
(* also after a save of a row that was read before another save.           *)
(***************************************************************************)
RateMatches(row) == /\ row.rate = KpiCompletionRate(row.actual, row.target)
                    /\ row.rate \in -KpiRateMax .. KpiRateMax
RatesMatchProgress == \A t \in LiveTasks : RateMatches(kpiTasks[t])

(***************************************************************************)
(* A sheet the employee made leaves its draft only with the owner's word,  *)
(* an approval or a status set by hand, and has one open request at most.  *)
(***************************************************************************)
AppliesWhenApproved ==
  \A k \in Sheets :
    /\ Cardinality(PendingAsks(k)) <= 1
    /\ sheets[k] # NoKpi /\ sheets[k].own /\ sheets[k].status # "DRAFT" =>
         \E r \in KpiAsks : kpiAsks[r] = [status |-> "APPROVED", sheet |-> k]

(***************************************************************************)
(* What was agreed stands: the employee changes no task of a sheet that is *)
(* no draft, save its progress, unless the sheet or the task was written   *)
(* since the edit passed its check.                                        *)
(***************************************************************************)
TermsOf(row) == [row EXCEPT !.actual = 0, !.rate = 0]
AgreedTermsStand ==
  [][\A t \in LiveTasks, w \in KpiDesks \ kpiCrossed :
       /\ kpiDesk[w].at \in {"save", "drop"} /\ kpiDesk'[w] = IdleKpiDesk
       /\ kpiDesk[w].id = t /\ ~kpiDesk[w].owner
       /\ sheets[kpiTasks[t].sheet].status # "DRAFT"
       => /\ kpiTasks'[t] # NoKpi
          /\ TermsOf(kpiTasks'[t]) = TermsOf(kpiTasks[t])]_kpiVars

(* What makes these inductive.  Rows refer to rows that are there, and an  *)
(* edit that was not overtaken is of the task as it is, of a draft unless  *)
(* it is the owner's or of progress only.                                  *)
DeskRelies(o) ==
  /\ o.at \in {"save", "drop"} =>
       RateMatches(o.row) /\ sheets[o.row.sheet] # NoKpi
  /\ o.at \in {"set", "remove", "paste"} => sheets[o.id] # NoKpi
  /\ o.at = "set" => ~o.row.own
  /\ o.at = "decide" => kpiAsks[o.id] # NoKpi
KpiRowsInHand ==
  /\ \A t \in LiveTasks : sheets[kpiTasks[t].sheet] # NoKpi
  /\ \A r \in KpiAsks : kpiAsks[r] # NoKpi => sheets[kpiAsks[r].sheet] # NoKpi
  /\ \A w \in KpiDesks : DeskRelies(kpiDesk[w])
EditKeeps(o) ==
  o.at \in {"save", "drop"} /\ kpiTasks[o.id] # NoKpi =>
    /\ kpiTasks[o.id].sheet = o.row.sheet
    /\ ~o.owner /\ sheets[o.row.sheet].status # "DRAFT" =>
         o.at = "save" /\ TermsOf(o.row) = TermsOf(kpiTasks[o.id])
EditsKeepTerms == \A w \in KpiDesks \ kpiCrossed : EditKeeps(kpiDesk[w])

KpiInd ==
  /\ KpiTypeOK /\ RatesMatchProgress /\ AppliesWhenApproved
  /\ KpiRowsInHand /\ EditsKeepTerms

(***************************************************************************)
(* What the KPI sheets promise: rates that match, approvals that count,    *)
(* and agreed terms that stand.                                            *)
(***************************************************************************)
KpiPromise ==
  /\ [](KpiInd /\ RatesMatchProgress /\ AppliesWhenApproved)
  /\ AgreedTermsStand
=============================================================================
