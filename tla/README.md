# TimeSO backend: a TLA+ verification project

The repository is the backend of TimeSO, a workforce application for small
stores: NestJS services over TypeORM and PostgreSQL, BullMQ for delayed jobs,
Socket.IO for chat, Expo for push notifications. Several server processes may
share one database. Paths below are relative to `src/src/modules/` unless they
say otherwise.

This directory holds TLA+ modules of the parts whose correctness depends on the
order in which processes, requests, retries and failures meet, TLC
configurations that check them on small instances, and theorems that TLAPS
proves for every instance. `PROJECT.json` lists components, runs, mutants, the
lines each definition models, hazards, findings and theorems.

    tlc -workers 2 -config Roster.cfg MCShiftRoster     # a run
    tlapm ShiftRosterProofs.tla                         # a proof module

About 30 % of the implementation's lines are covered by the map; what the rest is
and why it is left out is in section 7.

## 1. Inventory

| component | state it keeps | operations | what is hard | what makes it correct |
|---|---|---|---|---|
| Chat push delivery (`chat-groups/chat-push-*`) | ledger `chat_push_deliveries`, acknowledgements in memory | claim, lock the token, renew, send, record, retry; poll receipts; clean up | two processes, leases, lost answers, crashes between sending and recording | no push after its ticket, repeats only after a lost answer, everything settles |
| Device registration (`devices/`) | `user_devices`: account, token, version | register, unregister, disable | a phone that changes hands during a dispatch | no push to a token that has passed to another account |
| Chat outbox and push intents (`chat-outbox-*`, `chat-push-intent-*`) | `chat_outbox_events` with two independent claims | claim, load, emit, mark; materialize | unfenced marks, commits in doubt, retries | told at least once, pushes made once, every row settles |
| Chat messages and receipts (`chat-message-*`) | messages, cursors of the members | send, list, read, receive, clear | racing retries, late and repeated reports, coalesced rows | one message per key, monotone cursors, no lost tick |
| Chat groups (`chat-groups.service.ts`) | groups, memberships, pictures | create, add, leave, remove, disband, settings | members added at the limit, settings saved as read | nobody is told what he may not read, nobody who may is left out |
| Shift roster (`scheduling.part.ts`) | cycles, slots, assignments, swaps | schedule, register, withdraw, swap, edit, delete, stop, activate | parallel registrations, reads before the lock, several routes to one effect | no double booking, no seat beyond the limit, swaps take effect once |
| Work cycles (`scheduling.part.ts`, nightly jobs) | cycles and the slots copied from them | create, fill, copy, expire, stop, retime | nightly jobs of several processes, crashes, stops in between | the nightly jobs add nothing twice and nothing after a stop, no gaps |
| Custom shifts (`custom-shift-request.service.ts`) | proposed shifts | ask, cancel, approve, reject | two locks, two devices | approved means booked, once |
| Attendance and shift end (`attendance.part.ts`, `shift-end-workflow.service.ts`) | check-in and check-out, overtime state, BullMQ jobs | check in, check out, remind, close, chain, approve, sweep | jobs against requests, reads before the transaction, jobs lost | begun and closed once, approved overtime paid, every shift closed |
| Requests (`requests.part.ts`) | leave, late/early, changes, supplements | file, decide, cancel, credit | two deciders, cancel against decide, limits counted in parallel | filed once, within the limit, decisions stand, credits only add |
| Paid time (`worked-time-rules.ts`) | rules with periods | lay down, delete | a rule made in the minute a shift begins | one rule per moment, none for what has begun |
| Payroll (`payroll.part.ts`) | payslips, records, advances, adjustments | compute, rebuild, review, pay, edit, delete | writers that read outside the month's lock | paid once, current when settled, final once paid |
| Payroll rules and formulas (`payroll-*.utils.ts`, `wage-rates.utils.ts`) | versions of rules, waivers | save, waive, price | repricing in the middle of a month, midnight, rounding | one fine per occurrence, the past keeps its price, lines add up |
| Follow-ups of a payslip (`payroll.part.ts`) | snapshot, earnings, summary | announce, reprice, summarise | tasks that overlap or fail | each fine told once, figures that settle |
| Career ladder, structure, progress (`career-ladder.service.ts`, `career/`) | stages and edges; departments, positions, skills; evaluations | edit, advance, evaluate, promote, sweep | edits checked against an older state, repeated requests | no dead ends, dense ranks, everybody in a place that exists, applied once |
| Hiring (`job-application.service.ts`, `stores.service.ts`) | applications, profiles, contracts, selfies | apply, accept, hire, remove, restore | several statements per acceptance, crashes between them | one store per account, hired stays accepted |
| Authentication, accounts (`auth/`, `accounts/`) | codes, refresh tokens, identifiers | send, verify, reset, refresh, register | replay, races, old spellings | changes by proof, exchanged once, unique identifiers |
| Zalo token (`zalo/`) | one-time refresh token | exchange, keep alive, authorise | several processes exchange it | the stored token works or is marked lost |
| Reminders, alerts, notices (`shift-reminder.*`, `owner-notification.*`, `career-reminder`) | delayed jobs, claimed keys, report rows | plan, replace, send, append | jobs that run while they are replaced | told once, of the plan in force |
| Inventory, KPI (`stores.service.ts`) | stock, papers, hand-outs; sheets, tasks | move, undo, hand out; edit, approve | read, compute, save | stock agrees with its papers; agreed targets stand |
| Cron lock (`distributed-lock.service.ts`) | an advisory lock, a tracking row | run a job under the lock | session locks over a connection pool | one instance runs a job at a time |
| Everything else | notifications, reports, documents, settings | create, read, update, delete | little | - |

Components interact through rows. The roster's assignments are what attendance,
overtime, reminders and payroll work on; nearly all writers of the roster take
one PostgreSQL advisory lock per store, all writers of payslips one per store and
month, all edits of the career structure one row lock. A chat message is
committed together with its outbox row; the outbox dispatcher emits the row to
sockets and the intent dispatcher turns it into ledger rows, which the push
dispatcher sends. A device registration and a push dispatch meet at the advisory
lock of a token.

## 2. Modules

| module | models | composes |
|---|---|---|
| `CronLock` | `withLock`, the pool's sessions and their locks | |
| `ChatPush` | push ledger, dispatcher, receipt poller, device registration | |
| `EventDelivery` | abstract: what the outbox promises for an event | |
| `ChatOutbox` | outbox dispatcher and intent dispatcher | implements `EventDelivery` |
| `ChatMessages` | sending, cursors, clearing, membership | extends `ChatOutbox` |
| `ChatGroups` | groups, members, pictures, audiences | |
| `ShiftRoster` | the roster of one store | |
| `WorkCycles` | cycles and the nightly jobs | |
| `CustomShifts` | shifts employees propose | |
| `AttendanceRules` | grace, windows, paid minutes, policy (operators) | |
| `ShiftAttendance` | the working day and its end | extends `AttendanceRules` |
| `ChangeRequests` | requests about shifts and the policy on them | |
| `WorkSupplements` | claims of unrecorded time | extends `AttendanceRules` |
| `WorkedTimeRules` | which minutes are paid | |
| `Payroll`, `PayrollRules`, `PayrollFollowUps` | payslips; versions of a fine; what follows a payslip | |
| `PayFormulas`, `ScheduleRules` | arithmetic of pay, of the attendance policy and of the calendar, against reference definitions | `PayFormulas`: `INSTANCE AttendanceRules` |
| `CareerLadder`, `CareerStructure`, `CareerProgress` | stages; departments, positions, skills; learning | |
| `Employment` | applications, profiles, contracts | |
| `Sessions`, `Accounts`, `ZaloToken` | signing in; identifiers; the token that sends codes | |
| `ShiftReminders`, `OwnerAlerts`, `StoreNotices` | delayed jobs and notices | |
| `Inventory`, `Kpi` | stock and hand-outs; KPI sheets | |
| `ChatPushProofs`, `ShiftRosterProofs`, `ShiftAttendanceProofs` | theorems about the module of that name | |
| `ChatOutboxProofs` | theorems about `ChatOutbox` and `ChatMessages` | |
| `OfficeProofs` | theorems about `CronLock`, `Payroll`, `PayrollFollowUps`, `PayrollRules` | |
| `PeopleProofs` | theorems about `Sessions`, `Accounts`, `ZaloToken`, `ChatGroups`, `CareerStructure`, `Kpi`, `Employment` | |
| `PlanningProofs` | theorems about `ShiftReminders`, `OwnerAlerts`, `WorkedTimeRules`, `CustomShifts`, `WorkSupplements`, `ChangeRequests` | |
| `MCChatMessages`, `MCShiftRoster`, `MCShiftAttendance` | one component for TLC: symmetry, windows, scenes | |
| `MCDelivery`, `MCLiveness`, `MCOffice`, `MCPeople`, `MCPlanning` | several components side by side | `INSTANCE` or `EXTENDS` of each |

One SQL statement, or one transaction under a lock that all its rivals take, is
one step. An operation that reads before it locks, or between two statements,
carries what it read in a *desk* (a worker, clerk, cashier, keeper: the record of
one request in flight), and its write uses that record. A lease, a back-off and
an age limit may pass at any time, since they are measured by the database's
clock and a process may be arbitrarily slow in between. Text, formatting,
logging, activity log entries and best-effort notifications are left out.

The models named in the last row of the table share no variables. There a variable
`focus`, chosen in the initial state, says which component takes steps in a
behaviour; the others stay in their initial state. This explores exactly the union
of the components' own state spaces, so each property is checked on its component's
full instance; it is not a claim about their interaction. Where components do
interact they are composed (`ChatMessages` with `ChatOutbox`) or one module holds
both sides (`ShiftAttendance`: attendance, workflow, requests; `ChatPush`:
dispatcher and registration).

Ghost variables record what the code does not: what the provider took (`accepted`),
which assignments were placed without a time check (`unchecked`), which requests
crossed (`raced`, `crossed`, `kpiCrossed`, `late`, `overtaken`, `disturbed`,
`stale`), what was left half done (`torn`) or lost (`lost`, `exposed`), and what was
done by hand (`handmade`). A property that exempts such a case says so in its
comment, and section 4 says what the code does there.

### CronLock
`depth[s]` counts how often session `s` holds the key, `phase[f]` is where a fire
of the job is in `withLock`. `dataSource.query` runs on any session of the pool;
that is why `TryLock` and `Unlock` choose a session. The pool may close a session
at any time (`SessionCloses`): one that holds the lock is idle while the job works
on others. `exposed` names the instances whose lock went that way under a fire, until
they are out of the job. The jobs themselves are opaque.

### ChatPush
`led` is the ledger row, `pc[p][d][c]` the place of process `p`'s dispatch of
claim `c` of row `d`, `known` the acknowledgements in memory, `exp` whether the
lease is over, `rows` the device rows. Two things differ from the code's
texture: the unlock of the token is merged with the statement before it, and the
two statements of a receipt's reschedule are one.

### ChatOutbox and EventDelivery
`ev[i]` is the row, with `ripe` for a lease that is over or a back-off that has
passed. `step`, `claimed`, `copy` are the outbox dispatcher's loop, `istep`,
`icopy` the intent dispatcher's. The refinement maps a row to open, done, lost or
forgotten; `told` is the set of rows emitted or let pass; a failure that exhausts
the attempts is `GiveUp`.

### ChatMessages and ChatGroups
A message's sequence is its position, because the insert trigger counts up in the
group's row under its lock. `Requests` are single HTTP requests: `SendStart` is
the look-up of the key, `SendCommit` the transaction, `SendClash` and
`SendResolve` the unique violation and the second look-up, `SendInDoubt` a commit
whose answer is lost. A clearing reads the last sequence (`ClearRead`) and writes
its mark in a second statement (`ClearWrite`); `wiped` is history, the highest mark
a membership ever cleared. Both modules' steps write the outbox rows `ev`, so that
`Dispatch` is `ChatOutbox`'s own next-state relation. `ChatGroups` has the group's
life around it.

### ShiftRoster
`cyc`, `slot`, `row`, `swap` are the four tables. A row's id is its position in
order of insertion; a deleted row keeps its id. An operation that takes the
store lock at once is one action; the reads that precede the lock are actions of
their own (`FixedRead`, `DecideRead`, `WithdrawRead`), and a fixed registration
holds the lock from slot to slot (`fix[e].locked`), since check-ins, withdrawals
and new swaps take no lock and come in between. Hours are intervals: the code
looks at the day before and the day after, and no shift is longer than a day.
Refusals that depend on the clock, settings, work terms or leave are steps not
taken. `unchecked` is a ghost: the assignments that were placed or revived by a
route that compares no times under the lock. There are three: `processRequest` of
a swap, a swap approved on hours that were edited since they were read, and
`activateWorkCycle`.

### WorkCycles, CustomShifts, ScheduleRules
A cycle is dated (copied from its first day), weekly (a template per weekday) or a
series (kept filled to the horizon). The nightly copy, stops and activations hold
the store's lock; the owner's `CreateShiftSlots`, `UpdateWorkCycle` and the slots
listed with a new cycle are written without it and without a look-up, and the
fillings of open-ended cycles look and save in two steps. `nightly` says which jobs
ran tonight, `crossed` that slots of a cycle were made between the look and the save
of another filling of it; `by` in a slot is history, who made it. `ScheduleRules`
and `PayFormulas` have one variable, an input; each initial state is one input and
the invariant compares the translated function with what it is meant to compute.

### ShiftAttendance
`asg` is the assignment, `wf` its workflow row, `ot` and `lv` overtime and leave
requests, `jobs` the delayed jobs, `op[w]` what worker `w` carries. HTTP workers
serve the employee and the owner, `JobWorker` the queue, `CronWorker` the sweep.
A repricing reads the shift, reads the approved overtime and saves the minutes in
three steps, and its save looks at the status alone; `late` names the overtimes that
were approved while a check-out or another repricing of their shift was about to save
what it had read.
A crash empties every worker; a job that was running is delivered again.

### ChangeRequests, WorkSupplements, WorkedTimeRules
The critical section of a request (lock the employee's row, look for the same
request, count the month, insert) is one step; what is checked before it is
another. A withdrawal reads, and later saves what it read, without the lock.
`WorkedTimeRules` counts half minutes, so that a request falls within a
minute.

### Payroll and its neighbours
In `Payroll` every writer of a payslip computes it in its transaction under the
month's lock; the employee's row is read before it (`ReadEmployee`), the rates are
read again under it. Records, advances and payments read first and are two steps.
`PayrollRules` keeps the rows of one preset; `FineOn` is what a day comes to.
`PayrollFollowUps` has the tasks that run after the answer, among them the job a
check-out queues: it is tried `MaxTries` times (3 in the code, 2 in the run), and
each addressee's message may fail by itself. `DateOf` gives a shift its work date;
the run has one date, the theorem any. A price is changed in place here
(`PayrollRules` has the versions); the recomputation that the marking of absences
queues belongs to `ShiftAttendance`.

### Career modules
In `CareerLadder` every edit reads and checks in one step and writes in another. The
stage editor holds an advisory lock from the one to the other, the older endpoints
do not take it, so both kinds may be written over a ladder that changed (`stale`).
`updateRung` saves the row as it read it. Somebody who is on no live stage may take
any edge into a stage, since TypeORM drops a condition on `null`. `CareerStructure`
keeps ranks as numbers and checks that they stay dense through every edit, deletion
and move. `CareerProgress` has the request ids that the app repeats; evaluations and
career events look for them apart, by store and by profile.

### Employment, Sessions, Accounts, ZaloToken
A clerk of `Employment` carries an acceptance through claim, hire and finish, and
may die in between. `Sessions` has one account: codes, limits, refresh tokens.
`Accounts` takes identifier locks one by one in the code's order. In `ZaloToken`
`good` is the set of refresh tokens Zalo accepts (external) and `latest`
the row of `zalo_tokens` the code reads, the one updated last. Any number of
authorisations may be under way, by link (`OauthCallback`) or by hand (`InitToken`):
each gets its token, clears the table and saves in three steps without a mutex.
`crossed` says that one of them met an exchange or another one.

### Reminders, alerts, notices, inventory, KPI
`ShiftReminders` has the two job ids of a booking and the lease under which they are
brought into line. `OwnerAlerts` has the log of claimed keys; a cancellation removes
both jobs whatever is planned, and the `DELETE` that releases a key may fail.
`StoreNotices` has the daily report, the announcements' throttle and the review
reminder. `Inventory` and `Kpi` carry what a request read to what it saves. In
`Inventory` every statement outside a transaction is a step of its own, and the
request may fail or its process die after each (`KeeperDies`): stock and paper are
two statements. A transaction or an order may have two details of one row, which
`deleteStockTransaction` undoes from separate copies. `raced` names the rows of
which two copies were out at once, `torn` those that a request left between stock
and paper; an adjustment starts the books of a row again and clears both. Quantities
are whole and above zero; `createStockTransaction` checks neither. In `Kpi` the
owner may also set a sheet's status by hand, `kpiCrossed` holds the desks whose
sheet or task was written since their edit was checked, and a sheet is duplicated in
three statements, the source read first.

## 3. Runs

| run | asks | result |
|---|---|---|
| `live` | does every delivery, ticket, event and intent settle, and is every shift closed or written off? | holds |
| `delivery` | two processes over one outbox row and one ledger row: `EventDelivery` implemented, pushes made once, no send after a ticket, no ticket lost | holds |
| `push_binding` | two accounts, devices and tokens during a dispatch: repeats, pushes to the wrong account, registrations undone by a late answer | holds |
| `chat` | sends under one key, cursors, clearing, leaving, and whether every change of a tick is covered by a row that is or will be told | holds |
| `roster` | double booking, seats, swaps, withdrawals | holds |
| `workday` | a shift begun and closed once, not absent and worked, overtime or early leave, approved overtime paid, no early automatic check-out | holds |
| `office` | lock, stock, payslips, fines, formulas, follow-ups, ladder, structure, notices | holds |
| `people` | hiring, progress, sessions, accounts, Zalo token, KPI, groups | holds |
| `planning` | cycles, calendar, custom shifts, reminders, alerts, paid time, changes, supplements | holds |
| `roster_seat` | one seat per employee and slot? | violated: the check sees an arbitrary one of several rows |
| `roster_swap` | is a shift only taken from the employee who asked? | violated: a second pending swap takes it from its new holder |
| `lock_leak` | is the key free when nobody runs the job? | violated: the unlock may run on another session |

A property named `...Holds`, `...Promise` or `...Inv` is the conjunction of a
component's type invariant and its named properties; their comments in the
component's module state them one by one. Where a theorem states the property,
the conjunction also holds what makes it inductive (after "with"), so that the
run checks the very invariant that is proved:

| property | parts |
|---|---|
| `PushesHold` | `NoSendAfterTicket`, `EveryPushAccountedFor`, `TicketStable` |
| `ChatPromise` | `SendIdempotent`, `ReadImpliesDelivered`, `TicksCovered`, `CursorsAdvance`, with `OutboxInv`, `OfItsMessages`, `RowsInHand`, `RangesTold`, `OwedHaveRows` |
| `RosterPromise` | `NoSeatBeyondLimit`, `HandedOverBySwap`, `WorkedOrCancelledStays`, with `RowsInOrder`, `WorkedIsConfirmed` |
| `WorkdayInv` | `ReadOnce`, `AbsentWasNotWorked`, `OvertimeOrEarlyLeave`, `ApprovedOvertimeIsPaid`, with the conjuncts section 5 names |
| `LockPromise` | `NoRunInTwoInstances` |
| `InventoryPromise` | `StockMatchesPapers`, `OverdrawnOnlyUnchecked`, with `PapersInHand`, `ReadsAreFresh`, `UnlistedIsEmpty`, `StockIsPapers` |
| `PayrollPromise` | `PaidOnce`, `SettledSlipsAreCurrent`, `FinalFiguresStand`, `AdvancesWithinIncome`, with `RowsInHand`, `PaidAsRecorded`, `SlipsAreCurrent` |
| `PayrollRulesPromise` | `FinedOnce`, `PastFinesStand`, with `VersionsInTime`, `OneActiveRule`, `PeriodsApart` |
| `PayFormulasPromise` | `NightCountsNightTicks`, `ExtrasWithinCredit`, `PricedWhereWorked`, `WageIsTickByTick`, `LaterNeverCheaper`, `LinesAddUp`, `OneOwnerPerDay`, `PolicyIsConsistent`, `CreditWithinReach`, `RequestedInstantIsTheShifts` |
| `FollowUpsPromise` | `NoticesAddUp`, `AnnouncedWasHandled`, `FiguresSettle`, `PriceAloneIsSilent`, with `EmptySnapshotIsFree`, `NoticesInHand`, `TasksRepair` |
| `LadderHolds` | `LadderHasNoCycle`, `StagesReachable`, `AutoAdvanceIsDue` |
| `CareerStructurePromise` | `TreeIsSound`, `RanksAreDense`, `SkillsHavePlaces`, `PlacesExist`, `OfferedStepIsAccepted`, with `PositionsHavePlaces` |
| `NoticesHold` | `AppendsKept`, `ThrottleInOrder`, `RemindedOnce`, `AnnouncedOncePerWindow` |
| `EmploymentPromise` | `EmployedOnce`, `StintStartsClean`, `HiredStaysAccepted`, `SelfiesMatchRows`, `CandidatesCanBeHired`, with `ProfilesInHand`, `ApplicationsInHand`, `ClerksInHand` |
| `ProgressHolds` | `AppliedOnce`, `LearntInOrder`, `SweepSettles`, `EarnedInThisStint` |
| `SessionsPromise` | `PasswordChangesAreProven`, `ExchangedOnce`, `ResetEndsSessions`, `SessionCap`, `WithinLimits`, with `ResetsRestOnCodes`, `OneHeir`, `OverflowIsDoomed` |
| `AccountsPromise` | `IdentifiersAreUnique`, `LocksNeverTangle`, with `DesksInOrder` |
| `ZaloTokenPromise` | `StoredTokenWorks`, `NeverSpendsTwice`, `WaitersAreServed`, `LinkOpensOnce`, with `UnsavedAreFresh`, `NewestIsKnown` |
| `KpiPromise` | `RatesMatchProgress`, `AppliesWhenApproved`, `AgreedTermsStand`, with `KpiRowsInHand`, `EditsKeepTerms` |
| `ChatGroupsPromise` | `MembershipHolds`, `ToldIsAllowed`, `PicturesExist`, with `RequestsRely`, `PicturesAreKnown` |
| `CyclesHold` | `OneOpenCycle`, `NightlyAddsOnce`, `NightlyRespectsStop`, `NoGaps`, `RetimeKeepsApart` |
| `CalendarIsRight` | the comparisons of `ScheduleRules` |
| `CustomShiftsPromise` | `ApprovedMeansBooked`, `ShiftsAreApart`, `AnswersStand`; with `LocksAreHeld` |
| `ShiftRemindersPromise` | `RemindedOnce`, `ReminderIsQueued`, with `SectionsAreAlone`, `OneJobForAPlan`, `RemindersInTime`, `SendsAccounted`, `SomebodyMinds` |
| `OwnerAlertsPromise` | told once, claimed is told: stated in one piece in `OwnerAlerts`, with `StorersHoldTheKey`, `UntoldUntilStored` |
| `WorkedTimePromise` | `OneRulePerMoment`, `BegunShiftsKeepTheirMode`; with `RulesInTurn`, `RequestsAreForTheFuture` |
| `ChangeRequestsPromise` | `NoTwoAlike`, `WithinLimit`, `DecisionsStand`, with `RequestsInHand`, `ReadsStillHold` |
| `WorkSupplementsPromise` | `ApprovedIsRecorded`, `NothingTakenAway`; with `CreditsStand` |

Every property of a passing run has a mutant, a plausible bug in the code of one
definition, that TLC refutes under the same configuration.

### Bounds
Two processes, desks or workers are the smallest number that can cross each other or
take a row from each other; a third adds no new pair. One ledger or outbox row
suffices where rows do not interact (claims are per row), and `chat` has three
because a row is extended next to others. `chat` has three scenes: sends under one
key with everything else members do, two clearings at once around one message, and
the dispatcher under two messages of one member and their deliveries; two sequences
suffice for a range that is extended and for a late report. `MaxAttempts` is 2
instead of 20: first, retried, final. `push_binding` allows two faults, so that a
push can be lost between provider and ledger and its recording then fail as well.
The fault bounds (`MaxFaults`, `MaxPushFaults`, `MaxCrashes`, `MaxOutages`,
`MaxMishaps`, `MaxAlertFaults`) count crashes, failed statements and lost answers
together. `MaxClaims` in `live` is above what the attempts and faults allow, so that
the bound is never what ends a behaviour. `MaxOps`-like constants (`MaxActs`,
`MaxWrites`, `MaxRequests`, `MaxEdits`, `MaxChanges`, `MaxKpiOps`, ...) bound the
requests of a behaviour; they are large enough for two requests that cross and what
goes before and after them.

The roster has two employees, two slots and two cycles, hours that coincide or
follow each other, limits 0 (unlimited) and 1, two deciders of one swap and two
edits or early reads (`MaxOps`) in any place; a double booking needs two rows, two
slots and one change. The working day has two adjacent shifts, so that chaining
happens, and a clock that passes the end of both with their grace. It has two
scenes: `day` is the whole day with one overtime request, one other request and two
operations at a time; `overtime` begins in the afternoon of an employee whose
overtime was approved, with a second request and three operations in flight, which a
slow repricing beside another decision and a check-out needs. The Zalo token has one
sender in one of two processes and two administrators, learning two people, since a
request id of an evaluation belongs to the store and one of an event to a person.
The arithmetic modules enumerate all inputs of a short day (six ticks with a night
over midnight), a short week and two lengths of month. The 100- and 50-row claim
limits and the 500-sequence scan are above every bound. Symmetry is used in runs
without liveness only: `delivery`, `push_binding`, `chat`, `roster`, `office` (desks
and shifts of the follow-ups) and `people` (desks, stores and sheets; a CHOOSE among
idle desks picks one of equals); an action property is a safety property, so it is
sound there. `CustomShiftsPromise` is about the two routes that book a proposed
shift: nothing in its module moves or removes a booking (`ShiftRoster` has that).
Deadlock is not checked: the bounds end every behaviour, and a store in which nobody
asks for anything has nothing to do.

### Fairness
`live` assumes weak fairness of: a process's own next step, because the
dispatchers are driven by interval timers and every statement has a timeout; the
passing of leases, back-offs and ages, which is the database's clock; and the end
and restart of a deactivated process. The first half of the last is the code's
(`CHAT_FATAL_SHUTDOWN_MS` in `app-listen.ts` ends the process), the second half is
an assumption on the supervisor outside the repository. For the working day: time
passes and an operation that was begun goes on (weak), the every-minute sweep
comes to every open shift and the queue delivers automatic check-outs again and
again (strong, since other operations on the shift disable them for a while). No
fairness is assumed of faults, of people or of the provider. The intents are
checked with one process: two processes that are both slower than the lease can
take an intent from each other past its 20 attempts without either failure being
recorded, so that it is never claimed again and never marked dead.

`ShiftsSettle` names one way out (`Stranded`): a request is saved, the process
dies before the workflow is parked, and the automatic check-out job has already
run.

## 4. What the runs do not show, but the code does

Behaviours met while modelling. They are reachable in the models; the properties
exempt them by a ghost or are worded around them.

Chat and the lock
* `CronLock`: two fires of one process both run the job when they get one session,
  since a session lock is re-entrant. Two instances may run it as well: the pool
  closes a session that is idle for ten seconds, and the lock goes with it while the
  job works on other sessions. `NoRunInTwoInstances` says that this is the only way.
  A lock whose tracking row could not be written stays until its session closes,
  and nothing demands that it is released; `lock_leak` shows one way in which a
  lock stays.
* `ChatPush` with `Rejections = TRUE` and two deliveries: a dispatch that rejects
  makes `Promise.all` reject and drops the `dispatching` flag while its sibling is
  at the provider; after the sibling's lease a second claim in the same process
  sends again and overwrites the first acknowledgement, although
  `chat-push-dispatcher.service.ts:40` says "Never evict a known provider
  acknowledgement". `delivery` therefore assumes `Rejections = FALSE`, and
  `push_binding` covers the rejecting dispatch for the properties of the binding.
* `clearConversation` raises the read cursor and leaves the delivered one, which
  `entities/chat-group-member.entity.ts:53` says is "kept >= the read cursor";
  `ReadImpliesDelivered` counts a cleared message as delivered, as
  `mapChatMemberReceipt` does. Two overlapping clears may set `cleared_sequence`
  back, since the later `UPDATE` writes what it read (`chat-groups.service.ts:841`),
  so that hidden messages show again and what was read is then neither delivered nor
  below the mark; the property therefore compares with the highest mark ever cleared.
* With two processes, `markPublished` is fenced by the status alone; a slow
  process may mark as published a row that another one has failed, extended and
  claimed again. The ticks are checked with one process, which is what the
  singleton guard aims at.
* The settings of a chat group are saved as they were read: a picture or a
  disbanding that came in between is undone.

Roster and planning
* A swap approved after the shift was worked moves the attendance to the other
  employee; the code does not look at the assignment's state.
* `createShiftSlots` adds slots to any cycle and of any shift, ended and deleted ones
  included, without a look-up or a lock; `createWorkCycle` inserts a shift twice that
  the request lists twice; `updateAssignmentTime` splits off a second slot of a shift
  and day. `NightlyAddsOnce` therefore speaks of what the nightly jobs add. These
  writers, and two fillings of an open-ended cycle, may come between the look and the
  save of a job, which then adds to slots that are there.
* `updateWorkCycle` may change the start, the shift or the kind of a cycle; what it
  was filled with is not made to fit. A cycle whose end is moved after
  the nightly job listed it as expired is ended all the same.
* A night
  that was missed is not made up for; the nightly copy books the holders of the
  first day without comparing times; activating a cycle keeps `scheduledStopAt`.
* Approving a custom shift does not look at the work terms again.
* A reminder that falls due while it is replaced may be sent twice; a late
  cancellation removes the reminder of a booking approved again; leave that is
  withdrawn gets its reminder back only at the nightly reconcile. Approving leave for a
  shift removes the owner's alerts about it as well.
* Two crossing synchronisations of the owner's alerts may leave a stale job (it
  is checked again when it runs); a failure after the message was stored stores
  it twice, although `owner-notification.service.ts:92` speaks of at-most-once.
* `scheduling.part.ts:1855` says "A slot is announced at most once per throttle
  window"; the throttle lives in one process, so a second process or a restart
  announces again. `AnnouncedOncePerWindow` is stated for one process.

Working day and requests
* Overtime approved between the reads and the transaction of a check-out is not
  paid: the check-out did not see it, and the approval found nothing to reprice.
  A repricing saves the minutes it computed over those of a newer one
  (`requests.part.ts:2875` looks at the status alone): a slow one of a rejected overtime
  takes away the pay of another that was approved and repriced meanwhile.
* `requests.part.ts:1750` says "Anyone who can be rostered may ask to change a
  shift (probation included)"; the transaction that follows (1805) accepts active
  employees only, so a request on probation is refused.
* `request-policy.utils.ts:11` counts a month's requests "trong tháng của ngày bị
  ảnh hưởng" (in the month of the day concerned); shift changes are counted by
  `requestDate` (1073).
* An approved shift change changes its own status and nothing of the roster.
* `cancelShiftChangeRequest` and `cancelBonusWorkRequest` save over a decision
  made since they read; a credited supplement keeps its credit.
* Approving a supplement while the employee is at work closes the shift.

Pay, people and goods
* An advance may be approved on a paid payslip; a record saved after the payment
  is never counted; the amount paid is the one read before; deleting a paid
  payslip lets the month be paid again; `createSalaryAdjustment` leaves the
  figures to the next recomputation.
* Follow-up tasks that overlap leave a summary or stored earnings of an older
  state until the next one; after a failed rebuild a change of price is mixed
  into the next notice.
* Two `setRungNextRungs` that cross can make a cycle of stages; a `deleteRung` that
  crosses `saveStage` or `setRungNextRungs` leaves edges to a deleted stage;
  `updateRung` brings a stage back that was deleted since it read; `deleteRung`
  counts the people of a stage outside its transaction.
* Somebody on no live stage may go over any edge into a stage: the look-ups ask for
  `fromRungId: null`, which TypeORM leaves out, although
  `entities/store-ladder-edge.entity.ts` says that an edge without a source is the
  entry. `resetLadder` picks its entry the same way; it leaves people
  on probation. `restoreEmployee` takes no career lock, so it may save a place that
  is gone: the one case that `PlacesExist` exempts (`overtaken`).
* An application that expires leaves its pending profile; opening it while
  another request rejects leaves one too; after a failed hire an earlier profile
  of the applicant counts as the hire.
* A sign-in in flight at a password reset keeps its session; `forgotPassword`
  counts codes without a lock; failed guesses are counted per process.
* One `clientRequestId` may be applied twice, once as an evaluation and once as a
  career event, although `career-progress.service.ts:55` says that an id stands for
  one operation: the two are looked up in different tables.
* A lost answer of Zalo loses the grant; two authorisations that cross, or one that
  crosses an exchange, may store a token that Zalo has replaced, unmarked; a late
  `markTokenExpired` may mark a newer token.
* Stock changed by two requests that both read first loses one change; an order
  or an export transaction may take stock below zero. Deleting a transaction with
  several details of one row keeps the undo of the last one only, although
  `stores.service.ts:8772` speaks of each detail. A failure between the stock and
  its paper leaves one without the other.
* A KPI edit that was checked before the approval, or before the owner changed or
  hid the task, is written over it with the row it read; a task deleted meanwhile
  is inserted again by a save. A status the owner sets by hand saves the sheet as
  it was read: it overwrites a decision made in between, and brings back a sheet
  deleted in between.
* The daily report of a day may have two rows, since they are created without a
  lock; a review reminder may be lost or doubled by a restart.

## 5. Proofs

Seven modules, checked from nothing by `tlapm`. They assume only the named
`ASSUME`s of the modules, which TLC evaluates in the runs, and what a theorem
states as its assumption. The `ASSUME`s say that bounds and times are natural
numbers, that sets the code takes a least element of are not empty, that rows
counted by the code are numbered from 1, that rows which are counted or summed
(employees, slots, papers, records, versions, requests, positions) are finitely
many, that sums of money, quantities and prices are whole and not negative (KPI
figures: whole), and that a null value is not a member of the set it stands beside.

| theorem | states | argument |
|---|---|---|
| `OfficeProofs!LockKeepsPromise` | `[]LockPromise`, for any pool | inductive with `LockInv` |
| `OfficeProofs!PayrollKept` | `PayrollPromise` | `PayrollInd` is inductive; the action properties by cases on the step |
| `OfficeProofs!RulesKept` | `PayrollRulesPromise` | inductive; `PastFinesStand` from it |
| `OfficeProofs!FollowUpsKept` | `FollowUpsPromise` | `FollowUpsInd` is inductive |
| `ChatPushProofs!TypeCorrect` | `[]TypeOK` | one lemma per action |
| `ChatPushProofs!BindingInvariant`, `NoCrossAccount` | `[]BindInv`, `[]NoCrossAccountPush` | inductive with `TypeOK`; follows |
| `ChatPushProofs!NoSendOnceTicketed`, `TicketsStand` | `[]NoSendAfterTicket`, `TicketStable` | `SendInv` is inductive with `BindInv` |
| `ChatPushProofs!NewerBinding` | `NewerBindingSurvives` | by cases on the step, from `BindInv` |
| `ChatPushProofs!PushesAccounted` | `[]EveryPushAccountedFor`, given `WholeCycles` | `CycleInv` and a count of finite sets |
| `ChatPushProofs!PushesKept` | `PushesHold`, given `WholeCycles` (`Rejections = FALSE` in the run) | the three above |
| `ChatPushProofs!PushedOnce` | `[]AtMostOnce`, given `WholeCycles` and one process | follows from the account |
| `ChatOutboxProofs!OutboxInvariant` | `[]OutboxInv` | inductive |
| `ChatOutboxProofs!PushOnce` | `[]PushesMadeOnce` | inductive with `OutboxInv` |
| `ChatOutboxProofs!Refines` | `Spec => AtLeastOnce` | initial states map, each action maps to a step or a stutter |
| `ChatOutboxProofs!SendsKept` | `ChatSpec => []ChatInd /\ CursorsAdvance`, for any number of processes | `ChatInd` is inductive; the action property by cases on the step |
| `ChatOutboxProofs!ChatKept` | `ChatSpec => ChatPromise`, given one process | `TicksInd` is inductive with `ChatInd`; `TicksCovered` follows |
| `ShiftRosterProofs!TypeCorrect` | `[]TypeOK` | inductive thanks to the foreign keys |
| `ShiftRosterProofs!NoDoubleBookings` | `[]NoDoubleBooking` | inductive with `TypeOK` |
| `ShiftRosterProofs!RosterKept` | `RosterPromise` | `RosterInv` is inductive; its action properties by cases on the step |
| `ShiftAttendanceProofs!Workday` | `[]WorkdayInv` | inductive as it stands |
| `ShiftAttendanceProofs!AutoCheckoutGivesGrace` | `NoEarlyAutoCheckout` | from `OpsAreSound` |
| `PeopleProofs!SessionsKept` | `[]SessionsPromise` | inductive with `SessionsInv` |
| `PeopleProofs!AccountsKept` | `[]AccountsPromise` | `DesksInOrder` and `IdentifiersAreUnique` are inductive |
| `PeopleProofs!ZaloTokenKept` | `[]ZaloTokenPromise` | inductive with `ZaloInv` |
| `PeopleProofs!ChatGroupsKept` | `[]ChatGroupsPromise` | inductive with `GroupsInv` |
| `PeopleProofs!StructureKept` | `[]CareerStructurePromise` | `StructureInd` is inductive; the offer follows |
| `PeopleProofs!KpiKeepsPromise` | `KpiPromise` | `KpiInd` is inductive; the action property from it |
| `PeopleProofs!EmploymentKept` | `EmploymentPromise` | `EmploymentInd` is inductive; the action property from it |
| `PlanningProofs!RemindersKept` | `[]ShiftRemindersPromise` | inductive with `RemKnown` |
| `PlanningProofs!AlertsKept` | `[]OwnerAlertsPromise` | inductive as it stands |
| `PlanningProofs!WorkedTimeKept` | `WorkedTimePromise` | inductive; the action property from it |
| `PlanningProofs!CustomShiftsKept` | `CustomShiftsPromise` | inductive; the action property from it |
| `PlanningProofs!SupplementsKept` | `WorkSupplementsPromise` | inductive with `CreditsStand` |
| `PlanningProofs!ChangesKept` | `ChangeRequestsPromise` | `ChangesInd` is inductive; the action properties from it |

### The lock
`NoRunInTwoInstances` is not inductive: nothing in it ties a running fire to the
lock. `LockInv` adds that an instance which is not in `exposed` has a session with
at least as many levels as the instance has fires between lock and unlock
(`LevelsCover`; a failed statement may leave it more, never fewer), and that one
session at most holds the key (`OneHolder`). Hence all locks and unlocks of a
covered instance meet in one session of the pool, or do nothing: an unlock on
another session of the pool finds it without the key. An unlock gives back at most
one level and ends one fire; the argument is a count of finite sets. A session that
is closed under a fire makes its instance exposed, until none of its fires is left.

### Pushes
`NoCrossAccountPush` alone is not inductive: that a checked binding still stands
when the push is sent rests on the token lock (no registration of that token
commits while a dispatch holds it) and on at most one live row per token.
`BindInv` says both, and that nobody works on a row that does not exist.

`SendInv` is what fences a slow claimant out: a claim number has one claimant, a
token's lock one holder, and a dispatch at the provider call has the youngest
claim of a row that has no ticket, younger than anything a process still
remembers of it. An acknowledgement in memory is of a push that was really taken,
of a claim nobody sends any more, and no two processes were told the same ticket.
`EveryPushAccountedFor` then is a count: a push adds one process that was told, a
recorded ticket takes one away. The count needs `CycleInv`, that a process has one
claim of a row in its cycle and knows nothing of a row it has yet to send. That
holds where a cycle ends only when its dispatches have ended, which
`WholeCycles` says: no dispatch is rejected, or there is only one row (section 4
says what happens otherwise; in the model a lease may pass while the provider
is asked, where the code gives the call 10 s and the lease 30 s).

### Outbox
`PushesMadeOnce` needs the status that goes with the count, and that claim tokens
are fresh: no process holds a token newer than its row's, and no two the same.
For the refinement, that a published row was told, and that a row a process holds
is not a row cleaned up long ago.

### Messages and ticks
`ChatInd` is the outbox's invariant with the promises about sends and the read
cursor. `SendIdempotent` rests on the position of a key: a transaction stores a
message only where none of the key is, the row it inserts is the first absent one
(rows are inserted in order, so `AdvanceRead`, which inserts a READ and a DELIVERED
row, takes the next two), and a row that announces a message is of a message of the
group (`OfItsMessages`). A dispatcher changes what a row says in no step, and a
member's transaction changes rows that are absent or pending only.
The ticks need more (`TicksInd`). A changed tick has a row whose range covers it
(`OwedHaveRows`): an enqueue inserts such a row or widens a pending one, and no row's
range ever shrinks. A published row was told to both its ends (`RangesTold`), because
what a process has claimed or loaded is not pending, hence not widened under its
hands (`RowsInHand`). This last is false with two processes: the mark is fenced by
the status alone, so one process may publish a row that another has failed and a
member has widened since. `ChatKept` therefore has one process as a hypothesis, which
is what the singleton guard of the chat process is there for; everything else,
`SendsKept`, is for any number. Proving `ReadImpliesDelivered` with two clearings at
once showed that a later mark may be the smaller one (section 4), which the model
with one clear call had hidden.

### Roster
`NoDoubleBooking` is preserved because an operation that places an assignment
compares it, under the lock, with every other seat of the employee, and one that
moves a slot compares it for everybody who holds a seat in it. The foreign keys
are needed: a slot that a schedule or a split creates had no assignments, and a
new cycle had no slots, so nobody else's times change with them.

`RosterPromise` looks at rows and at seats apart. A row that is there may only
become what `RowMayBecome` allows, which needs that whoever was checked in is
confirmed or has completed (`WorkedIsConfirmed`); inserted rows lie behind all
others (`RowsInOrder`), so that no insert meets an old one. A slot gains seats in
three ways: a registration finds it not full; an assignment with hours of its own
moves to a slot that, by the foreign keys, was empty; a new schedule maps its seats
in a slot one to one into the chosen employees, of whom there are no more than the
limit.

### Working day
`WorkdayInv` adds to the four properties what an operation may rely on when it
writes: requests name shifts, a shift has one live overtime request, a check-out
that was begun carries the overtime it must pay (or the approval is in `late`), and
what an operation carries is still right (`OpsAreSound`; an automatic check-out in
flight is past its end and the grace, for the clock does not go back).
`ApprovedOvertimeIsPaid` speaks of shifts at rest; inductive is `PaidOrRepricing`:
what is owed is paid, or a worker is about to reprice it, with `RepricingsRead`: a
repricing that is about to save has computed what the shift is owed, for whatever
was approved since it read is in `late`. Each way to write a row (check in, check
out, reprice, chain, close, write off) has a lemma of its effect on that row and on
nothing else, and `RowStep` collects them into the six ways a row may change, from
which the properties follow one by one.

### Signing in, accounts, Zalo, groups
`ExchangedOnce` and `SessionCap` are about sessions at rest. In between, `OneHeir`
(a token whose heir is about to be saved is revoked, has none yet and is in one
request's hands), and `OverflowIsDoomed` (live tokens beyond the limit are among
those that a request in flight is about to revoke) are inductive;
`PasswordChangesAreProven` needs `ResetsRestOnCodes` (a reset token for the present
password rests on an accepted code that no change has consumed). `DesksInOrder` says
what the transactions under way know of the rows. `LocksNeverTangle` follows from
the order email, phone, row, in which each takes its locks: whoever a transaction
waits for holds more locks than it does, and so does whoever that one waits for.
`StoredTokenWorks` needs `UnsavedAreFresh` (a token received and not yet saved, by
an exchange or by any of the authorisations under way, is nowhere else) and
`NewestIsKnown`: before an answer is lost or an authorisation meets an exchange or
another one, the stored token works, is marked, or has its successor on the way. For
groups, `RequestsRely` says what a request in flight still may count on although
others have changed the group since it read, and `PicturesAreKnown` that a picture
on its way is nobody else's.

### Reminders and alerts
`RemindedOnce` counts sends per plan. `SendsAccounted` bounds them by whether the
plan can be sent again: a job of it is in the queue, somebody is about to put it
there, or its time has not come, plus one for each mishap; `OneJobForAPlan` and
`RemindersInTime` (a job leaves the queue only when due, and a plan whose time has
passed is not put in again) make that inductive, and `SectionsAreAlone` that two
desks are not both between two calls of the queue, which the lease gives as long as
it does not run out there. `ReminderIsQueued` needs `SomebodyMinds`: while nothing
was missed, a booking has the job of its plan, or some desk has yet to read it.
`OwnerAlertsPromise` rests on the claimed key: a message on its way has its key in
the log and is on one way only, and what is free or on its way has been told by
failures only.

### Rules, proposed shifts, claims
Two rules for a moment are kept out by the check at the save. That a saved rule
does not reach back to a shift that has begun rests on
`RequestsAreForTheFuture`: a request is rounded up to a minute, so whatever began
by the time it was received began before the rule does. `RulesInTurn` (groups are
numbered as they are saved) gives the new rule a free number.
An approval of a proposed shift reads, waits for the store and books in three
steps; `LocksAreHeld` says that its request stays pending and the store its own
until it has booked. That a date has a free name is a count: one more name than
there are shifts.
A credited claim stands because a later one only moves the recorded times
outwards. That is true of the end only if the recorded end is the employee's own
(an automatic one is replaced), which `CreditsStand` adds, with both times being
there at all. The shift a claim goes to is one that overlaps it most; that there is one
is proved from the library's order of the natural numbers.

### Requests about shifts
`NoTwoAlike` and `WithinLimit` are checked by a read in the transaction that
inserts. What it read still holds when it inserts (`ReadsStillHold`): the
employee's row is locked, so nobody else inserts, and whoever takes no lock, a
withdrawal or a decision, only takes requests out of the count. That a withdrawal
saves what it read is why `DecisionsStand` excepts one that began earlier.

### Payslips, fines, follow-ups
A sum of records or advances is defined as the cardinality of a set of units, so
that "one row more" is a lemma about finite sets and needs no induction.
`SettledSlipsAreCurrent` speaks of months at rest; inductive is `SlipsAreCurrent`:
an open payslip is what the month comes to, or somebody is about to recompute it,
and its net is never above its income. `PaidOnce` follows from `PaidAsRecorded`:
as long as no paid payslip was deleted, the history of payments and the status
agree. For the versions of a fine, a new version begins on the day on which the
others have ended (`PeriodsApart`), and a save touches versions from today on; so
no past day changes its fine and none has two. For the follow-ups, the inductive
invariant says what each task in flight still repairs (`TaskInOrder`): a figure
that is wrong now is one that a task which nothing disturbed is about to write. A
task carries its notice to those it has not reached (`NoticesInHand`), from which
each addressee's messages add up.

### Career structure
Ranks are dense in each department and each position: they are the numbers from 1
to the number of rows. The proof counts rows: a row's rank is one more than the
number of rows ahead of it (`Place`), hence two rows differ in rank; taking rows
out and closing the gap, putting rows in at the end, renumbering and copying a
list keep that. The code offers the position after one's own, or, from the last
one, the way into the parent department; it exists because there is no gap above a
rank that is not the last.

### KPI sheets
Trying to prove an earlier `AgreedTermsStand` showed that it was false: it
exempted edits that the approval overtook, but not those that the owner's change
of the task overtook, and the bound on operations hid the shortest behaviour. The
exemption is now the code's (an edit is saved as it was read), and the owner's
setting of a status, which the model lacked, is there. `EditsKeepTerms` says that an
edit nothing overtook is of the task as it is, and that an employee's edit of a
sheet that left its draft is of progress only.

### Hiring
`EmployedOnce` is inductive as every hire and restoration looks at all profiles of
the account under its lock, together with `ProfilesInHand`: an account that does
not exist has no profile (so a manual creation finds none), and a profile is
terminated exactly when it is deleted. A new stint starts without contracts since
a former one is reset and a placeholder never had any. `ClerksInHand` says what a
clerk may rely on: its application is of its store and account, an application
about to be inserted is nobody else's, and a file about to be removed is not
referred to. `HiredStaysAccepted` follows: an acceptance is released only by the
clerk that finds no visible profile of that store and account.

### Only model-checked, and why
* Liveness (`DeliveriesSettle`, `EventsSettle`, `ShiftsSettle`): out of the
  prover's reach.
* `PayFormulasPromise`, `CalendarIsRight`: they compare what recursive functions
  and sums over an input compute with a reference, for inputs of every length,
  which needs induction over data.
* `ProgressHolds`, `NoticesHold`: the sweep of the one is a recursive function
  (`Swept`), the throttle of the other folds over the notices sent; both need
  induction over data.
* `TicksCovered` with two processes: false there, as said above.
* `LadderHolds`: that no stage becomes its own predecessor, and that none gets out
  of reach, is about the recursive function `Reached`; induction over data again.
* `CyclesHold` could be proved and is not: its steps are the statements of the
  nightly jobs, and `NightlyAddsOnce` and `NoGaps` are about what several of them
  leave half done.
* `InventoryPromise`: `InventoryInd` is checked with it and not proved yet. Papers
  are counted piece by piece, one for each unit of a quantity, so that a new paper
  adds its quantity by the cardinality of a disjoint union; a row that nobody raced
  for is as the one request in flight on it read it (`ReadsAreFresh`), and its books
  balance with what that request still owes them (`StockIsPapers`).

## 6. Plan

Done: all modules of section 2. Worth doing next, most important first:

1. Theorems: the stock (`InventoryInd`), the cycles of `planning`,
   `AutoAdvanceIsDue` of the ladder, the statements of `PayFormulas` that need no
   induction.
2. The singleton guard of the chat process with its session and health check.
3. Payroll and working day composed: a check-out, its payslip and its follow-ups
   in one behaviour.

## 7. Limits of the models

* An advisory session that breaks in the middle of a provider call is not
  modelled; nor is a token lock that stays because the unlock query failed.
* A registration that changes nothing does not bump the version, as in the code.
* All processes start active; a process that waits for the singleton guard is not
  told apart from one that has not started.
* A cursor event whose access check fails counts as told (`Drop`), whether access
  was lost or the query failed; receipts are read back over HTTP.
* Permission to send is a refusal that may happen at any time (`SendFails`);
  deleting messages does not exist in these services.
* Cleanup's 14 days are much longer than any retry, hence its guards on rows that
  are finished.
* `ShiftRoster` does not tell slots that inherit their limit from a template from
  slots that state it, and shows the rows of an open fixed registration to other
  readers; the operations that read without the lock only cancel or check in what
  is approved or the employee's own, so nothing but timing changes.
* `PayrollRules` has one preset (lateness); other kinds of rules are versioned by
  the same code and differ in what they count. `Payroll` has one kind of record.
* `CareerLadder` and `CareerProgress` measure a criterion by a number.
* `WorkCycles` does not have recurring schedules with an end (no job fills them) nor
  hours of their own for slots the owner lists.
* In `Inventory` no transaction is deleted before its details are saved, items of
  one export that share a row stand as their sum, and a paper has two details of a
  row at most.
* `Payroll` does not change the contract of an employee.

Not modelled at all, with the reasons, are the components with that status in
`PROJECT.json`: queries and presentation (the larger part of
`shift-aggregation.service.ts`, of the listings in `stores.service.ts` and of the
controllers), record keeping on single rows (settings, documents, the activity
log, lists of categories and units), sockets and rate limits in memory, and
external services (faces, mail, the language model of the reports).
