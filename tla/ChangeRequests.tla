--------------------------- MODULE ChangeRequests ---------------------------
(***************************************************************************)
(* The requests one employee files about his shifts, and the store's       *)
(* policy on them (requests.part.ts): whether a kind is accepted at all,   *)
(* how long before the shift, and how many a month.  A request checks what *)
(* it can first; then a transaction locks the employee's row, looks for    *)
(* the same request, counts the month's requests, and inserts.             *)
(***************************************************************************)
EXTENDS FiniteSets, Integers

CONSTANTS Papers,               \* ids of requests, numbered in their order
          PaperDesks,           \* requests being served
          Turns, TurnStart,     \* the store's shifts, the hour of each
          TurnHours,            \* and their length
          LeaveKinds,           \* the kinds of leave that are asked for
          Hours,                \* the hours at which something happens
          MonthHours,           \* the length of a month
          Settings,             \* settings an owner may save
          MaxSettings, NoPaper
VARIABLES hour, papers, setting, settings, turnStatus, standing, paperDesk
paperVars == <<hour, papers, setting, settings, turnStatus, standing, paperDesk>>

RequestKinds == {"LEAVE", "SUDDEN", "LATE", "EARLY", "CHANGE", "SWAP"}
Statuses == {"PENDING", "APPROVED", "REJECTED", "CANCELLED"}
MonthOf(h) == h \div MonthHours
Months == {MonthOf(TurnStart[s]) : s \in Turns}

\* A row of shift_change_requests, of employee_leave_requests or of
\* shift_swaps: "month" is the month of the date the row is counted by.
ShiftChangeRequest ==
  [kind : RequestKinds, turn : Turns, current : BOOLEAN, month : Months, status : Statuses]
StoreApprovalSetting ==
  [leaveOn : BOOLEAN, swapOn : BOOLEAN, leaveNotice : Nat, leaveLimit : Nat,
   swapNotice : Nat, swapLimit : Nat, lateNotice : Nat, lateLimit : Nat]
IdlePaperDesk == [at |-> "idle"]
PaperDeskState ==
  [at : {"idle"}] \cup [at : {"cancels"}, paper : Papers]
  \cup [at : {"asked"}, paper : Papers, row : ShiftChangeRequest]
  \cup [at : {"counted"}, paper : Papers, row : ShiftChangeRequest, limit : Nat]

(* Requests are finitely many, and NULL is no row.                         *)
ASSUME ChangeRequestsAssumption ==
  /\ IsFiniteSet(Papers)
  /\ NoPaper \notin ShiftChangeRequest \cup StoreApprovalSetting
  /\ Settings \subseteq StoreApprovalSetting
  /\ LeaveKinds \subseteq {"LEAVE", "SUDDEN", "LATE", "EARLY"}

LiveRequest(p) == papers[p] # NoPaper /\ papers[p].status \in {"PENDING", "APPROVED"}

-----------------------------------------------------------------------------
(* The policy.                                                             *)

\* What holds until the owner saves a setting, and what the first look at
\* the settings stores.
DefaultApprovalSetting ==
  [leaveOn |-> TRUE, swapOn |-> TRUE, leaveNotice |-> 24, leaveLimit |-> 2,
   swapNotice |-> 12, swapLimit |-> 2, lateNotice |-> 2, lateLimit |-> 2]
Policy == IF setting = NoPaper THEN DefaultApprovalSetting ELSE setting

\* The kinds that are counted together.
Group(kind) == CASE kind \in {"CHANGE", "SWAP"} -> {"CHANGE", "SWAP"}
                 [] kind \in {"LATE", "EARLY"}  -> {"LATE", "EARLY"}
                 [] OTHER                       -> {kind}
NoticeOf(kind, policy) == CASE kind = "LEAVE" -> policy.leaveNotice
                            [] kind \in {"CHANGE", "SWAP"} -> policy.swapNotice
                            [] OTHER -> policy.lateNotice
LimitOf(kind, policy) == CASE kind = "LEAVE" -> policy.leaveLimit
                           [] kind \in {"CHANGE", "SWAP"} -> policy.swapLimit
                           [] OTHER -> policy.lateLimit

\* requestPolicyViolation: 0 stands for no notice and no limit, and a sudden
\* leave is bound by neither.
RequestPolicyAllows(kind, policy, due, used) ==
  /\ IF kind \in {"CHANGE", "SWAP"} THEN policy.swapOn ELSE policy.leaveOn
  /\ kind # "SUDDEN" =>
       /\ NoticeOf(kind, policy) > 0 => due - hour >= NoticeOf(kind, policy)
       /\ LimitOf(kind, policy) > 0 => used < LimitOf(kind, policy)

\* The hour the request is about: to leave early, the end of the shift.
AffectsAt(kind, turn) == TurnStart[turn] + IF kind = "EARLY" THEN TurnHours ELSE 0

\* assertApprovalPolicy: the month is that of the shift, and a row is in the
\* month of its own date.
Counted(kind, month) ==
  {p \in Papers : LiveRequest(p) /\ papers[p].kind \in Group(kind) /\ papers[p].month = month}
AssertApprovalPolicy(kind, turn) ==
  RequestPolicyAllows(kind, Policy, AffectsAt(kind, turn),
                      Cardinality(Counted(kind, MonthOf(TurnStart[turn]))))

\* getApprovalSetting stores the defaults of a store that has none.
GetApprovalSetting ==
  /\ setting = NoPaper /\ setting' = DefaultApprovalSetting
  /\ UNCHANGED <<hour, papers, settings, turnStatus, standing, paperDesk>>
UpsertApprovalSetting(new) ==
  /\ settings < MaxSettings /\ new # setting
  /\ setting' = new /\ settings' = settings + 1
  /\ UNCHANGED <<hour, papers, turnStatus, standing, paperDesk>>

-----------------------------------------------------------------------------
(* Filing.                                                                 *)

DeskGoesTo(d, state) == paperDesk' = [paperDesk EXCEPT ![d] = state]
InHand == {paperDesk[d].paper : d \in {e \in PaperDesks : paperDesk[e].at # "idle"}}
NextId(p) == {q \in Papers : papers[q] = NoPaper /\ q \notin InHand /\ q <= p} = {p}

Takes(d, p, kind, turn, current, month) ==
  /\ paperDesk[d] = IdlePaperDesk /\ NextId(p)
  /\ DeskGoesTo(d, [at |-> "asked", paper |-> p,
                    row |-> [kind |-> kind, turn |-> turn, current |-> current,
                             month |-> month, status |-> "PENDING"]])
  /\ UNCHANGED <<hour, papers, setting, settings, turnStatus, standing>>

\* createShiftChangeRequest: for a shift of one's own, or naming only the
\* shift one would rather have; the date of the request is stated apart.
CurrentIsOwn(turn) == turnStatus[turn] = "MINE"
CreateShiftChangeRequest(d, p, turn, current, month) ==
  /\ standing \in {"ACTIVE", "PROBATION"}
  /\ current => CurrentIsOwn(turn)
  /\ Takes(d, p, "CHANGE", turn, current, month)

\* createShiftSwap, counted with the former.
CreateShiftSwap(d, p, turn) ==
  /\ standing \in {"ACTIVE", "PROBATION"}
  /\ CurrentIsOwn(turn)
  /\ Takes(d, p, "SWAP", turn, TRUE, MonthOf(TurnStart[turn]))

\* createLeaveRequest.
CreateLeaveRequest(d, p, kind, turn) ==
  /\ standing # "GONE"
  /\ Takes(d, p, kind, turn, TRUE, MonthOf(TurnStart[turn]))

\* resolveLeaveShiftAssignmentId: a shift of one's own, though cancelled.
LeaveIsOwn(turn) == turnStatus[turn] \in {"MINE", "CANCELLED"}

\* The row of the employee, locked until the transaction ends.
NoRequesterLock == TRUE
RequesterFree == \A d \in PaperDesks : paperDesk[d].at # "counted"

Alike(p, row) == papers[p] = row

\* The transaction reads: it ends at once when the employee is no longer
\* active (a change only), the shift is not his (a leave), the same request
\* is pending (a change or a leave), or the policy refuses.
CountRequests(d) ==
  LET row == paperDesk[d].row IN
  /\ paperDesk[d].at = "asked" /\ RequesterFree
  /\ IF /\ row.kind = "CHANGE" => standing = "ACTIVE"
        /\ row.kind \in LeaveKinds => LeaveIsOwn(row.turn)
        /\ row.kind # "SWAP" => ~\E p \in Papers : Alike(p, row)
        /\ AssertApprovalPolicy(row.kind, row.turn)
     THEN DeskGoesTo(d, [at |-> "counted", paper |-> paperDesk[d].paper, row |-> row,
                             limit |-> LimitOf(row.kind, Policy)])
     ELSE DeskGoesTo(d, IdlePaperDesk)
  /\ UNCHANGED <<hour, papers, setting, settings, turnStatus, standing>>

InsertRequest(d) ==
  /\ paperDesk[d].at = "counted"
  /\ papers' = [papers EXCEPT ![paperDesk[d].paper] = paperDesk[d].row]
  /\ DeskGoesTo(d, IdlePaperDesk)
  /\ UNCHANGED <<hour, setting, settings, turnStatus, standing>>

-----------------------------------------------------------------------------
(* Deciding.                                                               *)

\* reviewShiftChangeRequest, and the decisions on the other kinds: a
\* conditional update.  Nothing else follows from an approved change.
ReviewRequest(p, status) ==
  /\ papers[p] # NoPaper /\ papers[p].status = "PENDING"
  /\ papers' = [papers EXCEPT ![p].status = status]
  /\ UNCHANGED <<hour, setting, settings, turnStatus, standing, paperDesk>>

\* cancelShiftChangeRequest reads the row ...
CancelRequest(d, p) ==
  /\ paperDesk[d] = IdlePaperDesk
  /\ papers[p] # NoPaper /\ papers[p].kind = "CHANGE" /\ papers[p].status = "PENDING"
  /\ DeskGoesTo(d, [at |-> "cancels", paper |-> p])
  /\ UNCHANGED <<hour, papers, setting, settings, turnStatus, standing>>

\* ... and saves it, whatever was decided since.
SaveCancelled(d) ==
  /\ paperDesk[d].at = "cancels"
  /\ papers' = [papers EXCEPT ![paperDesk[d].paper].status = "CANCELLED"]
  /\ DeskGoesTo(d, IdlePaperDesk)
  /\ UNCHANGED <<hour, setting, settings, turnStatus, standing>>

-----------------------------------------------------------------------------
(* Around them: time, the roster and the employment.                       *)

TurnCancelled(turn) ==
  /\ turnStatus[turn] = "MINE"
  /\ turnStatus' = [turnStatus EXCEPT ![turn] = "CANCELLED"]
  /\ UNCHANGED <<hour, papers, setting, settings, standing, paperDesk>>
StandingChanges(new) ==
  /\ <<standing, new>> \in {<<"PROBATION", "ACTIVE">>, <<"ACTIVE", "GONE">>}
  /\ standing' = new
  /\ UNCHANGED <<hour, papers, setting, settings, turnStatus, paperDesk>>
HourPasses ==
  /\ \E h \in Hours : h > hour /\ hour' = h /\ \A g \in Hours : g > hour => g >= h
  /\ UNCHANGED <<papers, setting, settings, turnStatus, standing, paperDesk>>

ChangesInit ==
  /\ hour = 0
  /\ papers = [p \in Papers |-> NoPaper]
  /\ setting = NoPaper /\ settings = 0
  /\ turnStatus \in {f \in [Turns -> {"MINE", "OTHERS"}] : \E s \in Turns : f[s] = "MINE"}
  /\ standing \in {"PROBATION", "ACTIVE"}
  /\ paperDesk = [d \in PaperDesks |-> IdlePaperDesk]

ChangesNext ==
  \/ HourPasses \/ GetApprovalSetting
  \/ \E new \in Settings : UpsertApprovalSetting(new)
  \/ \E turn \in Turns : TurnCancelled(turn)
  \/ \E new \in {"ACTIVE", "GONE"} : StandingChanges(new)
  \/ \E d \in PaperDesks, p \in Papers, turn \in Turns :
       \/ \E month \in Months, current \in BOOLEAN :
            CreateShiftChangeRequest(d, p, turn, current, month)
       \/ CreateShiftSwap(d, p, turn)
       \/ \E kind \in LeaveKinds : CreateLeaveRequest(d, p, kind, turn)
  \/ \E d \in PaperDesks : CountRequests(d) \/ InsertRequest(d) \/ SaveCancelled(d)
  \/ \E p \in Papers, status \in {"APPROVED", "REJECTED"} : ReviewRequest(p, status)
  \/ \E d \in PaperDesks, p \in Papers : CancelRequest(d, p)

ChangesSpec == ChangesInit /\ [][ChangesNext]_paperVars

ChangesTypeOK ==
  /\ papers \in [Papers -> ShiftChangeRequest \cup {NoPaper}]
  /\ setting \in StoreApprovalSetting \cup {NoPaper}
  /\ standing \in {"PROBATION", "ACTIVE", "GONE"}
  /\ paperDesk \in [PaperDesks -> PaperDeskState]

(***************************************************************************)
(* Two submissions that cross leave one pending change or leave: the       *)
(* duplicate check and the insert are one critical section.                *)
(***************************************************************************)
NoTwoAlike ==
  \A p, q \in Papers :
    /\ p # q /\ papers[p] # NoPaper /\ papers[p] = papers[q]
    /\ papers[p].status = "PENDING"
    => papers[p].kind = "SWAP"

(***************************************************************************)
(* Within the limit: when a request enters, the requests of its kind that  *)
(* are dated in the month of its shift are fewer than the limit it was     *)
(* counted against, changes and swaps together.                            *)
(***************************************************************************)
WithinLimit ==
  [][\A d \in PaperDesks :
       LET o == paperDesk[d]
           others == {q \in Papers \ {o.paper} :
                        /\ LiveRequest(q) /\ papers[q].kind \in Group(o.row.kind)
                        /\ papers[q].month = MonthOf(TurnStart[o.row.turn])}
       IN  /\ o.at = "counted" /\ papers'[o.paper] # papers[o.paper]
           /\ o.row.kind # "SUDDEN" /\ o.limit > 0
           => Cardinality(others) < o.limit]_paperVars

(***************************************************************************)
(* A request that is decided against or withdrawn stays so, and an         *)
(* approved one is lost only to a withdrawal that had begun before.        *)
(***************************************************************************)
DecisionsStand ==
  [][\A p \in Papers : papers[p] # NoPaper /\ papers'[p] # papers[p] =>
       /\ papers[p].status \in {"REJECTED", "CANCELLED"} =>
            papers'[p].status = "CANCELLED"
       /\ papers[p].status = "APPROVED" =>
            \E d \in PaperDesks : paperDesk[d] = [at |-> "cancels", paper |-> p]]_paperVars

(* What makes them inductive.  A request on its way has an id of its own,  *)
(* and what is withdrawn was there.                                        *)
Files(d) == paperDesk[d].at \in {"asked", "counted"}
RequestsInHand ==
  \A d \in PaperDesks :
    /\ Files(d) =>
         /\ papers[paperDesk[d].paper] = NoPaper
         /\ paperDesk[d].row.status = "PENDING"
         /\ \A e \in PaperDesks \ {d} : Files(e) => paperDesk[e].paper # paperDesk[d].paper
    /\ paperDesk[d].at = "cancels" => papers[paperDesk[d].paper] # NoPaper

(* What the transaction read still holds when it inserts: the employee's   *)
(* row is locked, and whoever takes no lock only takes requests away.      *)
ReadHolds(d) ==
  LET o == paperDesk[d] IN
  /\ o.row.kind # "SWAP" => ~\E p \in Papers : Alike(p, o.row)
  /\ o.row.kind # "SUDDEN" /\ o.limit > 0 =>
       Cardinality(Counted(o.row.kind, MonthOf(TurnStart[o.row.turn]))) < o.limit
ReadsStillHold ==
  \A d \in PaperDesks : paperDesk[d].at = "counted" =>
    /\ \A e \in PaperDesks : paperDesk[e].at = "counted" => e = d
    /\ ReadHolds(d)

ChangesInd == ChangesTypeOK /\ NoTwoAlike /\ RequestsInHand /\ ReadsStillHold

(***************************************************************************)
(* What the requests promise: none twice, the month's limit, and decisions *)
(* that stand.                                                             *)
(***************************************************************************)
ChangeRequestsPromise ==
  /\ [](ChangesInd /\ NoTwoAlike)
  /\ WithinLimit
  /\ DecisionsStand
=============================================================================
