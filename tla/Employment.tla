----------------------------- MODULE Employment -----------------------------
(***************************************************************************)
(* Who works where: job applications (job-application.service.ts) and the  *)
(* profiles they end in (stores.service.ts: hire, rehire, removal,         *)
(* restoration, permanent deletion, contracts).                            *)
(*                                                                         *)
(* A profile is unique per store and account, so it is a function of both. *)
(* Hiring and restoring take the account's row lock, removal the profile's *)
(* and the store's shift lock: each is one step.  An application is        *)
(* handled by a clerk in several statements, any of which may be the last  *)
(* before a crash.                                                         *)
(***************************************************************************)
EXTENDS Naturals, FiniteSets

CONSTANTS
  Stores, Accounts, Applications,
  Clerks,       \* requests about applications served at once
  MaxStints,    \* how often an account is hired by a store
  MaxOutages,   \* crashes
  NoStore, NoAccount

ASSUME EmploymentAssumption ==
  /\ MaxStints \in Nat /\ MaxOutages \in Nat
  /\ NoAccount \notin Applications

VARIABLES
  known,        \* accounts that exist
  prof,         \* employee_profiles, per store and account
  application,  \* store_job_applications
  selfies,      \* selfie files on disk, named by their application
  clerk,        \* what each clerk is doing
  hired,        \* history: applications whose hire was committed
  outages

employmentVars == <<known, prof, application, selfies, clerk, hired, outages>>

EmploymentStatus ==
  {"NONE", "PENDING", "ACTIVE", "PROBATION", "TERMINATED"}
EmployedStatuses == {"ACTIVE", "PROBATION"}
EmployeeContract == 1 .. MaxStints  \* an active contract, by its stint
EmployeeProfile ==
  [status : EmploymentStatus, deleted : BOOLEAN, stint : 0 .. MaxStints,
   contracts : SUBSET EmployeeContract, tied : BOOLEAN]
NoProfile ==
  [status |-> "NONE", deleted |-> FALSE, stint |-> 0, contracts |-> {},
   tied |-> FALSE]

JobApplication ==
  [status : {"NONE", "PENDING", "ACCEPTED", "REJECTED", "CANCELLED"},
   store : Stores \cup {NoStore}, account : Accounts \cup {NoAccount},
   reviewed : BOOLEAN, redacted : BOOLEAN, selfie : BOOLEAN, old : BOOLEAN]
NoApplication ==
  [status |-> "NONE", store |-> NoStore, account |-> NoAccount,
   reviewed |-> FALSE, redacted |-> FALSE, selfie |-> FALSE, old |-> FALSE]

ClerkSteps == {"free", "insert", "openProfile", "hire", "failed", "finish",
               "closeProfile", "removeSelfie", "purge"}
ClerkState ==
  [pc : ClerkSteps, i : Applications \cup {NoAccount},
   store : Stores \cup {NoStore}, account : Accounts \cup {NoAccount}]
Free == [pc |-> "free", i |-> NoAccount, store |-> NoStore,
         account |-> NoAccount]

InEmployment(p) == p.status \in EmployedStatuses
Visible(p) == p.status # "NONE" /\ ~p.deleted
PendingAt(s, a) ==
  {i \in Applications : /\ application[i].status = "PENDING"
                        /\ application[i].store = s
                        /\ application[i].account = a}

EmploymentInit ==
  /\ known \in SUBSET Accounts
  /\ prof = [s \in Stores |-> [a \in Accounts |-> NoProfile]]
  /\ application = [i \in Applications |-> NoApplication]
  /\ selfies = {}
  /\ clerk = [w \in Clerks |-> Free]
  /\ hired = {}
  /\ outages = 0

-----------------------------------------------------------------------------
(* Hiring                                                                  *)

(* attachExistingEmployee refuses an account that works somewhere, at this *)
(* store or another; a placeholder or a former profile here is reused.     *)
MayAttach(s, a) ==
  /\ a \in known
  /\ Visible(prof[s][a]) => prof[s][a].status \in {"PENDING", "TERMINATED"}
  /\ \A t \in Stores : ~InEmployment(prof[t][a])

RevivesFormerStint(s, a) ==
  prof[s][a].status = "TERMINATED" \/ prof[s][a].deleted

(* findExistingEmployeeCandidate: whom the search by phone offers to hire; *)
(* somebody whose application is pending is left to it.                    *)
ExistingEmployeeCandidate(s, a) ==
  /\ a \in known
  /\ \A t \in Stores : ~InEmployment(prof[t][a])
  /\ prof[s][a].status = "NONE" \/ RevivesFormerStint(s, a)

(* resolveHireEmploymentType: the type asked for, or the entry of the      *)
(* ladder, says whether the newcomer is on probation.                      *)
ResolveHireEmploymentType == {"ACTIVE", "PROBATION"}

(* resetFormerStintForRehire: contracts, shifts, chats and faces end.      *)
ResetFormerStint(p) == [p EXCEPT !.contracts = {}, !.tied = FALSE]

(* initializeEmployeeProfile: a former stint is reset before it is reused. *)
InitializeEmployeeProfile(s, a, status, contract) ==
  LET p == prof[s][a]
      kept == IF RevivesFormerStint(s, a) THEN ResetFormerStint(p) ELSE p
  IN [kept EXCEPT !.status = status, !.deleted = FALSE,
                  !.stint = @ + 1,
                  !.contracts = IF contract THEN @ \cup {p.stint + 1} ELSE @]

HireInto(s, a) ==
  /\ prof[s][a].stint < MaxStints
  /\ \E status \in ResolveHireEmploymentType, contract \in BOOLEAN :
       prof' = [prof EXCEPT ![s][a] =
                  InitializeEmployeeProfile(s, a, status, contract)]

(* addEmployeeFromAccount.                                                 *)
AddEmployee(s, a) ==
  /\ MayAttach(s, a)
  /\ HireInto(s, a)
  /\ UNCHANGED <<known, application, selfies, clerk, hired, outages>>

(* createManualEmployee: the account is made in the same transaction.      *)
CreateManualEmployee(s, a) ==
  /\ a \notin known
  /\ known' = known \cup {a}
  /\ HireInto(s, a)
  /\ UNCHANGED <<application, selfies, clerk, hired, outages>>

(* cancelFutureShiftAssignments, and the same for the chats of the store.  *)
CancelFutureShiftAssignments(p) == [p EXCEPT !.tied = FALSE]

(* deleteEmployee: what lies ahead is cancelled, chats of the store end,   *)
(* and the profile is terminated and soft-deleted.                         *)
DeleteEmployee(s, a) ==
  /\ Visible(prof[s][a])
  /\ prof' = [prof EXCEPT ![s][a] =
                [CancelFutureShiftAssignments(@) EXCEPT !.status = "TERMINATED",
                                                        !.deleted = TRUE]]
  /\ UNCHANGED <<known, application, selfies, clerk, hired, outages>>

(* permanentDeleteEmployee: only what was removed; everything goes.        *)
PermanentDeleteEmployee(s, a) ==
  /\ prof[s][a].deleted
  /\ prof' = [prof EXCEPT ![s][a] = NoProfile]
  /\ UNCHANGED <<known, application, selfies, clerk, hired, outages>>

(* restoreEmployee: under the account's lock, refused while any other      *)
(* profile of the account is not terminated.                               *)
RestoreProfile(s, a) ==
  /\ prof[s][a].status # "NONE"
  /\ \A t \in Stores \ {s} : prof[t][a].status \in {"NONE", "TERMINATED"}
  /\ prof' = [prof EXCEPT ![s][a].status = "ACTIVE", ![s][a].deleted = FALSE]
  /\ UNCHANGED <<known, application, selfies, clerk, hired, outages>>

(* updateEmployeeByOwner, changeEmploymentType: an employee moves between  *)
(* probation and the rest; nobody else changes status.                     *)
ChangeEmploymentType(s, a, status) ==
  /\ Visible(prof[s][a])
  /\ InEmployment(prof[s][a])
  /\ prof' = [prof EXCEPT ![s][a].status = status]
  /\ UNCHANGED <<known, application, selfies, clerk, hired, outages>>

CreateContract(s, a) ==
  /\ Visible(prof[s][a])
  /\ prof[s][a].stint > 0
  /\ prof' = [prof EXCEPT ![s][a].contracts = @ \cup {prof[s][a].stint}]
  /\ UNCHANGED <<known, application, selfies, clerk, hired, outages>>

(* renewContract: only of an active contract, which the new one replaces.  *)
RenewContract(s, a, c) ==
  /\ c \in prof[s][a].contracts
  /\ prof' = [prof EXCEPT ![s][a].contracts = (@ \ {c}) \cup {prof[s][a].stint}]
  /\ UNCHANGED <<known, application, selfies, clerk, hired, outages>>

(* The roster and the chats of the store tie an employee to what lies      *)
(* ahead; a removal and a rehire take it back.                             *)
Tie(s, a) ==
  /\ Visible(prof[s][a])
  /\ InEmployment(prof[s][a])
  /\ prof' = [prof EXCEPT ![s][a].tied = TRUE]
  /\ UNCHANGED <<known, application, selfies, clerk, hired, outages>>

-----------------------------------------------------------------------------
(* Applying                                                                *)

ClerkTakes(w, pc, i, s, a) ==
  /\ clerk[w] = Free
  /\ clerk' = [clerk EXCEPT ![w] = [pc |-> pc, i |-> i, store |-> s,
                                    account |-> a]]
ClerkGoes(w, pc) == clerk' = [clerk EXCEPT ![w].pc = pc]
ClerkEnds(w) == clerk' = [clerk EXCEPT ![w] = Free]

(* assertEligibleApplicant: any profile that is not terminated is in the   *)
(* way.                                                                    *)
EligibleApplicant(a) ==
  /\ a \in known
  /\ ~ \E t \in Stores : Visible(prof[t][a]) /\ prof[t][a].status # "TERMINATED"

(* apply: the selfie is on disk before the checks of insertApplication.    *)
ApplyBegin(w, i, s, a) ==
  /\ application[i].status = "NONE"
  /\ \A v \in Clerks : clerk[v].i # i
  /\ EligibleApplicant(a)
  /\ PendingAt(s, a) = {}
  /\ selfies' = selfies \cup {i}
  /\ ClerkTakes(w, "insert", i, s, a)
  /\ UNCHANGED <<known, prof, application, hired, outages>>

(* The insert: one pending application per store and account, by the       *)
(* partial unique index; a refused one takes its selfie with it.           *)
ApplyInsert(w) ==
  LET c == clerk[w] IN
  /\ c.pc = "insert"
  /\ IF PendingAt(c.store, c.account) = {}
     THEN /\ application' = [application EXCEPT ![c.i] =
               [NoApplication EXCEPT !.status = "PENDING", !.store = c.store,
                                     !.account = c.account, !.selfie = TRUE]]
          /\ ClerkGoes(w, "openProfile")
          /\ UNCHANGED selfies
     ELSE /\ selfies' = selfies \ {c.i}
          /\ ClerkEnds(w)
          /\ UNCHANGED application
  /\ UNCHANGED <<known, prof, hired, outages>>

(* openPendingProfile: best effort; a row that is there keeps its place.   *)
OpenPendingProfile(w) ==
  LET c == clerk[w] IN
  /\ c.pc = "openProfile"
  /\ prof' = IF prof[c.store][c.account].status = "NONE"
             THEN [prof EXCEPT ![c.store][c.account].status = "PENDING"]
             ELSE prof
  /\ ClerkEnds(w)
  /\ UNCHANGED <<known, application, selfies, hired, outages>>

(* accept: a conditional update claims the application before anything is  *)
(* done.                                                                   *)
AcceptClaim(w, i) ==
  /\ application[i].status = "PENDING"
  /\ application' = [application EXCEPT ![i].status = "ACCEPTED",
                                        ![i].reviewed = TRUE]
  /\ ClerkTakes(w, "hire", i, application[i].store, application[i].account)
  /\ UNCHANGED <<known, prof, selfies, hired, outages>>

(* addEmployee on behalf of the application; it may also be refused for a  *)
(* reference of another store or an asset out of stock.                    *)
AcceptHire(w) ==
  LET c == clerk[w] IN
  /\ c.pc = "hire"
  /\ \/ /\ MayAttach(c.store, c.account)
        /\ HireInto(c.store, c.account)
        /\ hired' = hired \cup {c.i}
        /\ \E pc \in {"finish", "failed"} : ClerkGoes(w, pc)
     \/ /\ ClerkGoes(w, "failed")
        /\ UNCHANGED <<prof, hired>>
  /\ UNCHANGED <<known, application, selfies, outages>>

(* releaseClaim: unless the applicant has sent another application.        *)
ReleaseClaim(c) ==
  IF application[c.i].status = "ACCEPTED" /\ PendingAt(c.store, c.account) = {}
  THEN [application EXCEPT ![c.i].status = "PENDING", ![c.i].reviewed = FALSE]
  ELSE application

(* An error puts the application back.                                     *)
ReleaseOnError(w) ==
  LET c == clerk[w] IN
  /\ c.pc = "failed"
  /\ ClerkEnds(w)
  /\ application' = ReleaseClaim(c)
  /\ UNCHANGED <<known, prof, selfies, hired, outages>>

(* An error does not say that nothing was hired: a profile that is there   *)
(* completes the acceptance, otherwise the application goes back.           *)
AfterFailedHire(w) ==
  LET c == clerk[w] IN
  /\ c.pc = "failed"
  /\ IF Visible(prof[c.store][c.account])
     THEN /\ ClerkGoes(w, "finish")
          /\ UNCHANGED application
     ELSE /\ ClerkEnds(w)
          /\ application' = ReleaseClaim(c)
  /\ UNCHANGED <<known, prof, selfies, hired, outages>>

(* The account takes its name and picture from the application, the        *)
(* application its link to the profile.                                    *)
AcceptFinish(w) ==
  /\ clerk[w].pc = "finish"
  /\ ClerkEnds(w)
  /\ UNCHANGED <<known, prof, application, selfies, hired, outages>>

(* reject: the contact goes, the selfie stays until the purge.             *)
Reject(w, i) ==
  /\ application[i].status = "PENDING"
  /\ application' = [application EXCEPT ![i].status = "REJECTED",
                                        ![i].reviewed = TRUE,
                                        ![i].redacted = TRUE]
  /\ ClerkTakes(w, "closeProfile", i, application[i].store,
                application[i].account)
  /\ UNCHANGED <<known, prof, selfies, hired, outages>>

(* withdraw: the row lets go of the selfie before the file is removed.     *)
Withdraw(w, i) ==
  /\ application[i].status = "PENDING"
  /\ application' = [application EXCEPT ![i].status = "CANCELLED",
                                        ![i].reviewed = TRUE,
                                        ![i].redacted = TRUE,
                                        ![i].selfie = FALSE]
  /\ ClerkTakes(w, "removeSelfie", i, application[i].store,
                application[i].account)
  /\ UNCHANGED <<known, prof, selfies, hired, outages>>

RemoveSelfie(w) ==
  /\ clerk[w].pc \in {"removeSelfie", "purge"}
  /\ selfies' = selfies \ {clerk[w].i}
  /\ IF clerk[w].pc = "purge" THEN ClerkEnds(w)
     ELSE ClerkGoes(w, "closeProfile")
  /\ UNCHANGED <<known, prof, application, hired, outages>>

(* closePendingProfile: the placeholder is deleted for good.               *)
ClosePendingProfile(w) ==
  LET c == clerk[w] IN
  /\ c.pc = "closeProfile"
  /\ prof' = IF prof[c.store][c.account].status = "PENDING"
             THEN [prof EXCEPT ![c.store][c.account] = NoProfile] ELSE prof
  /\ ClerkEnds(w)
  /\ UNCHANGED <<known, application, selfies, hired, outages>>

-----------------------------------------------------------------------------
(* Retention                                                               *)

(* Ninety days pass over an application.                                   *)
GrowOld(i) ==
  /\ application[i].status # "NONE"
  /\ ~application[i].old
  /\ application' = [application EXCEPT ![i].old = TRUE]
  /\ UNCHANGED <<known, prof, selfies, clerk, hired, outages>>

(* purgeStaleSelfies: per row, the reference first and then the file.      *)
PurgeStaleSelfie(w, i) ==
  /\ application[i].old
  /\ application[i].selfie
  /\ application' = [application EXCEPT ![i].selfie = FALSE]
  /\ ClerkTakes(w, "purge", i, application[i].store, application[i].account)
  /\ UNCHANGED <<known, prof, selfies, hired, outages>>

(* redactStaleContactDetails: one statement for what was reviewed, one     *)
(* that expires what nobody acted on.                                      *)
RedactReviewed ==
  {i \in Applications : /\ application[i].status \notin {"NONE", "PENDING"}
                        /\ application[i].reviewed
                        /\ application[i].old
                        /\ ~application[i].redacted}
ExpireAbandoned ==
  {i \in Applications : application[i].status = "PENDING" /\ application[i].old}

RedactStaleContactDetails ==
  /\ RedactReviewed \cup ExpireAbandoned # {}
  /\ application' =
       [i \in Applications |->
          IF i \in ExpireAbandoned
          THEN [application[i] EXCEPT !.status = "CANCELLED", !.redacted = TRUE]
          ELSE IF i \in RedactReviewed
          THEN [application[i] EXCEPT !.redacted = TRUE]
          ELSE application[i]]
  /\ UNCHANGED <<known, prof, selfies, clerk, hired, outages>>

-----------------------------------------------------------------------------
(* The process dies and forgets its clerks.                                *)
Outage ==
  /\ outages < MaxOutages
  /\ \E w \in Clerks : clerk[w] # Free
  /\ outages' = outages + 1
  /\ clerk' = [w \in Clerks |-> Free]
  /\ UNCHANGED <<known, prof, application, selfies, hired>>

ClerkStep(w) ==
  \/ ApplyInsert(w)
  \/ OpenPendingProfile(w)
  \/ AcceptHire(w)
  \/ AfterFailedHire(w)
  \/ AcceptFinish(w)
  \/ RemoveSelfie(w)
  \/ ClosePendingProfile(w)

EmploymentNext ==
  \/ \E s \in Stores, a \in Accounts :
       \/ AddEmployee(s, a)
       \/ CreateManualEmployee(s, a)
       \/ DeleteEmployee(s, a)
       \/ PermanentDeleteEmployee(s, a)
       \/ RestoreProfile(s, a)
       \/ \E status \in EmployedStatuses : ChangeEmploymentType(s, a, status)
       \/ CreateContract(s, a)
       \/ \E c \in 1 .. MaxStints : RenewContract(s, a, c)
       \/ Tie(s, a)
       \/ \E w \in Clerks, i \in Applications : ApplyBegin(w, i, s, a)
  \/ \E w \in Clerks, i \in Applications :
       \/ AcceptClaim(w, i)
       \/ Reject(w, i)
       \/ Withdraw(w, i)
       \/ PurgeStaleSelfie(w, i)
  \/ \E w \in Clerks : ClerkStep(w)
  \/ \E i \in Applications : GrowOld(i)
  \/ RedactStaleContactDetails
  \/ Outage

EmploymentSpec == EmploymentInit /\ [][EmploymentNext]_employmentVars

-----------------------------------------------------------------------------
EmploymentTypeOK ==
  /\ known \subseteq Accounts
  /\ prof \in [Stores -> [Accounts -> EmployeeProfile]]
  /\ application \in [Applications -> JobApplication]
  /\ selfies \subseteq Applications
  /\ clerk \in [Clerks -> ClerkState]
  /\ hired \subseteq Applications
  /\ outages \in 0 .. MaxOutages

(* However hires, acceptances and restorations of two stores fall, an      *)
(* account works at one store at most.                                     *)
EmployedOnce ==
  \A a \in Accounts, s, t \in Stores :
    InEmployment(prof[s][a]) /\ InEmployment(prof[t][a]) => s = t

(* A new stint starts clean: the active contracts of somebody who works    *)
(* are of the current stint, and nobody who was removed keeps a shift      *)
(* ahead or a seat in a chat of the store.                                 *)
StintStartsClean ==
  \A s \in Stores, a \in Accounts :
    LET p == prof[s][a] IN
    /\ InEmployment(p) => p.contracts \subseteq {p.stint}
    /\ p.tied => InEmployment(p) /\ ~p.deleted

(* An application whose hire was committed stays accepted while the        *)
(* employee is there, whatever the answer to the owner was: it does not    *)
(* return to the pending ones to be accepted or withdrawn again.           *)
HiredStaysAccepted ==
  [][\A i \in hired :
       LET x == application[i] IN
       x.status = "ACCEPTED" /\ Visible(prof[x.store][x.account])
         => application'[i].status = "ACCEPTED"]_employmentVars

(* No application refers to a selfie that is gone, even after a crash, and *)
(* without one every file on disk belongs to an application or to a step   *)
(* that is about to insert or remove it.                                   *)
SelfiesMatchRows ==
  /\ \A i \in Applications : application[i].selfie => i \in selfies
  /\ outages = 0 =>
       \A i \in selfies :
         \/ application[i].selfie
         \/ \E w \in Clerks :
              /\ clerk[w].i = i
              /\ clerk[w].pc \in {"insert", "removeSelfie", "purge"}

(* Whoever the search by phone offers to the owner can be hired as things  *)
(* stand: findExistingEmployeeCandidate never promises what                *)
(* attachExistingEmployee would refuse.                                    *)
CandidatesCanBeHired ==
  \A s \in Stores, a \in Accounts :
    ExistingEmployeeCandidate(s, a) => MayAttach(s, a)

(* A profile is terminated when it is deleted and not otherwise, a         *)
(* placeholder was never anybody's stint, a contract is of the last stint, *)
(* and only an account that exists has a profile.                          *)
ProfilesInHand ==
  \A s \in Stores, a \in Accounts :
    LET p == prof[s][a] IN
    /\ p.status = "NONE" => p = NoProfile
    /\ p.status # "NONE" => a \in known
    /\ p.status = "PENDING" => p.stint = 0
    /\ p.deleted <=> p.status = "TERMINATED"
    /\ p.contracts \subseteq {p.stint}

(* An application is of a store and of an account that exists.             *)
ApplicationsInHand ==
  \A i \in Applications :
    \/ application[i] = NoApplication
    \/ /\ application[i].status # "NONE"
       /\ application[i].store \in Stores
       /\ application[i].account \in known

(* A clerk acts for the store and the account of its application; one that *)
(* is about to insert it has the selfie on disk and is alone at it; a file *)
(* about to be removed is not referred to any more.                        *)
ClerksInHand ==
  \A w \in Clerks :
    LET c == clerk[w]
        x == application[c.i] IN
    \/ c = Free
    \/ /\ c.pc # "free"
       /\ c.i \in Applications /\ c.store \in Stores /\ c.account \in known
       /\ IF c.pc = "insert"
          THEN /\ x = NoApplication /\ c.i \in selfies
               /\ \A v \in Clerks : clerk[v].i = c.i => v = w
          ELSE x.status # "NONE" /\ x.store = c.store /\ x.account = c.account
       /\ c.pc \in {"removeSelfie", "purge"} => ~x.selfie

(* Inductive.                                                              *)
EmploymentInd ==
  /\ EmploymentTypeOK
  /\ ProfilesInHand
  /\ ApplicationsInHand
  /\ ClerksInHand
  /\ EmployedOnce
  /\ StintStartsClean
  /\ SelfiesMatchRows
  /\ CandidatesCanBeHired

(* What hiring promises: one store per account, clean stints, selfies      *)
(* that match their rows, and hires that stay accepted.                    *)
EmploymentPromise ==
  /\ [](/\ EmploymentInd /\ EmployedOnce /\ StintStartsClean
        /\ SelfiesMatchRows /\ CandidatesCanBeHired)
  /\ HiredStaysAccepted
=============================================================================
