------------------------------ MODULE MCPeople ------------------------------
(***************************************************************************)
(* The people of a store, for TLC: hiring, sign-in, accounts, the Zalo     *)
(* token, skills, KPI sheets and chat groups.  These models share no       *)
(* variables, so each behaviour exercises one of them.                     *)
(***************************************************************************)
EXTENDS Employment, Sessions, Accounts, ZaloToken, ChatGroups, Kpi, TLC

CONSTANTS
  Subjects, Learners, RequestIds, Thresholds, MaxClock, MaxTweaks,
  NoRequestId,
  FirstProc, SecondProc

VARIABLES
  focus,    \* the component that takes steps in this behaviour
  trait, joined, traitRows, passes, filed, level, clock, tweaks

\* The first sender runs in one process, the second in the other.
HomeOf == [s \in Senders |-> IF s = 2 THEN SecondProc ELSE FirstProc]

Progress == INSTANCE CareerProgress WITH
  rows <- traitRows

progressState == <<trait, joined, traitRows, passes, filed, level, clock,
                   tweaks>>

\* One component is in focus; the others keep one initial state.  The Zalo
\* token has two scenes: codes are sent beside one link, or nothing is sent and
\* links make room for one another.
PeopleInit ==
  /\ focus \in {"hiring", "progress", "sessions", "accounts", "zalo",
                "links", "kpi", "groups"}
  /\ EmploymentInit
  /\ focus # "hiring" =>
       known = {}
  /\ Progress!ProgressInit
  /\ SessionsInit
  /\ AccountsInit
  /\ focus # "accounts" =>
       rows[1] = CHOOSE legacy \in AccountRow : legacy.plain
  /\ ZaloInit
  /\ KpiInit
  /\ ChatGroupsInit

Rests(component, state) ==
  IF focus = component THEN TRUE ELSE UNCHANGED state

PeopleNext ==
  /\ \/ focus = "hiring" /\ EmploymentNext
     \/ focus = "progress" /\ Progress!ProgressNext
     \/ focus = "sessions" /\ SessionsNext
     \/ focus = "accounts" /\ AccountsNext
     \/ focus = "zalo" /\ ZaloNext /\ issuedLinks' <= 1
     \/ focus = "links" /\ ZaloNext /\ UNCHANGED <<sender, refresh>>
     \/ focus = "kpi" /\ KpiNext
     \/ focus = "groups" /\ ChatGroupsNext
  /\ Rests("hiring", employmentVars)
  /\ Rests("progress", progressState)
  /\ Rests("sessions", sessionVars)
  /\ Rests("accounts", accountVars)
  /\ focus # "links" => Rests("zalo", zaloVars)
  /\ Rests("kpi", kpiVars)
  /\ Rests("groups", chatVars)
  /\ UNCHANGED focus

peopleState == <<focus, employmentVars, progressState, sessionVars,
   accountVars, zaloVars, kpiVars, chatVars>>
PeopleSpec == PeopleInit /\ [][PeopleNext]_peopleState

\* Stores, sheets and learners are interchangeable, and so are the desks,
\* which are the clerks of every component here.
Symmetry ==
  Permutations(Stores) \cup Permutations(Clerks) \cup Permutations(Sheets)
    \cup Permutations(Learners)

-----------------------------------------------------------------------------
\* Skills: a request counts once, skills are learnt in order and in the
\* current stint, and a sweep leaves nothing behind (CareerProgress).
ProgressHolds == Progress!CareerProgressPromise
=============================================================================
