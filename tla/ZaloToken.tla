------------------------------ MODULE ZaloToken ------------------------------
(***************************************************************************)
(* The Zalo access that sends one-time codes (zalo.service.ts,             *)
(* zalo-oauth-state.service.ts, zalo.controller.ts).  Zalo hands out       *)
(* refresh tokens that are good for one exchange; the newest is kept in a  *)
(* table.  Several processes send codes and exchange the token when it is  *)
(* about to expire or is refused: within a process callers share one       *)
(* exchange, between processes only the table tells who was first.         *)
(* Authorising anew takes no part in that: several may be under way, and   *)
(* beside exchanges.                                                       *)
(*                                                                         *)
(* Zalo itself is modelled from how the code uses it: `good` is the set of *)
(* refresh tokens it accepts.                                              *)
(***************************************************************************)
EXTENDS Integers, FiniteSets, Sequences

CONSTANTS
  Procs,           \* processes
  Senders,         \* requests that send a code
  ProcOf,          \* the process of each
  Admins,          \* requests that authorise anew
  MaxChecks,       \* RACE_CONDITION_MAX_RETRIES
  MaxLinks,        \* ZALO_OAUTH_STATE_MAX_OUTSTANDING
  MaxIssued,       \* bound on the links that are issued
  MaxGrants,       \* bound on the tokens Zalo hands out
  MaxLost          \* bound on the answers that get lost

ASSUME ZaloAssumption ==
  /\ ProcOf \in [Senders -> Procs]
  /\ MaxChecks \in Nat \ {0} /\ MaxLinks \in Nat \ {0} /\ MaxGrants \in Nat \ {0}

VARIABLES
  good, granted,   \* Zalo: tokens it accepts, how many it has handed out
  latest,          \* the row of zalo_tokens that was updated last
  refresh,         \* the exchange each process is busy with
  sender,          \* what each request waits for
  admin,           \* the authorisations in progress
  links, opened,   \* outstanding links, oldest first; how often one opened
  issuedLinks,
  lost,            \* history: tokens lost with an answer of Zalo
  crossed,         \* history: an authorisation met an exchange or another one
  spent            \* history: the tokens each process has exchanged

zaloVars == <<good, granted, latest, refresh, sender, admin, links, opened,
              issuedLinks, lost, crossed, spent>>
external == <<good, granted>>

ZaloRow == [token : Nat, dead : BOOLEAN]
NoZaloRow == [token |-> 0, dead |-> TRUE]
Resting == [pc |-> "idle", row |-> NoZaloRow, new |-> 0, checks |-> 0]
NoGrant == [pc |-> "idle", token |-> 0]

(* What a process finds in the table: nothing but the last updated row is  *)
(* ever read, NoZaloRow when the table is empty.                           *)
FindLatestToken == latest

(* save: the row as the process knows it, inserted again if it is gone,    *)
(* becomes the last updated one.                                           *)
SaveRow(r) == latest' = r

ZaloInit ==
  /\ good = {1} /\ granted = 1
  /\ latest = [token |-> 1, dead |-> FALSE]
  /\ refresh = [p \in Procs |-> Resting]
  /\ sender = [s \in Senders |-> "idle"]
  /\ admin = [a \in Admins |-> NoGrant]
  /\ links = << >> /\ opened = 0 /\ issuedLinks = 0
  /\ lost = 0 /\ crossed = FALSE
  /\ spent = [p \in Procs |-> {}]

-----------------------------------------------------------------------------
(* The exchange                                                            *)

(* refreshAccessToken and the beginning of executeRefresh: nothing is done *)
(* beside an exchange that is under way, and the row is read afresh.       *)
StartRefresh(p) ==
  /\ refresh[p] = Resting
  /\ ~FindLatestToken.dead
  /\ refresh' = [refresh EXCEPT ![p] =
       [Resting EXCEPT !.pc = "called", !.row = FindLatestToken]]

(* The exchange of p ends, and with it the waiting of its callers.         *)
EndRefresh(p, ok) ==
  /\ refresh' = [refresh EXCEPT ![p] = Resting]
  /\ sender' = [s \in Senders |->
       IF ProcOf[s] # p \/ sender[s] \notin {"wait1", "wait2"} THEN sender[s]
       ELSE IF ~ok THEN "idle"
       ELSE IF sender[s] = "wait1" THEN "send1" ELSE "send2"]

(* keepAliveToken, and the refresh when a process starts.                  *)
KeepAliveToken(p) ==
  /\ StartRefresh(p)
  /\ UNCHANGED <<external, latest, sender, admin, links, opened, issuedLinks,
                 lost, crossed, spent>>

(* Zalo exchanges the token; the answer may get lost on the way.           *)
ZaloExchanges(p) ==
  LET used == refresh[p].row.token IN
  /\ refresh[p].pc = "called"
  /\ used \in good
  /\ granted < MaxGrants
  /\ granted' = granted + 1
  /\ good' = (good \ {used}) \cup {granted'}
  /\ spent' = [spent EXCEPT ![p] = @ \cup {used}]
  /\ \/ /\ refresh' = [refresh EXCEPT ![p].pc = "save", ![p].new = granted']
        /\ UNCHANGED <<sender, lost>>
     \/ /\ lost < MaxLost
        /\ lost' = lost + 1
        /\ EndRefresh(p, FALSE)
  /\ UNCHANGED <<latest, admin, links, opened, issuedLinks, crossed>>

ZaloRefuses(p) ==
  /\ refresh[p].pc = "called"
  /\ refresh[p].row.token \notin good
  /\ refresh' = [refresh EXCEPT ![p].pc = "check"]
  /\ UNCHANGED <<external, latest, sender, admin, links, opened, issuedLinks,
                 lost, crossed, spent>>

(* An answer without tokens: the row is given up at once, and the token    *)
(* may have been spent all the same.                                       *)
ZaloAnswersNothing(p) ==
  LET used == refresh[p].row.token IN
  /\ refresh[p].pc = "called"
  /\ refresh' = [refresh EXCEPT ![p].pc = "mark"]
  /\ \/ UNCHANGED <<external, lost, spent>>
     \/ /\ used \in good /\ lost < MaxLost
        /\ lost' = lost + 1
        /\ good' = good \ {used}
        /\ spent' = [spent EXCEPT ![p] = @ \cup {used}]
        /\ UNCHANGED granted
  /\ UNCHANGED <<latest, sender, admin, links, opened, issuedLinks, crossed>>

ZaloUnreachable(p) ==
  /\ refresh[p].pc = "called"
  /\ EndRefresh(p, FALSE)
  /\ UNCHANGED <<external, latest, admin, links, opened, issuedLinks, lost,
                 crossed, spent>>

(* Only the access token is saved, not the refresh token that replaces the *)
(* one just spent.                                                         *)
SaveAccessTokenOnly(p) ==
  /\ refresh[p].pc = "save"
  /\ EndRefresh(p, TRUE)
  /\ UNCHANGED <<external, latest, admin, links, opened, issuedLinks, lost,
                 crossed, spent>>

SaveNewTokens(p) ==
  /\ refresh[p].pc = "save"
  /\ SaveRow([token |-> refresh[p].new, dead |-> FALSE])
  /\ EndRefresh(p, TRUE)
  /\ UNCHANGED <<external, admin, links, opened, issuedLinks, lost, crossed, spent>>

(* handleRefreshError: another process may have been first; its token is   *)
(* looked for a few times before the row is given up.                      *)
HandleRefreshError(p) ==
  LET r == refresh[p] IN
  /\ r.pc = "check"
  /\ IF FindLatestToken # NoZaloRow /\ FindLatestToken.token # r.row.token
     THEN EndRefresh(p, TRUE)
     ELSE /\ refresh' = [refresh EXCEPT
                           ![p] = [r EXCEPT !.checks = @ + 1,
                                   !.pc = IF r.checks + 1 < MaxChecks
                                          THEN "check" ELSE "mark"]]
          /\ UNCHANGED sender
  /\ UNCHANGED <<external, latest, admin, links, opened, issuedLinks, lost,
                 crossed, spent>>

MarkTokenExpired(p) ==
  /\ refresh[p].pc = "mark"
  /\ SaveRow([refresh[p].row EXCEPT !.dead = TRUE])
  /\ EndRefresh(p, FALSE)
  /\ UNCHANGED <<external, admin, links, opened, issuedLinks, lost, crossed, spent>>

-----------------------------------------------------------------------------
(* Sending a code                                                          *)

(* A caller that needs a new access token starts or joins the exchange of  *)
(* its process.                                                            *)
JoinsRefresh(s, attempt) ==
  /\ sender' = [sender EXCEPT ![s] = attempt]
  /\ IF refresh[ProcOf[s]] = Resting THEN StartRefresh(ProcOf[s])
     ELSE UNCHANGED refresh

(* sendOtp with getValidAccessToken: an access token that will not expire  *)
(* soon is used, otherwise it is exchanged first.                          *)
SendOtp(s, soon) ==
  /\ sender[s] = "idle"
  /\ ~FindLatestToken.dead
  /\ IF soon THEN JoinsRefresh(s, "wait1")
     ELSE sender' = [sender EXCEPT ![s] = "send1"] /\ UNCHANGED refresh
  /\ UNCHANGED <<external, latest, admin, links, opened, issuedLinks, lost,
                 crossed, spent>>

(* The answer: sent, or failed.  A refused access token is exchanged and   *)
(* the message sent once more.                                             *)
Delivered(s) ==
  /\ sender[s] \in {"send1", "send2"}
  /\ sender' = [sender EXCEPT ![s] = "idle"]
  /\ UNCHANGED <<external, latest, refresh, admin, links, opened, issuedLinks,
                 lost, crossed, spent>>

AccessRefused(s) ==
  /\ sender[s] = "send1"
  /\ JoinsRefresh(s, "wait2")
  /\ UNCHANGED <<external, latest, admin, links, opened, issuedLinks, lost,
                 crossed, spent>>

-----------------------------------------------------------------------------
(* Authorisation                                                           *)

(* issue: a link for an administrator; the oldest makes room.              *)
IssueLink ==
  /\ issuedLinks < MaxIssued
  /\ issuedLinks' = issuedLinks + 1
  /\ links' = IF Len(links) < MaxLinks THEN Append(links, issuedLinks')
              ELSE Append(Tail(links), issuedLinks')
  /\ UNCHANGED <<external, latest, refresh, sender, admin, opened, lost,
                 crossed, spent>>

(* prune: the oldest link expires.                                         *)
LinkExpires ==
  /\ links # << >>
  /\ links' = Tail(links)
  /\ UNCHANGED <<external, latest, refresh, sender, admin, opened, issuedLinks,
                 lost, crossed, spent>>

(* consume: a link is good once.                                           *)
Consumed(i) == SubSeq(links, 1, i - 1) \o SubSeq(links, i + 1, Len(links))

Crosses(a) == \/ \E p \in Procs : refresh[p] # Resting
              \/ \E b \in Admins \ {a} : admin[b] # NoGrant

(* Zalo hands out a token; whether it goes on accepting the old ones is    *)
(* not ours to say.                                                        *)
ZaloGrants ==
  /\ granted < MaxGrants
  /\ granted' = granted + 1
  /\ good' \in {{granted'}, good \cup {granted'}}

TakesToken(a) ==
  /\ admin[a] = NoGrant
  /\ ZaloGrants
  /\ admin' = [admin EXCEPT ![a] = [pc |-> "clear", token |-> granted']]
  /\ crossed' = (crossed \/ Crosses(a))
  /\ UNCHANGED lost

(* oauthCallback and exchangeCodeForToken: the code is exchanged, the      *)
(* answer gets lost, or Zalo has nothing for it.                           *)
OauthCallback(a, i) ==
  /\ links' = Consumed(i)
  /\ opened' = opened + 1
  /\ \/ TakesToken(a)
     \/ ZaloGrants /\ lost < MaxLost /\ lost' = lost + 1 /\ UNCHANGED <<admin, crossed>>
     \/ UNCHANGED <<external, admin, crossed, lost>>
  /\ UNCHANGED <<latest, refresh, sender, issuedLinks, spent>>

(* init-token: an administrator brings a token from Zalo's own pages.      *)
InitToken(a) ==
  /\ TakesToken(a)
  /\ UNCHANGED <<latest, refresh, sender, links, opened, issuedLinks, spent>>

(* initToken: the table is cleared, then the new row is saved.             *)
InitTokenClears(a) ==
  /\ admin[a].pc = "clear"
  /\ latest' = NoZaloRow
  /\ admin' = [admin EXCEPT ![a].pc = "save"]
  /\ crossed' = (crossed \/ Crosses(a))
  /\ UNCHANGED <<external, refresh, sender, links, opened, issuedLinks, lost, spent>>

InitTokenSaves(a) ==
  /\ admin[a].pc = "save"
  /\ SaveRow([token |-> admin[a].token, dead |-> FALSE])
  /\ admin' = [admin EXCEPT ![a] = NoGrant]
  /\ crossed' = (crossed \/ Crosses(a))
  /\ UNCHANGED <<external, refresh, sender, links, opened, issuedLinks, lost, spent>>

ZaloNext ==
  \/ \E p \in Procs :
       \/ KeepAliveToken(p)
       \/ ZaloExchanges(p)
       \/ ZaloRefuses(p)
       \/ ZaloAnswersNothing(p)
       \/ ZaloUnreachable(p)
       \/ SaveNewTokens(p)
       \/ HandleRefreshError(p)
       \/ MarkTokenExpired(p)
  \/ \E s \in Senders :
       \/ \E soon \in BOOLEAN : SendOtp(s, soon)
       \/ Delivered(s)
       \/ AccessRefused(s)
  \/ IssueLink
  \/ LinkExpires
  \/ \E a \in Admins :
       \/ \E i \in DOMAIN links : OauthCallback(a, i)
       \/ InitToken(a)
       \/ InitTokenClears(a)
       \/ InitTokenSaves(a)

ZaloSpec == ZaloInit /\ [][ZaloNext]_zaloVars

-----------------------------------------------------------------------------
Exchange == [pc : {"idle", "called", "save", "check", "mark"}, row : ZaloRow,
             new : Nat, checks : 0 .. MaxChecks]
ZaloTypeOK ==
  /\ granted \in 1 .. MaxGrants /\ good \subseteq 1 .. granted
  /\ latest \in ZaloRow
  /\ refresh \in [Procs -> Exchange]
  /\ \A p \in Procs : /\ refresh[p].pc \in {"called", "save"} => refresh[p].checks = 0
                      /\ refresh[p].pc = "check" => refresh[p].checks < MaxChecks
                      /\ refresh[p].pc = "idle" => refresh[p] = Resting
  /\ sender \in [Senders -> {"idle", "wait1", "wait2", "send1", "send2"}]
  /\ admin \in [Admins -> [pc : {"idle", "clear", "save"}, token : Nat]]
  /\ \A a \in Admins : admin[a].pc = "idle" => admin[a] = NoGrant
  /\ links \in Seq(Nat) /\ Len(links) <= MaxLinks
  /\ opened \in Nat /\ issuedLinks \in Nat
  /\ lost \in Nat /\ crossed \in BOOLEAN
  /\ spent \in [Procs -> SUBSET (1 .. granted)]

(* The tokens that were handed out and not saved yet, and by whom.         *)
Unsaved(p) == refresh[p].pc = "save"
Authorising(a) == admin[a].pc # "idle"

(* A token that is not saved yet is nowhere else: no other process has it, *)
(* no other authorisation, the table has not, and nobody has spent it.     *)
Fresh(token, procs, admins) ==
  /\ token \in 1 .. granted
  /\ token # latest.token
  /\ \A q \in Procs : /\ refresh[q].pc # "idle" => token # refresh[q].row.token
                      /\ q \in procs /\ Unsaved(q) => token # refresh[q].new
                      /\ token \notin spent[q]
  /\ \A b \in admins : Authorising(b) => token # admin[b].token
UnsavedAreFresh ==
  /\ latest.token <= granted
  /\ \A p \in Procs : refresh[p].pc # "idle" => refresh[p].row.token <= granted
  /\ \A p \in Procs : Unsaved(p) => Fresh(refresh[p].new, Procs \ {p}, Admins)
  /\ \A a \in Admins : Authorising(a) => Fresh(admin[a].token, Procs, Admins \ {a})

(* Where the newest token is while exchanges and authorisations run,       *)
(* before an answer is lost or an authorisation meets another activity.    *)
NewestIsKnown ==
  lost = 0 /\ ~crossed =>
    /\ (\A a \in Admins : ~Authorising(a)) =>
         \/ latest.dead \/ latest.token \in good
         \/ \E p \in Procs : Unsaved(p) /\ refresh[p].row.token = latest.token
    /\ \A p \in Procs : Unsaved(p) => refresh[p].new \in good
    /\ \A a \in Admins : Authorising(a) =>
         /\ admin[a].token \in good
         /\ \A b \in Admins \ {a} : ~Authorising(b)
         /\ admin[a].pc = "save" => latest.dead /\ \A p \in Procs : refresh[p] = Resting
    /\ ~latest.dead => \A p \in Procs :
         \/ latest.token \notin spent[p]
         \/ Unsaved(p) /\ refresh[p].row.token = latest.token

(* When nothing is under way the stored token is one that Zalo accepts, or *)
(* it is marked as lost, so that nobody goes on trying it: whichever       *)
(* process exchanged first, whoever saved last.  Left out is what the code *)
(* does not recover from by itself: a token lost with an answer of Zalo,   *)
(* and an authorisation that meets an exchange or another authorisation    *)
(* under way, whose saves may come in the wrong order.                     *)
StoredTokenWorks ==
  (/\ \A p \in Procs : refresh[p] = Resting
   /\ \A a \in Admins : admin[a] = NoGrant
   /\ ~crossed /\ lost = 0)
     => FindLatestToken.token \in good \/ FindLatestToken.dead

(* Callers in one process never spend a token twice: what the process has  *)
(* exchanged it does not send again.                                       *)
NeverSpendsTwice ==
  lost = 0 /\ ~crossed =>
    \A p \in Procs : refresh[p].pc = "called" => refresh[p].row.token \notin spent[p]

(* Nobody waits for an exchange that is not under way.                     *)
WaitersAreServed ==
  \A s \in Senders :
    sender[s] \in {"wait1", "wait2"} => refresh[ProcOf[s]] # Resting

(* A link for authorising opens once: however links expire, make room for  *)
(* one another and are used, each that was issued is outstanding or was    *)
(* opened at most once.                                                    *)
LinkOpensOnce == opened + Len(links) <= issuedLinks

(* What the keeping of the Zalo token promises: the stored token works or  *)
(* is marked lost, none is spent twice, and nobody waits in vain.          *)
ZaloTokenPromise ==
  /\ ZaloTypeOK
  /\ UnsavedAreFresh
  /\ NewestIsKnown
  /\ StoredTokenWorks
  /\ NeverSpendsTwice
  /\ WaitersAreServed
  /\ LinkOpensOnce
=============================================================================
