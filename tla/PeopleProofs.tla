----------------------------- MODULE PeopleProofs -----------------------------
(***************************************************************************)
(* Proofs about the people of a store: what Sessions, Accounts, ZaloToken, *)
(* ChatGroups, CareerStructure, Kpi and Employment promise, for any number *)
(* of requests, accounts, processes, groups and people, for every          *)
(* structure of a store, and for every limit.                              *)
(*                                                                         *)
(* The seven modules share no variables.  The parts of this one are laid   *)
(* out alike: the inductive invariant, lemmas about the steps of one       *)
(* request that leave the others alone, one lemma for each action, and the *)
(* theorem.                                                                *)
(***************************************************************************)
EXTENDS Sessions, Accounts, ZaloToken, ChatGroups, CareerStructure, Kpi,
        Employment, FiniteSetTheorems, WellFoundedInduction, TLAPS

-----------------------------------------------------------------------------
\* Signing in: the codes and the tokens of an account are apart, but for the reset of the password.

CodesInv == ResetsRestOnCodes /\ PasswordChangesAreProven /\ WithinLimits
TokensInv == OneHeir /\ ResetEndsSessions /\ OverflowIsDoomed
SessionsInv == SessionsTypeOK /\ CodesInv /\ TokensInv

\* Cardinalities: a subset of a small set is small ...
LEMMA FewerOf ==
  ASSUME NEW B, IsFiniteSet(B), NEW A \in SUBSET B, NEW k \in Nat, Cardinality(B) <= k
  PROVE  Cardinality(A) <= k
<1>1. Cardinality(A) <= Cardinality(B) /\ Cardinality(A) \in Nat /\ Cardinality(B) \in Nat
  BY FS_Subset, FS_CardinalityType
<1> QED
  BY <1>1

\* ... and one element adds at most one.
LEMMA OneMoreOf ==
  ASSUME NEW B, IsFiniteSet(B), NEW x, NEW A \in SUBSET (B \cup {x}), NEW k \in Nat,
         Cardinality(B) < k
  PROVE  Cardinality(A) <= k
<1>1. Cardinality(B) \in Nat /\ IsFiniteSet(B \cup {x})
      /\ Cardinality(B \cup {x}) <= Cardinality(B) + 1
  <2>1. Cardinality(B) \in Nat
    BY FS_CardinalityType
  <2>2. IsFiniteSet(B \cup {x})
        /\ Cardinality(B \cup {x}) = (IF x \in B THEN Cardinality(B) ELSE Cardinality(B) + 1)
    BY FS_AddElement
  <2> QED
    BY <2>1, <2>2
<1>2. Cardinality(B \cup {x}) \in Nat /\ Cardinality(B \cup {x}) <= k
  BY <1>1, FS_CardinalityType
<1> QED
  BY <1>1, <1>2, FewerOf

\* A table whose rows are rewritten in place keeps its length.
LEMMA Rewritten ==
  ASSUME NEW S, NEW s \in Seq(S), NEW f, f = [i \in DOMAIN s |-> f[i]],
         \A i \in DOMAIN s : f[i] \in S
  PROVE  f \in Seq(S) /\ Len(f) = Len(s) /\ DOMAIN f = DOMAIN s
<1>1. DOMAIN s = 1 .. Len(s) /\ Len(s) \in Nat
  OBVIOUS
<1>2. f \in [1 .. Len(s) -> S]
  BY <1>1
<1> QED
  BY <1>1, <1>2

\* One that gets a row grows by it.
LEMMA Appended ==
  ASSUME NEW S, NEW s \in Seq(S), NEW x \in S
  PROVE  /\ Append(s, x) \in Seq(S) /\ Len(Append(s, x)) = Len(s) + 1
         /\ DOMAIN s = 1 .. Len(s) /\ Len(s) \in Nat
         /\ DOMAIN Append(s, x) = DOMAIN s \cup {Len(s) + 1}
         /\ Append(s, x)[Len(s) + 1] = x
         /\ \A i \in DOMAIN s : Append(s, x)[i] = s[i]
OBVIOUS

AuthRequest == [pc : AuthSteps, t : Nat, stale : SUBSET Nat]

\* What the desk of a request holds at each step.
LEMMA StepShapes ==
  /\ FreeAuth \in AuthRequest /\ FreeAuth.pc = "free" /\ FreeAuth.t = 0 /\ FreeAuth.stale = {}
  /\ \A pc \in AuthSteps :
       Step(pc) \in AuthRequest /\ Step(pc).pc = pc /\ Step(pc).t = 0 /\ Step(pc).stale = {}
  /\ \A pc \in AuthSteps, u \in Nat :
       /\ [Step(pc) EXCEPT !.t = u] \in AuthRequest
       /\ [Step(pc) EXCEPT !.t = u].pc = pc /\ [Step(pc) EXCEPT !.t = u].t = u
       /\ [Step(pc) EXCEPT !.t = u].stale = {}
  /\ \A pc \in AuthSteps, S \in SUBSET Nat :
       /\ [Step(pc) EXCEPT !.stale = S] \in AuthRequest
       /\ [Step(pc) EXCEPT !.stale = S].pc = pc /\ [Step(pc) EXCEPT !.stale = S].t = 0
       /\ [Step(pc) EXCEPT !.stale = S].stale = S
BY DEF FreeAuth, Step, AuthRequest, AuthSteps

\* A request moves on alone.
LEMMA AuthDeskMoves ==
  ASSUME SessionsTypeOK, NEW w \in AuthDesks, NEW o \in AuthRequest, DeskGoes(w, o)
  PROVE  /\ authDesk' \in [AuthDesks -> AuthRequest] /\ authDesk'[w] = o
         /\ \A v \in AuthDesks \ {w} : authDesk'[v] = authDesk[v]
BY DEF SessionsTypeOK, DeskGoes, AuthRequest

\* Codes keep their type, their date and their acceptance; used ones stay used.
CodesStay ==
  /\ DOMAIN codes \subseteq DOMAIN codes'
  /\ \A c \in DOMAIN codes :
       /\ codes'[c].type = codes[c].type /\ codes'[c].createdAt = codes[c].createdAt
       /\ codes'[c].accepted = codes[c].accepted /\ (codes[c].used => codes'[c].used)

Sent(at) == {c \in DOMAIN codes : codes[c].type = "REGISTER"
                                  /\ codes[c].createdAt \in (at - SendWindow + 1) .. at}

\* The tables, and what is counted in them, are finite.
LEMMA CodesAreFinite ==
  ASSUME SessionsTypeOK
  PROVE  /\ DOMAIN codes = 1 .. Len(codes) /\ Len(codes) \in Nat
         /\ IsFiniteSet(DOMAIN codes) /\ IsFiniteSet(Accepted)
         /\ \A at : IsFiniteSet(Sent(at))
         /\ DOMAIN tokens = 1 .. Len(tokens) /\ Len(tokens) \in Nat
         /\ IsFiniteSet(DOMAIN tokens) /\ IsFiniteSet(LiveTokens) /\ IsFiniteSet(Pruned)
<1>1. DOMAIN codes = 1 .. Len(codes) /\ Len(codes) \in Nat
      /\ DOMAIN tokens = 1 .. Len(tokens) /\ Len(tokens) \in Nat /\ IsFiniteSet(failures)
  BY DEF SessionsTypeOK
<1>2. IsFiniteSet(DOMAIN codes) /\ IsFiniteSet(DOMAIN tokens)
  BY <1>1, FS_Interval
<1>3. /\ Accepted \subseteq DOMAIN codes /\ LiveTokens \subseteq DOMAIN tokens
      /\ Pruned \subseteq failures /\ \A at : Sent(at) \subseteq DOMAIN codes
  BY DEF Accepted, LiveTokens, Pruned, Sent
<1> QED
  BY <1>1, <1>2, <1>3, FS_Subset

\* Codes may be used up and guesses forgotten: the promises about codes stand.
LEMMA CodesStand ==
  ASSUME SessionsInv, CodesStay, DOMAIN codes' = DOMAIN codes, authClock' = authClock,
         account'.pw = account.pw, resets' = resets, failures' \subseteq failures
  PROVE  CodesInv'
<1>1. Accepted' = Accepted /\ \A at : Sent(at)' = Sent(at)
  BY DEF CodesStay, Accepted, Sent
<1>2. ResetsRestOnCodes'
  BY <1>1 DEF SessionsInv, CodesInv, ResetsRestOnCodes, CodesStay
<1>3. PasswordChangesAreProven'
  BY <1>1 DEF SessionsInv, CodesInv, PasswordChangesAreProven, Accepted
<1>4. WithinLimits'
  <2>1. Pruned' \in SUBSET Pruned /\ IsFiniteSet(Pruned)
    BY CodesAreFinite DEF Pruned, SessionsInv
  <2>2. Cardinality(Pruned') <= VerifyLimit
    BY <2>1, FewerOf, SessionsAssumption DEF SessionsInv, CodesInv, WithinLimits
  <2> QED
    BY <1>1, <2>2 DEF SessionsInv, CodesInv, WithinLimits, Sent
<1> QED
  BY <1>2, <1>3, <1>4 DEF CodesInv

\* A code may be sent: an activation looked at the limit in the same step, and
\* the window that ends now is the only one that sees the new code.
LEMMA SendingStands ==
  ASSUME SessionsInv, CodesStay, NEW n, n \notin DOMAIN codes,
         DOMAIN codes' = DOMAIN codes \cup {n},
         NEW type \in OtpTypes, codes'[n] = NewOtp(type),
         type = "REGISTER" => ~IsOverSendLimit(type),
         UNCHANGED <<authClock, account, resets, failures>>
  PROVE  CodesInv'
<1>1. codes'[n].type = type /\ codes'[n].createdAt = authClock /\ ~codes'[n].accepted
  BY DEF NewOtp
<1>2. Accepted' = Accepted
  BY <1>1 DEF CodesStay, Accepted
<1>3. /\ authClock \in Nat
      /\ \A c \in DOMAIN codes : codes[c].createdAt \in Nat /\ codes[c].createdAt <= authClock
  <2>1. authClock \in Nat /\ codes \in Seq(AccountOtp)
    BY SessionsAssumption DEF SessionsInv, SessionsTypeOK
  <2>2. \A c \in DOMAIN codes : codes[c] \in AccountOtp
    BY <2>1
  <2> QED
    BY <2>1, <2>2 DEF SessionsInv, CodesInv, ResetsRestOnCodes, AccountOtp
<1>4. ResetsRestOnCodes'
  BY <1>1, <1>2, <1>3 DEF SessionsInv, CodesInv, ResetsRestOnCodes, CodesStay
<1>5. PasswordChangesAreProven'
  BY <1>2 DEF SessionsInv, CodesInv, PasswordChangesAreProven, Accepted
<1>6. ASSUME NEW at \in 0 .. authClock PROVE Cardinality(Sent(at)') <= SendLimit
  <2>1. IsFiniteSet(Sent(at)) /\ Cardinality(Sent(at)) <= SendLimit
    BY CodesAreFinite DEF SessionsInv, CodesInv, WithinLimits, Sent
  <2>2. CASE type = "REGISTER" /\ at = authClock
    <3> DEFINE recent == {c \in DOMAIN codes : codes[c].type = type /\ Recent(c)}
    <3>1. Sent(at)' \subseteq recent \cup {n}
      BY <1>1, <1>3, <2>2, SessionsAssumption DEF Sent, Recent, CodesStay
    <3>2. IsFiniteSet(recent) /\ Cardinality(recent) < SendLimit
      <4>1. IsFiniteSet(recent)
        BY CodesAreFinite, FS_Subset DEF SessionsInv
      <4> QED
        BY <2>2, <4>1, FS_CardinalityType, SessionsAssumption DEF IsOverSendLimit
    <3> QED
      BY <3>1, <3>2, OneMoreOf, SessionsAssumption
  <2>3. CASE type # "REGISTER" \/ at # authClock
    <3>1. Sent(at)' = Sent(at)
      BY <1>1, <1>3, <2>3, SessionsAssumption DEF Sent, CodesStay
    <3> QED
      BY <2>1, <3>1
  <2> QED
    BY <2>2, <2>3
<1>7. WithinLimits'
  BY <1>6 DEF SessionsInv, CodesInv, WithinLimits, Sent, Pruned
<1> QED
  BY <1>4, <1>5, <1>7 DEF CodesInv

\* Cancelling the older codes uses them up and does nothing else.
LEMMA SupersededStays ==
  ASSUME SessionsTypeOK, NEW type \in OtpTypes
  PROVE  /\ Superseded(type) \in Seq(AccountOtp) /\ Len(Superseded(type)) = Len(codes)
         /\ DOMAIN Superseded(type) = DOMAIN codes
         /\ \A c \in DOMAIN codes :
              /\ Superseded(type)[c].type = codes[c].type
              /\ Superseded(type)[c].createdAt = codes[c].createdAt
              /\ Superseded(type)[c].accepted = codes[c].accepted
              /\ (codes[c].used => Superseded(type)[c].used)
<1> DEFINE s == Superseded(type)
<1>1. codes \in Seq(AccountOtp)
  BY DEF SessionsTypeOK
<1>2. \A c \in DOMAIN codes : codes[c] \in AccountOtp
  BY <1>1
<1>3. s = [c \in DOMAIN codes |-> s[c]]
  BY DEF Superseded
<1>4. \A c \in DOMAIN codes :
        /\ s[c] \in AccountOtp /\ s[c].type = codes[c].type
        /\ s[c].createdAt = codes[c].createdAt /\ s[c].accepted = codes[c].accepted
        /\ (codes[c].used => s[c].used)
  BY <1>2 DEF Superseded, AccountOtp
<1> HIDE DEF s
<1>5. s \in Seq(AccountOtp) /\ Len(s) = Len(codes) /\ DOMAIN s = DOMAIN codes
  BY <1>1, <1>3, <1>4, Rewritten
<1> QED
  BY <1>4, <1>5 DEF s

\* Tokens keep their parent and their password; revoked ones stay revoked.
TokensStay ==
  /\ DOMAIN tokens \subseteq DOMAIN tokens'
  /\ \A t \in DOMAIN tokens :
       /\ tokens'[t].parent = tokens[t].parent /\ tokens'[t].pw = tokens[t].pw
       /\ (tokens[t].revoked => tokens'[t].revoked)

OthersWait(D) == \A v \in AuthDesks \ D : authDesk'[v] = authDesk[v]

\* Tokens may be revoked while the requests of D move, as long as what they
\* hold to exchange is a token, and what they hold to succeed is revoked, has
\* no successor and is in no other hands.
LEMMA HeirsStand ==
  ASSUME SessionsInv, TokensStay, DOMAIN tokens' = DOMAIN tokens,
         NEW D \in SUBSET AuthDesks, OthersWait(D),
         \A w \in D : DeskAt(w, "exchange")' => authDesk'[w].t \in DOMAIN tokens,
         \A w \in D : DeskAt(w, "issue")' /\ authDesk'[w].t # 0 =>
           /\ authDesk'[w].t \in DOMAIN tokens /\ tokens'[authDesk'[w].t].revoked
           /\ Childless(authDesk'[w].t)
           /\ \A v \in AuthDesks \ {w} : DeskAt(v, "issue") => authDesk[v].t # authDesk'[w].t
           /\ \A v \in D \ {w} : ~DeskAt(v, "issue")'
  PROVE  OneHeir'
<1>1. /\ \A u, v \in DOMAIN tokens :
           u # v /\ tokens[u].parent # 0 => tokens[u].parent # tokens[v].parent
      /\ \A u \in DOMAIN tokens : tokens[u].parent # 0 =>
           tokens[u].parent \in DOMAIN tokens /\ tokens[tokens[u].parent].revoked
  BY DEF SessionsInv, TokensInv, OneHeir
<1>2. /\ \A u, v \in DOMAIN tokens' :
           u # v /\ tokens'[u].parent # 0 => tokens'[u].parent # tokens'[v].parent
      /\ \A u \in DOMAIN tokens' : tokens'[u].parent # 0 =>
           tokens'[u].parent \in DOMAIN tokens' /\ tokens'[tokens'[u].parent].revoked
  BY <1>1 DEF TokensStay
<1>3. \A t : Childless(t)' <=> Childless(t)
  BY DEF Childless, TokensStay
<1>4. \A w \in AuthDesks : DeskAt(w, "exchange")' => authDesk'[w].t \in DOMAIN tokens'
  BY DEF SessionsInv, TokensInv, OneHeir, OthersWait, DeskAt
<1>5. ASSUME NEW w \in AuthDesks, DeskAt(w, "issue")', authDesk'[w].t # 0
      PROVE  /\ authDesk'[w].t \in DOMAIN tokens' /\ tokens'[authDesk'[w].t].revoked
             /\ Childless(authDesk[w].t)'
             /\ \A v \in AuthDesks \ {w} : DeskAt(v, "issue")' => authDesk'[v].t # authDesk'[w].t
  <2>1. CASE w \in D
    <3>1. /\ authDesk'[w].t \in DOMAIN tokens' /\ tokens'[authDesk'[w].t].revoked
          /\ Childless(authDesk'[w].t)
          /\ \A v \in AuthDesks \ {w} : DeskAt(v, "issue") => authDesk[v].t # authDesk'[w].t
          /\ \A v \in D \ {w} : ~DeskAt(v, "issue")'
      BY <1>5, <2>1
    <3>2. Childless(authDesk[w].t)'
      BY <3>1 DEF Childless, TokensStay
    <3> QED
      BY <3>1, <3>2 DEF OthersWait, DeskAt
  <2>2. CASE w \notin D
    <3>1. authDesk'[w] = authDesk[w] /\ DeskAt(w, "issue") /\ authDesk[w].t # 0
      BY <1>5, <2>2 DEF OthersWait, DeskAt
    <3>2. /\ authDesk[w].t \in DOMAIN tokens /\ tokens[authDesk[w].t].revoked
          /\ Childless(authDesk[w].t)
          /\ \A v \in AuthDesks \ {w} : DeskAt(v, "issue") => authDesk[v].t # authDesk[w].t
      BY <3>1 DEF SessionsInv, TokensInv, OneHeir
    <3>3. Childless(authDesk[w].t)'
      BY <3>1, <3>2 DEF Childless, TokensStay
    <3>4. ASSUME NEW v \in AuthDesks \ {w}, DeskAt(v, "issue")'
          PROVE  authDesk'[v].t # authDesk'[w].t
      <4>1. CASE v \in D
        <5>1. \/ authDesk'[v].t = 0
              \/ \A x \in AuthDesks \ {v} : DeskAt(x, "issue") => authDesk[x].t # authDesk'[v].t
          BY <3>4, <4>1
        <5> QED
          BY <3>1, <5>1
      <4>2. CASE v \notin D
        BY <3>1, <3>2, <3>4, <4>2 DEF OthersWait, DeskAt
      <4> QED
        BY <4>1, <4>2
    <3> QED
      BY <3>1, <3>2, <3>3, <3>4 DEF TokensStay
  <2> QED
    BY <2>1, <2>2
<1> QED
  BY <1>2, <1>4, <1>5 DEF OneHeir

\* Tokens may be revoked while the requests of D move, as long as none of them
\* leaves a pruning undone.
LEMMA DoomStands ==
  ASSUME SessionsInv, TokensStay, DOMAIN tokens' = DOMAIN tokens,
         NEW D \in SUBSET AuthDesks, OthersWait(D), restarts' = restarts,
         \A w \in D : DeskAt(w, "prune") => DeskAt(w, "prune")',
         \A w \in D : DeskAt(w, "pruneSave") =>
           \A t \in authDesk[w].stale \cap DOMAIN tokens : tokens'[t].revoked
  PROVE  OverflowIsDoomed'
<1> SUFFICES ASSUME restarts = 0, \A w \in AuthDesks : ~DeskAt(w, "prune")'
             PROVE  Cardinality((LiveTokens \ Doomed)') <= MaxLive
  BY DEF OverflowIsDoomed
<1>1. \A w \in AuthDesks : ~DeskAt(w, "prune")
  BY DEF OthersWait, DeskAt
<1>2. Cardinality(LiveTokens \ Doomed) <= MaxLive
  BY <1>1 DEF SessionsInv, TokensInv, OverflowIsDoomed
<1>3. (LiveTokens \ Doomed)' \in SUBSET (LiveTokens \ Doomed)
  <2>1. LiveTokens' \subseteq LiveTokens
    BY DEF LiveTokens, TokensStay
  <2>2. ASSUME NEW t \in LiveTokens', t \in Doomed PROVE t \in Doomed'
    <3>1. PICK w \in AuthDesks : DeskAt(w, "pruneSave") /\ t \in authDesk[w].stale
      BY <2>2 DEF Doomed
    <3>2. t \in DOMAIN tokens /\ ~tokens'[t].revoked
      BY <2>2 DEF LiveTokens
    <3>3. w \notin D
      BY <3>1, <3>2
    <3> QED
      BY <3>1, <3>2, <3>3 DEF Doomed, DeskAt, OthersWait
  <2> QED
    BY <2>1, <2>2
<1>4. IsFiniteSet(LiveTokens \ Doomed)
  BY CodesAreFinite, FS_Subset DEF SessionsInv
<1> QED
  BY <1>2, <1>3, <1>4, FewerOf, SessionsAssumption

\* Revoking leaves no session of an older password alive.
LEMMA ResetStands ==
  ASSUME SessionsInv, TokensStay, DOMAIN tokens' = DOMAIN tokens, account'.pw = account.pw
  PROVE  ResetEndsSessions'
BY DEF SessionsInv, TokensInv, ResetEndsSessions, LiveTokens, TokensStay

\* A set of numbers has a least one.
LEMMA LeastOf ==
  ASSUME NEW T \in SUBSET Nat, T # {}
  PROVE  \E m \in T : \A t \in T : m <= t
<1>1. \E m \in T : \A t \in T : ~(<<t, m>> \in OpToRel(<, Nat))
  BY NatLessThanWellFounded, WFMin
<1>2. \A x, y \in Nat : x < y => <<x, y>> \in OpToRel(<, Nat)
  BY DEF OpToRel
<1>3. PICK m \in T : \A t \in T : ~(<<t, m>> \in OpToRel(<, Nat))
  BY <1>1
<1>4. ASSUME NEW t \in T PROVE m <= t
  <2>1. ~(t < m) /\ t \in Nat /\ m \in Nat
    BY <1>2, <1>3
  <2> QED
    BY <2>1
<1> QED
  BY <1>4

\* Of a finite set of numbers, no more than n have fewer than n above them.
LEMMA NewestAreFew ==
  ASSUME NEW L \in SUBSET Nat, IsFiniteSet(L), NEW n \in Nat, NEW K,
         K = {t \in L : ~(Cardinality({u \in L : u > t}) >= n)}
  PROVE  Cardinality(K) <= n
<1>1. K \subseteq L /\ IsFiniteSet(K)
  BY FS_Subset
<1>2. CASE K = {}
  <2>1. Cardinality(K) = 0
    BY <1>2, FS_EmptySet
  <2> HIDE <1>2
  <2> QED
    BY <2>1
<1>3. CASE K # {}
  <2>1. PICK m \in K : \A t \in K : m <= t
    BY <1>1, <1>3, LeastOf
  <2>2. PICK N : N = {u \in L : u > m}
    OBVIOUS
  <2>3. IsFiniteSet(N) /\ Cardinality(N) \in Nat
    BY <2>2, FS_Subset, FS_CardinalityType
  <2>4. Cardinality(N) < n
    BY <2>1, <2>2, <2>3
  <2>5. K \in SUBSET (N \cup {m})
    <3>1. ASSUME NEW t \in K PROVE t \in N \cup {m}
      <4>1. t \in L /\ t \in Nat /\ m \in Nat /\ m <= t
        BY <1>1, <2>1
      <4> QED
        BY <2>2, <4>1
    <3> QED
      BY <3>1
  <2> QED
    BY <2>3, <2>4, <2>5, OneMoreOf
<1> QED
  BY <1>2, <1>3

\* A step of the desk w that touches neither codes nor tokens.
LEMMA DeskOnly ==
  ASSUME SessionsInv, NEW w \in AuthDesks, NEW o \in AuthRequest, DeskGoes(w, o),
         UNCHANGED <<authClock, account, codes, tokens, resets, restarts>>,
         failures' = failures,
         authDesk[w].pc \notin {"prune", "pruneSave"},
         o.pc = "exchange" => o.t \in DOMAIN tokens,
         o.pc = "issue" => o.t = 0
  PROVE  SessionsInv'
<1>1. authDesk' \in [AuthDesks -> AuthRequest] /\ authDesk'[w] = o /\ OthersWait({w})
  BY AuthDeskMoves DEF OthersWait, SessionsInv
<1>2. TokensStay /\ CodesStay
  BY DEF TokensStay, CodesStay
<1>3. CodesInv'
  BY <1>2, CodesStand
<1>4. OneHeir'
  BY <1>1, <1>2, HeirsStand DEF DeskAt
<1>5. OverflowIsDoomed'
  BY <1>1, <1>2, DoomStands DEF DeskAt
<1>6. ResetEndsSessions'
  BY <1>2, ResetStands
<1> QED
  BY <1>1, <1>3, <1>4, <1>5, <1>6 DEF SessionsInv, TokensInv, SessionsTypeOK, AuthRequest

\* A step that touches codes alone, and perhaps a desk that goes on with codes.
LEMMA CodesOnly ==
  ASSUME SessionsInv, CodesInv', codes' \in Seq(AccountOtp), Len(codes') <= MaxCodes,
         NEW D \in SUBSET AuthDesks, OthersWait(D), authDesk' \in [AuthDesks -> AuthRequest],
         \A w \in D : authDesk[w].pc \notin {"prune", "pruneSave"}
                      /\ authDesk'[w].pc # "exchange"
                      /\ (authDesk'[w].pc = "issue" => authDesk'[w].t = 0),
         account' \in [status : {"UNVERIFIED", "ACTIVE"}, pw : 0 .. MaxPasswords],
         account'.pw = account.pw, resets' \subseteq 0 .. account.pw,
         IsFiniteSet(failures'), \A f \in failures' : f \in [at : Nat, nth : Nat],
         UNCHANGED <<authClock, tokens, restarts>>
  PROVE  SessionsInv'
<1>1. TokensStay
  BY DEF TokensStay
<1>2. OneHeir'
  BY <1>1, HeirsStand DEF DeskAt
<1>3. OverflowIsDoomed'
  BY <1>1, DoomStands DEF DeskAt
<1>4. ResetEndsSessions'
  BY <1>1, ResetStands
<1> QED
  BY <1>2, <1>3, <1>4 DEF SessionsInv, TokensInv, SessionsTypeOK, AuthRequest

\* A code that is sent is a row of its table.
LEMMA NewOtpIsOne ==
  ASSUME SessionsTypeOK, NEW type \in OtpTypes
  PROVE  NewOtp(type) \in AccountOtp
BY SessionsAssumption DEF SessionsTypeOK, NewOtp, AccountOtp

\* resendOtp.
LEMMA ResendKeeps ==
  ASSUME SessionsInv, NEW type \in OtpTypes, ResendOtp(type)
  PROVE  SessionsInv'
<1> DEFINE old == Superseded(type)
           n == Len(old) + 1
<1>1. /\ ~IsOverSendLimit(type) /\ Len(codes) < MaxCodes
      /\ codes' = Append(old, NewOtp(type))
      /\ UNCHANGED <<authClock, account, tokens, resets, failures, authDesk, restarts>>
  BY DEF ResendOtp
<1>2. /\ old \in Seq(AccountOtp) /\ Len(old) = Len(codes) /\ DOMAIN old = DOMAIN codes
      /\ \A c \in DOMAIN codes :
           /\ old[c].type = codes[c].type /\ old[c].createdAt = codes[c].createdAt
           /\ old[c].accepted = codes[c].accepted /\ (codes[c].used => old[c].used)
  BY SupersededStays DEF SessionsInv
<1> HIDE DEF old
<1>3. /\ codes' \in Seq(AccountOtp) /\ Len(codes') = Len(codes) + 1
      /\ DOMAIN codes' = DOMAIN codes \cup {n} /\ codes'[n] = NewOtp(type) /\ n \notin DOMAIN codes
      /\ \A c \in DOMAIN codes : codes'[c] = old[c]
  BY <1>1, <1>2, Appended, NewOtpIsOne DEF SessionsInv
<1>4. CodesStay
  BY <1>2, <1>3 DEF CodesStay
<1>5. CodesInv'
  BY <1>1, <1>3, <1>4, SendingStands
<1>6. Len(codes') <= MaxCodes
  BY <1>1, <1>3, CodesAreFinite, SessionsAssumption DEF SessionsInv
<1>7. OthersWait({}) /\ {} \in SUBSET AuthDesks
  BY <1>1 DEF OthersWait
<1> QED
  BY <1>1, <1>3, <1>5, <1>6, <1>7, CodesOnly DEF SessionsInv, SessionsTypeOK, AuthRequest

\* forgotPassword looks at its limit.
LEMMA ForgotKeeps ==
  ASSUME SessionsInv, NEW w \in AuthDesks, ForgotPassword(w)
  PROVE  SessionsInv'
<1>1. /\ authDesk[w] = FreeAuth /\ DeskGoes(w, Step("forgot"))
      /\ UNCHANGED <<authClock, account, codes, tokens, resets, failures, restarts>>
  BY DEF ForgotPassword
<1>2. Step("forgot") \in AuthRequest /\ Step("forgot").pc = "forgot" /\ FreeAuth.pc = "free"
  BY StepShapes DEF AuthSteps
<1> QED
  BY <1>1, <1>2, DeskOnly

\* It cancels the older codes ...
LEMMA ForgotSupersedesKeeps ==
  ASSUME SessionsInv, NEW w \in AuthDesks, ForgotSupersedes(w)
  PROVE  SessionsInv'
<1>1. /\ authDesk[w].pc = "forgot" /\ DeskGoes(w, Step("forgotSave"))
      /\ codes' = Superseded("FORGOT_PASSWORD")
      /\ UNCHANGED <<authClock, account, tokens, resets, failures, restarts>>
  BY DEF ForgotSupersedes, DeskAt
<1>2. Step("forgotSave") \in AuthRequest /\ Step("forgotSave").pc = "forgotSave"
  BY StepShapes DEF AuthSteps
<1>3. /\ authDesk' \in [AuthDesks -> AuthRequest] /\ authDesk'[w] = Step("forgotSave")
      /\ OthersWait({w})
  BY <1>1, <1>2, AuthDeskMoves DEF OthersWait, SessionsInv
<1>4. /\ codes' \in Seq(AccountOtp) /\ Len(codes') = Len(codes) /\ DOMAIN codes' = DOMAIN codes
      /\ CodesStay
  BY <1>1, SupersededStays DEF CodesStay, SessionsInv, OtpTypes
<1>5. CodesInv'
  BY <1>1, <1>4, CodesStand
<1> QED
  BY <1>1, <1>2, <1>3, <1>4, <1>5, CodesOnly DEF SessionsInv, SessionsTypeOK

\* ... and saves the new one.
LEMMA ForgotSavesKeeps ==
  ASSUME SessionsInv, NEW w \in AuthDesks, ForgotSaves(w)
  PROVE  SessionsInv'
<1> DEFINE n == Len(codes) + 1
           new == NewOtp("FORGOT_PASSWORD")
<1>1. /\ authDesk[w].pc = "forgotSave" /\ DeskGoes(w, FreeAuth) /\ Len(codes) < MaxCodes
      /\ codes' = Append(codes, new)
      /\ UNCHANGED <<authClock, account, tokens, resets, failures, restarts>>
  BY DEF ForgotSaves, DeskAt
<1>2. authDesk' \in [AuthDesks -> AuthRequest] /\ authDesk'[w] = FreeAuth /\ OthersWait({w})
  BY <1>1, StepShapes, AuthDeskMoves DEF OthersWait, SessionsInv
<1>3. "FORGOT_PASSWORD" \in OtpTypes /\ new \in AccountOtp
  BY NewOtpIsOne DEF OtpTypes, SessionsInv
<1>4. /\ codes' \in Seq(AccountOtp) /\ Len(codes') = Len(codes) + 1
      /\ DOMAIN codes' = DOMAIN codes \cup {n} /\ codes'[n] = new /\ n \notin DOMAIN codes
      /\ \A c \in DOMAIN codes : codes'[c] = codes[c]
  <2> HIDE DEF new
  <2> QED
    BY <1>1, <1>3, Appended DEF SessionsInv, SessionsTypeOK
<1>5. CodesStay
  BY <1>4 DEF CodesStay
<1>6. CodesInv'
  BY <1>1, <1>3, <1>4, <1>5, SendingStands
<1>7. Len(codes') <= MaxCodes
  BY <1>1, <1>4, CodesAreFinite, SessionsAssumption DEF SessionsInv
<1>8. FreeAuth.pc = "free"
  BY StepShapes
<1>9. /\ account' \in [status : {"UNVERIFIED", "ACTIVE"}, pw : 0 .. MaxPasswords]
      /\ account'.pw = account.pw /\ resets' \subseteq 0 .. account.pw
      /\ IsFiniteSet(failures') /\ \A f \in failures' : f \in [at : Nat, nth : Nat]
      /\ UNCHANGED <<authClock, tokens, restarts>>
  BY <1>1 DEF SessionsInv, SessionsTypeOK
<1>10. /\ authDesk[w].pc \notin {"prune", "pruneSave"} /\ authDesk'[w].pc = "free"
       /\ codes' \in Seq(AccountOtp)
  BY <1>1, <1>2, <1>4, <1>8
<1> HIDE DEF new
<1> QED
  BY <1>2, <1>6, <1>7, <1>9, <1>10, CodesOnly

\* A wrong guess is remembered; the limit leaves room for it.
LEMMA WrongGuessKeeps ==
  ASSUME SessionsInv, Cardinality(Pruned) < VerifyLimit,
         NEW guess \in [at : Nat, nth : Nat], failures' = Pruned \cup {guess},
         UNCHANGED <<authClock, account, codes, tokens, resets, authDesk, restarts>>
  PROVE  SessionsInv'
<1>1. IsFiniteSet(Pruned)
  BY CodesAreFinite DEF SessionsInv
<1>4. IsFiniteSet(failures') /\ \A f \in failures' : f \in [at : Nat, nth : Nat]
  <2>1. IsFiniteSet(Pruned \cup {guess})
    BY <1>1, FS_AddElement
  <2> QED
    BY <2>1 DEF SessionsInv, SessionsTypeOK, Pruned
<1>5. Pruned' \in SUBSET (Pruned \cup {guess})
  BY DEF Pruned
<1>6. Cardinality(Pruned') <= VerifyLimit
  BY <1>1, <1>5, OneMoreOf, SessionsAssumption
<1>7. CodesInv'
  BY <1>6 DEF SessionsInv, CodesInv, WithinLimits, ResetsRestOnCodes, Accepted,
              PasswordChangesAreProven
<1>8. OthersWait({}) /\ {} \in SUBSET AuthDesks
  BY DEF OthersWait
<1>9. /\ codes' \in Seq(AccountOtp) /\ Len(codes') <= MaxCodes
      /\ account' \in [status : {"UNVERIFIED", "ACTIVE"}, pw : 0 .. MaxPasswords]
      /\ account'.pw = account.pw /\ resets' \subseteq 0 .. account.pw
      /\ authDesk' \in [AuthDesks -> AuthRequest]
  BY DEF SessionsInv, SessionsTypeOK, AuthRequest
<1>10. UNCHANGED <<authClock, tokens, restarts>>
  OBVIOUS
<1> QED
  BY <1>4, <1>7, <1>8, <1>9, <1>10, CodesOnly

\* A right one uses up its code, the older ones of an activation, and nothing
\* that was accepted before.
LEMMA RightGuessKeeps ==
  ASSUME SessionsInv, NEW w \in AuthDesks, NEW type \in OtpTypes, NEW c \in DOMAIN codes,
         VerifyOtp(w, type, c), CurrentOtp(type, c), Accepts(c)
  PROVE  SessionsInv'
<1> DEFINE register == type = "REGISTER"
           next == IF register THEN Step("issue") ELSE FreeAuth
<1>1. /\ authDesk[w] = FreeAuth /\ failures' = {}
      /\ codes' = [d \in DOMAIN codes |->
           IF d = c THEN [codes[d] EXCEPT !.used = TRUE, !.accepted = TRUE]
           ELSE IF register /\ codes[d].type = type
           THEN [codes[d] EXCEPT !.used = TRUE] ELSE codes[d]]
      /\ account' = (IF register THEN [account EXCEPT !.status = "ACTIVE"] ELSE account)
      /\ resets' = (IF register THEN resets ELSE resets \cup {account.pw})
      /\ DeskGoes(w, next)
      /\ UNCHANGED <<authClock, tokens, restarts>>
  BY DEF VerifyOtp
<1>2. codes[c].type = type /\ ~codes[c].used
  BY DEF CurrentOtp, OpenOtps
<1>3. \A d \in DOMAIN codes : codes[d] \in AccountOtp
  BY DEF SessionsInv, SessionsTypeOK
<1>4. \A d \in DOMAIN codes :
        /\ codes'[d] \in AccountOtp
        /\ codes'[d].type = codes[d].type /\ codes'[d].createdAt = codes[d].createdAt
        /\ (codes[d].used => codes'[d].used)
        /\ d # c => codes'[d].accepted = codes[d].accepted
        /\ d = c => codes'[d].accepted /\ codes'[d].used
  BY <1>1, <1>3 DEF AccountOtp
<1>5. codes' \in Seq(AccountOtp) /\ Len(codes') = Len(codes) /\ DOMAIN codes' = DOMAIN codes
  <2>1. codes \in Seq(AccountOtp)
    BY DEF SessionsInv, SessionsTypeOK
  <2>2. codes' = [d \in DOMAIN codes |-> codes'[d]]
    BY <1>1
  <2> QED
    BY <1>4, <2>1, <2>2, Rewritten
<1>6. /\ account.pw \in Nat /\ account.pw \in 0 .. MaxPasswords
      /\ account' \in [status : {"UNVERIFIED", "ACTIVE"}, pw : 0 .. MaxPasswords]
      /\ account'.pw = account.pw /\ resets' \subseteq 0 .. account.pw
  <2>1. account \in [status : {"UNVERIFIED", "ACTIVE"}, pw : 0 .. MaxPasswords]
        /\ resets \subseteq 0 .. account.pw
    BY DEF SessionsInv, SessionsTypeOK
  <2>2. account.pw \in 0 .. MaxPasswords /\ account.pw \in Nat
    BY <2>1, SessionsAssumption
  <2>3. [account EXCEPT !.status = "ACTIVE"]
          \in [status : {"UNVERIFIED", "ACTIVE"}, pw : 0 .. MaxPasswords]
        /\ [account EXCEPT !.status = "ACTIVE"].pw = account.pw
    BY <2>1
  <2>4. account.pw \in 0 .. account.pw
    BY <2>2
  <2>5. resets' \subseteq 0 .. account.pw
    BY <1>1, <2>1, <2>4
  <2>6. account' \in [status : {"UNVERIFIED", "ACTIVE"}, pw : 0 .. MaxPasswords]
        /\ account'.pw = account.pw
    BY <1>1, <2>1, <2>3
  <2> QED
    BY <2>2, <2>5, <2>6
<1>7. next \in AuthRequest /\ next.pc \in {"free", "issue"} /\ next.t = 0 /\ FreeAuth.pc = "free"
  BY StepShapes DEF AuthSteps
<1> HIDE DEF next
<1>8. authDesk' \in [AuthDesks -> AuthRequest] /\ authDesk'[w] = next /\ OthersWait({w})
  BY <1>1, <1>7, AuthDeskMoves DEF OthersWait, SessionsInv
<1>9. ~codes[c].accepted /\ c \notin Accepted
  BY <1>2 DEF SessionsInv, CodesInv, ResetsRestOnCodes, Accepted
<1>10. Accepted' = IF register THEN Accepted ELSE Accepted \cup {c}
  BY <1>2, <1>4, <1>5 DEF Accepted, OtpTypes
<1>11. IsFiniteSet(Accepted) /\ Cardinality(Accepted) \in Nat
  BY CodesAreFinite, FS_CardinalityType DEF SessionsInv
<1>12. Cardinality(Accepted')
         = IF register THEN Cardinality(Accepted) ELSE Cardinality(Accepted) + 1
  BY <1>9, <1>10, <1>11, FS_AddElement
<1>13. account.pw <= Cardinality(Accepted)
       /\ (account.pw \in resets => account.pw + 1 <= Cardinality(Accepted))
  BY DEF SessionsInv, CodesInv, ResetsRestOnCodes, PasswordChangesAreProven, Accepted
<1>14. ResetsRestOnCodes'
  <2>1. \A d \in DOMAIN codes' : codes'[d].accepted => codes'[d].used
    BY <1>4, <1>5 DEF SessionsInv, CodesInv, ResetsRestOnCodes
  <2>2. \A d \in DOMAIN codes' : codes'[d].createdAt <= authClock'
    <3>1. \A d \in DOMAIN codes : codes[d].createdAt <= authClock
      BY DEF SessionsInv, CodesInv, ResetsRestOnCodes
    <3> QED
      BY <1>1, <1>4, <1>5, <3>1
  <2>3. account'.pw \in resets' => account'.pw + 1 <= Cardinality(Accepted')
    <3>1. CASE register
      BY <1>1, <1>6, <1>12, <1>13, <3>1
    <3>2. CASE ~register
      BY <1>6, <1>11, <1>12, <1>13, <3>2
    <3> QED
      BY <3>1, <3>2
  <2> QED
    BY <2>1, <2>2, <2>3 DEF ResetsRestOnCodes
<1>15. PasswordChangesAreProven'
  <2>1. account'.pw <= Cardinality(Accepted')
    BY <1>6, <1>11, <1>12, <1>13
  <2> QED
    BY <2>1 DEF PasswordChangesAreProven, Accepted
<1>16. WithinLimits'
  <2>1. \A at : Sent(at)' = Sent(at)
    BY <1>4, <1>5 DEF Sent
  <2>2. Pruned' = {}
    BY <1>1 DEF Pruned
  <2>3. Cardinality(Pruned') <= VerifyLimit
    BY <2>2, FS_EmptySet, SessionsAssumption
  <2> QED
    BY <1>1, <2>1, <2>3 DEF SessionsInv, CodesInv, WithinLimits, Sent
<1>17. CodesInv'
  BY <1>14, <1>15, <1>16 DEF CodesInv
<1>18. IsFiniteSet(failures') /\ \A f \in failures' : f \in [at : Nat, nth : Nat]
  BY <1>1, FS_EmptySet
<1>19. Len(codes') <= MaxCodes
  BY <1>5 DEF SessionsInv, SessionsTypeOK
<1> QED
  BY <1>1, <1>5, <1>6, <1>7, <1>8, <1>17, <1>18, <1>19, CodesOnly

\* verifyOtp.
LEMMA VerifyingKeeps ==
  ASSUME SessionsInv, NEW w \in AuthDesks, NEW type \in OtpTypes, NEW c, VerifyOtp(w, type, c)
  PROVE  SessionsInv'
<1>1. CASE CurrentOtp(type, c) /\ Accepts(c)
  BY <1>1, RightGuessKeeps DEF CurrentOtp, OpenOtps
<1>2. CASE ~(CurrentOtp(type, c) /\ Accepts(c))
  <2> DEFINE guess == [at |-> authClock, nth |-> Cardinality(Pruned)]
  <2>1. /\ Cardinality(Pruned) < VerifyLimit /\ failures' = Pruned \cup {guess}
        /\ UNCHANGED <<authClock, account, codes, tokens, resets, authDesk, restarts>>
    BY <1>2 DEF VerifyOtp
  <2>2. guess \in [at : Nat, nth : Nat]
    BY CodesAreFinite, FS_CardinalityType, SessionsAssumption DEF SessionsInv, SessionsTypeOK
  <2> HIDE DEF guess
  <2> QED
    BY <2>1, <2>2, WrongGuessKeeps
<1> QED
  BY <1>1, <1>2

\* A step that touches tokens and a desk, but no codes.
LEMMA TokensOnly ==
  ASSUME SessionsInv, TokensInv', tokens' \in Seq(AccountRefreshToken), Len(tokens') <= MaxTokens,
         authDesk' \in [AuthDesks -> AuthRequest],
         UNCHANGED <<authClock, account, codes, resets, failures, restarts>>
  PROVE  SessionsInv'
<1>1. CodesStay
  BY DEF CodesStay
<1>2. CodesInv'
  BY <1>1, CodesStand
<1> QED
  BY <1>2 DEF SessionsInv, SessionsTypeOK, AuthRequest

\* Revoking some tokens changes nothing else of them.
LEMMA RevokedStays ==
  ASSUME SessionsTypeOK, NEW S,
         tokens' = [t \in DOMAIN tokens |->
                      IF t \in S THEN [tokens[t] EXCEPT !.revoked = TRUE] ELSE tokens[t]]
  PROVE  /\ tokens' \in Seq(AccountRefreshToken) /\ Len(tokens') = Len(tokens)
         /\ DOMAIN tokens' = DOMAIN tokens /\ TokensStay
         /\ \A t \in DOMAIN tokens : t \in S => tokens'[t].revoked
<1>1. /\ tokens \in Seq(AccountRefreshToken)
      /\ \A t \in DOMAIN tokens : tokens[t] \in AccountRefreshToken
  BY DEF SessionsTypeOK
<1>2. \A t \in DOMAIN tokens :
        /\ tokens'[t] \in AccountRefreshToken
        /\ tokens'[t].parent = tokens[t].parent /\ tokens'[t].pw = tokens[t].pw
        /\ (tokens[t].revoked => tokens'[t].revoked) /\ (t \in S => tokens'[t].revoked)
  BY <1>1 DEF AccountRefreshToken
<1>3. tokens' = [t \in DOMAIN tokens |-> tokens'[t]]
  OBVIOUS
<1>4. /\ tokens' \in Seq(AccountRefreshToken)
      /\ Len(tokens') = Len(tokens) /\ DOMAIN tokens' = DOMAIN tokens
  BY <1>1, <1>2, <1>3, Rewritten
<1> QED
  BY <1>2, <1>4 DEF TokensStay

\* resetPassword: the code that the reset token rests on is consumed, and no
\* reset token is for the new password yet.
LEMMA ResettingKeeps ==
  ASSUME SessionsInv, NEW pw \in resets, ResetPassword(pw)
  PROVE  SessionsInv'
<1>1. /\ account.pw \in resets /\ account.pw < MaxPasswords
      /\ account' = [account EXCEPT !.pw = @ + 1]
      /\ codes' = Superseded("FORGOT_PASSWORD")
      /\ tokens' = [t \in DOMAIN tokens |-> [tokens[t] EXCEPT !.revoked = TRUE]]
      /\ UNCHANGED <<authClock, resets, failures, authDesk, restarts>>
  BY DEF ResetPassword
<1>2. /\ account \in [status : {"UNVERIFIED", "ACTIVE"}, pw : 0 .. MaxPasswords]
      /\ resets \subseteq 0 .. account.pw /\ account.pw \in Nat
  BY SessionsAssumption DEF SessionsInv, SessionsTypeOK
<1>3. account' \in [status : {"UNVERIFIED", "ACTIVE"}, pw : 0 .. MaxPasswords]
      /\ account'.pw = account.pw + 1
  <2>1. account.pw + 1 \in 0 .. MaxPasswords
    BY <1>1, <1>2, SessionsAssumption
  <2> QED
    BY <1>1, <1>2, <2>1
<1>4. resets' \subseteq 0 .. account'.pw /\ account'.pw \notin resets'
  BY <1>1, <1>2, <1>3
<1>5. /\ codes' \in Seq(AccountOtp) /\ Len(codes') = Len(codes) /\ DOMAIN codes' = DOMAIN codes
      /\ CodesStay
  BY <1>1, SupersededStays DEF CodesStay, SessionsInv, OtpTypes
<1>6. tokens' = [t \in DOMAIN tokens |->
                   IF t \in DOMAIN tokens THEN [tokens[t] EXCEPT !.revoked = TRUE] ELSE tokens[t]]
  BY <1>1
<1>7. /\ tokens' \in Seq(AccountRefreshToken) /\ Len(tokens') = Len(tokens)
      /\ DOMAIN tokens' = DOMAIN tokens /\ TokensStay
      /\ \A t \in DOMAIN tokens : tokens'[t].revoked
  BY <1>6, RevokedStays DEF SessionsInv
<1>8. Accepted' = Accepted /\ \A at : Sent(at)' = Sent(at)
  BY <1>5 DEF Accepted, Sent, CodesStay
<1>9. ResetsRestOnCodes'
  BY <1>1, <1>4, <1>5, <1>8 DEF SessionsInv, CodesInv, ResetsRestOnCodes, CodesStay
<1>10. PasswordChangesAreProven'
  <2>1. account.pw + 1 <= Cardinality(Accepted)
    BY <1>1 DEF SessionsInv, CodesInv, ResetsRestOnCodes
  <2>2. account'.pw <= Cardinality(Accepted')
    BY <1>3, <1>8, <2>1
  <2> QED
    BY <2>2 DEF PasswordChangesAreProven, Accepted
<1>11. WithinLimits'
  BY <1>1, <1>8 DEF SessionsInv, CodesInv, WithinLimits, Sent, Pruned
<1>12. OthersWait({}) /\ {} \in SUBSET AuthDesks
  BY <1>1 DEF OthersWait
<1>13. OneHeir'
  BY <1>7, <1>12, HeirsStand
<1>14. OverflowIsDoomed'
  BY <1>1, <1>7, <1>12, DoomStands
<1>15. ResetEndsSessions'
  BY <1>7 DEF ResetEndsSessions, LiveTokens
<1> QED
  BY <1>1, <1>3, <1>4, <1>5, <1>7, <1>9, <1>10, <1>11, <1>13, <1>14, <1>15
     DEF SessionsInv, CodesInv, TokensInv, SessionsTypeOK

\* login found the password right.
LEMMA LoginKeeps ==
  ASSUME SessionsInv, NEW w \in AuthDesks, Login(w)
  PROVE  SessionsInv'
<1>1. /\ authDesk[w] = FreeAuth /\ DeskGoes(w, Step("issue"))
      /\ UNCHANGED <<authClock, account, codes, tokens, resets, failures, restarts>>
  BY DEF Login
<1>2. /\ Step("issue") \in AuthRequest /\ Step("issue").pc = "issue" /\ Step("issue").t = 0
      /\ FreeAuth.pc = "free"
  BY StepShapes DEF AuthSteps
<1> QED
  BY <1>1, <1>2, DeskOnly

\* refreshToken looks up a token.
LEMMA RefreshKeeps ==
  ASSUME SessionsInv, NEW w \in AuthDesks, NEW t \in DOMAIN tokens, RefreshToken(w, t)
  PROVE  SessionsInv'
<1> DEFINE o == [Step("exchange") EXCEPT !.t = t]
<1>1. /\ authDesk[w] = FreeAuth /\ DeskGoes(w, o)
      /\ UNCHANGED <<authClock, account, codes, tokens, resets, failures, restarts>>
  BY DEF RefreshToken
<1>2. t \in Nat
  BY CodesAreFinite DEF SessionsInv
<1>3. o \in AuthRequest /\ o.pc = "exchange" /\ o.t = t /\ FreeAuth.pc = "free"
  BY <1>2, StepShapes DEF AuthSteps
<1> HIDE DEF o
<1> QED
  BY <1>1, <1>3, DeskOnly

\* The successor is saved: its parent had none, and no other request saves one.
LEMMA IssuingKeeps ==
  ASSUME SessionsInv, NEW w \in AuthDesks, IssueToken(w)
  PROVE  SessionsInv'
<1> DEFINE n == Len(tokens) + 1
           p == authDesk[w].t
           new == [revoked |-> FALSE, parent |-> p, pw |-> account.pw]
<1>1. /\ authDesk[w].pc = "issue" /\ DeskGoes(w, Step("prune")) /\ Len(tokens) < MaxTokens
      /\ tokens' = Append(tokens, new)
      /\ UNCHANGED <<authClock, account, codes, resets, failures, restarts>>
  BY DEF IssueToken, DeskAt
<1>2. p \in Nat /\ account.pw \in Nat
  BY SessionsAssumption DEF SessionsInv, SessionsTypeOK
<1>3. /\ new \in AccountRefreshToken /\ ~new.revoked /\ new.parent = p /\ new.pw = account.pw
  BY <1>2 DEF AccountRefreshToken
<1> HIDE DEF new
<1>4. Step("prune") \in AuthRequest /\ Step("prune").pc = "prune"
  BY StepShapes DEF AuthSteps
<1>5. authDesk' \in [AuthDesks -> AuthRequest] /\ authDesk'[w] = Step("prune") /\ OthersWait({w})
  BY <1>1, <1>4, AuthDeskMoves DEF OthersWait, SessionsInv
<1>6. /\ tokens' \in Seq(AccountRefreshToken) /\ Len(tokens') = n
      /\ DOMAIN tokens = 1 .. Len(tokens) /\ Len(tokens) \in Nat
      /\ DOMAIN tokens' = DOMAIN tokens \cup {n} /\ tokens'[n] = new
      /\ \A t \in DOMAIN tokens : tokens'[t] = tokens[t]
  BY <1>1, <1>3, Appended DEF SessionsInv, SessionsTypeOK
<1>7. n \notin DOMAIN tokens /\ 0 \notin DOMAIN tokens
  BY <1>6
<1>8. p # 0 => /\ p \in DOMAIN tokens /\ tokens[p].revoked /\ Childless(p)
               /\ \A v \in AuthDesks \ {w} : DeskAt(v, "issue") => authDesk[v].t # p
  BY <1>1 DEF SessionsInv, TokensInv, OneHeir, DeskAt
<1>9. /\ \A u, v \in DOMAIN tokens :
           u # v /\ tokens[u].parent # 0 => tokens[u].parent # tokens[v].parent
      /\ \A u \in DOMAIN tokens : tokens[u].parent # 0 =>
           tokens[u].parent \in DOMAIN tokens /\ tokens[tokens[u].parent].revoked
  BY DEF SessionsInv, TokensInv, OneHeir
<1>10. OneHeir'
  <2>1. \A u, v \in DOMAIN tokens' :
          u # v /\ tokens'[u].parent # 0 => tokens'[u].parent # tokens'[v].parent
    BY <1>3, <1>6, <1>7, <1>8, <1>9 DEF Childless
  <2>2. \A u \in DOMAIN tokens' : tokens'[u].parent # 0 =>
           tokens'[u].parent \in DOMAIN tokens' /\ tokens'[tokens'[u].parent].revoked
    BY <1>3, <1>6, <1>8, <1>9
  <2>3. ASSUME NEW v \in AuthDesks, DeskAt(v, "exchange")'
        PROVE  authDesk'[v].t \in DOMAIN tokens'
    <3>1. v # w /\ authDesk'[v] = authDesk[v] /\ DeskAt(v, "exchange")
      BY <1>4, <1>5, <2>3 DEF DeskAt, OthersWait
    <3>2. authDesk[v].t \in DOMAIN tokens
      BY <3>1 DEF SessionsInv, TokensInv, OneHeir
    <3> QED
      BY <1>6, <3>1, <3>2
  <2>4. ASSUME NEW v \in AuthDesks, DeskAt(v, "issue")', authDesk'[v].t # 0
        PROVE  /\ authDesk'[v].t \in DOMAIN tokens' /\ tokens'[authDesk'[v].t].revoked
               /\ Childless(authDesk[v].t)'
               /\ \A x \in AuthDesks \ {v} : DeskAt(x, "issue")' => authDesk'[x].t # authDesk'[v].t
    <3>1. v # w /\ authDesk'[v] = authDesk[v] /\ DeskAt(v, "issue")
      BY <1>4, <1>5, <2>4 DEF DeskAt, OthersWait
    <3>2. /\ authDesk[v].t \in DOMAIN tokens /\ tokens[authDesk[v].t].revoked
          /\ Childless(authDesk[v].t)
          /\ \A x \in AuthDesks \ {v} : DeskAt(x, "issue") => authDesk[x].t # authDesk[v].t
      BY <2>4, <3>1 DEF SessionsInv, TokensInv, OneHeir
    <3>3. p # authDesk[v].t
      BY <1>1, <3>1, <3>2 DEF DeskAt
    <3>4. Childless(authDesk[v].t)'
      BY <1>3, <1>6, <3>1, <3>2, <3>3 DEF Childless
    <3>5. \A x \in AuthDesks \ {v} : DeskAt(x, "issue")' => authDesk'[x].t # authDesk'[v].t
      BY <1>4, <1>5, <3>1, <3>2 DEF DeskAt, OthersWait
    <3> QED
      BY <1>6, <3>1, <3>2, <3>4, <3>5
  <2> QED
    BY <2>1, <2>2, <2>3, <2>4 DEF OneHeir
<1>11. ResetEndsSessions'
  BY <1>1, <1>3, <1>6 DEF SessionsInv, TokensInv, ResetEndsSessions, LiveTokens
<1>12. OverflowIsDoomed'
  BY <1>4, <1>5 DEF OverflowIsDoomed, DeskAt
<1>13. Len(tokens') <= MaxTokens
  BY <1>1, <1>6, SessionsAssumption
<1> QED
  BY <1>1, <1>5, <1>6, <1>10, <1>11, <1>12, <1>13, TokensOnly DEF TokensInv

\* What is over the limit is found: the newest ones that are left are few.
LEMMA RevokingKeeps ==
  ASSUME SessionsInv, NEW w \in AuthDesks, RevokeStale(w)
  PROVE  SessionsInv'
<1>1. PICK S : S = {t \in LiveTokens : Cardinality({u \in LiveTokens : u > t}) >= MaxLive}
  OBVIOUS
<1> DEFINE o == [Step("pruneSave") EXCEPT !.stale = S]
<1>2. /\ authDesk[w].pc = "prune" /\ DeskGoes(w, o)
      /\ UNCHANGED <<authClock, account, codes, tokens, resets, failures, restarts>>
  BY <1>1 DEF RevokeStale, DeskAt
<1>3. LiveTokens \in SUBSET Nat /\ IsFiniteSet(LiveTokens) /\ LiveTokens \subseteq DOMAIN tokens
  BY CodesAreFinite DEF SessionsInv, LiveTokens
<1>4. o \in AuthRequest /\ o.pc = "pruneSave" /\ o.stale = S
  <2>1. S \in SUBSET Nat
    BY <1>1, <1>3
  <2> QED
    BY <2>1, StepShapes DEF AuthSteps
<1> HIDE DEF o
<1>5. authDesk' \in [AuthDesks -> AuthRequest] /\ authDesk'[w] = o /\ OthersWait({w})
  BY <1>2, <1>4, AuthDeskMoves DEF OthersWait, SessionsInv
<1>6. TokensStay /\ LiveTokens' = LiveTokens
  BY <1>2 DEF TokensStay, LiveTokens
<1>7. OneHeir'
  BY <1>2, <1>4, <1>5, <1>6, HeirsStand DEF DeskAt
<1>8. ResetEndsSessions'
  BY <1>2, <1>6, ResetStands
<1>9. OverflowIsDoomed'
  <2>1. PICK K : K = {t \in LiveTokens : ~(Cardinality({u \in LiveTokens : u > t}) >= MaxLive)}
    OBVIOUS
  <2>2. Cardinality(K) <= MaxLive /\ IsFiniteSet(K)
    <3>1. Cardinality(K) <= MaxLive
      BY <1>3, <2>1, NewestAreFew, SessionsAssumption
    <3> QED
      BY <1>3, <2>1, <3>1, FS_Subset
  <2>3. S \subseteq Doomed'
    BY <1>1, <1>2, <1>3, <1>4, <1>5 DEF Doomed, DeskAt
  <2>4. (LiveTokens \ Doomed)' \in SUBSET K
    BY <1>1, <1>6, <2>1, <2>3
  <2> QED
    BY <2>2, <2>4, FewerOf, SessionsAssumption DEF OverflowIsDoomed
<1> QED
  BY <1>2, <1>5, <1>7, <1>8, <1>9, TokensOnly DEF TokensInv, SessionsInv, SessionsTypeOK

\* What was found is revoked.
LEMMA RevokingSavesKeeps ==
  ASSUME SessionsInv, NEW w \in AuthDesks, RevokeStaleSaves(w)
  PROVE  SessionsInv'
<1>1. PICK S : S = authDesk[w].stale
  OBVIOUS
<1>2. /\ authDesk[w].pc = "pruneSave" /\ DeskGoes(w, FreeAuth)
      /\ tokens' = [t \in DOMAIN tokens |->
                      IF t \in S THEN [tokens[t] EXCEPT !.revoked = TRUE] ELSE tokens[t]]
      /\ UNCHANGED <<authClock, account, codes, resets, failures, restarts>>
  BY <1>1 DEF RevokeStaleSaves, DeskAt
<1>3. /\ tokens' \in Seq(AccountRefreshToken) /\ Len(tokens') = Len(tokens)
      /\ DOMAIN tokens' = DOMAIN tokens /\ TokensStay
      /\ \A t \in DOMAIN tokens : t \in S => tokens'[t].revoked
  BY <1>2, RevokedStays DEF SessionsInv
<1>4. authDesk' \in [AuthDesks -> AuthRequest] /\ authDesk'[w] = FreeAuth /\ OthersWait({w})
  BY <1>2, StepShapes, AuthDeskMoves DEF OthersWait, SessionsInv
<1>5. OneHeir'
  BY <1>3, <1>4, StepShapes, HeirsStand DEF DeskAt
<1>6. OverflowIsDoomed'
  BY <1>1, <1>2, <1>3, <1>4, DoomStands DEF DeskAt
<1>7. ResetEndsSessions'
  BY <1>2, <1>3, ResetStands
<1>8. Len(tokens') <= MaxTokens
  BY <1>3 DEF SessionsInv, SessionsTypeOK
<1> QED
  BY <1>2, <1>3, <1>4, <1>5, <1>6, <1>7, <1>8, TokensOnly DEF TokensInv

\* A token is exchanged while it lives: it has no successor, and from now on
\* this request alone has it.
LEMMA ExchangeKeeps ==
  ASSUME SessionsInv, NEW w \in AuthDesks, ExchangeToken(w)
  PROVE  SessionsInv'
<1>1. PICK t : t = authDesk[w].t
  OBVIOUS
<1>2. /\ authDesk[w].pc = "exchange"
      /\ UNCHANGED <<authClock, account, codes, resets, failures, restarts>>
  BY DEF ExchangeToken, DeskAt
<1>3. t \in DOMAIN tokens /\ t \in Nat
  BY <1>1, <1>2, CodesAreFinite DEF SessionsInv, TokensInv, OneHeir, DeskAt
<1>4. CASE t \notin LiveTokens
  <2>1. DeskGoes(w, FreeAuth) /\ UNCHANGED tokens
    BY <1>1, <1>4 DEF ExchangeToken
  <2> QED
    BY <1>2, <2>1, StepShapes, DeskOnly
<1>5. CASE t \in LiveTokens
  <2> DEFINE o == [Step("issue") EXCEPT !.t = t]
  <2>1. DeskGoes(w, o) /\ tokens' = [tokens EXCEPT ![t].revoked = TRUE]
    BY <1>1, <1>5 DEF ExchangeToken
  <2>2. o \in AuthRequest /\ o.pc = "issue" /\ o.t = t
    BY <1>3, StepShapes DEF AuthSteps
  <2> HIDE DEF o
  <2>3. authDesk' \in [AuthDesks -> AuthRequest] /\ authDesk'[w] = o /\ OthersWait({w})
    BY <2>1, <2>2, AuthDeskMoves DEF OthersWait, SessionsInv
  <2>4. tokens' = [u \in DOMAIN tokens |->
                     IF u \in {t} THEN [tokens[u] EXCEPT !.revoked = TRUE] ELSE tokens[u]]
    BY <1>3, <2>1
  <2>5. /\ tokens' \in Seq(AccountRefreshToken) /\ Len(tokens') = Len(tokens)
        /\ DOMAIN tokens' = DOMAIN tokens /\ TokensStay /\ tokens'[t].revoked
    <3>1. \A u \in DOMAIN tokens : u \in {t} => tokens'[u].revoked
      BY <2>4, RevokedStays DEF SessionsInv
    <3> QED
      BY <1>3, <2>4, <3>1, RevokedStays DEF SessionsInv
  <2>6. ~tokens[t].revoked /\ t # 0
    BY <1>5, CodesAreFinite DEF LiveTokens, SessionsInv
  <2>7. Childless(t)
    BY <2>6 DEF SessionsInv, TokensInv, OneHeir, Childless
  <2>8. \A v \in AuthDesks : DeskAt(v, "issue") => authDesk[v].t # t
    BY <2>6 DEF SessionsInv, TokensInv, OneHeir
  <2>9. OneHeir'
    BY <1>3, <2>2, <2>3, <2>5, <2>7, <2>8, HeirsStand DEF DeskAt
  <2>10. OverflowIsDoomed'
    BY <1>2, <2>3, <2>5, DoomStands DEF DeskAt
  <2>11. ResetEndsSessions'
    BY <1>2, <2>5, ResetStands
  <2>12. Len(tokens') <= MaxTokens
    BY <2>5 DEF SessionsInv, SessionsTypeOK
  <2> QED
    BY <1>2, <2>3, <2>5, <2>9, <2>10, <2>11, <2>12, TokensOnly DEF TokensInv
<1> QED
  BY <1>4, <1>5

\* Time passes: the window that ends now holds no more than the last one.
LEMMA AuthTickKeeps ==
  ASSUME SessionsInv, AuthTick
  PROVE  SessionsInv'
<1>1. /\ authClock' = authClock + 1 /\ authClock' \in 0 .. MaxAuthClock /\ authClock \in Nat
      /\ UNCHANGED <<account, codes, tokens, resets, failures, authDesk, restarts>>
  BY SessionsAssumption DEF AuthTick, SessionsInv, SessionsTypeOK
<1>2. \A c \in DOMAIN codes : codes[c].createdAt \in Nat /\ codes[c].createdAt <= authClock
  <2>1. \A c \in DOMAIN codes : codes[c] \in AccountOtp
    BY DEF SessionsInv, SessionsTypeOK
  <2> QED
    BY <2>1 DEF SessionsInv, CodesInv, ResetsRestOnCodes, AccountOtp
<1>3. ResetsRestOnCodes' /\ PasswordChangesAreProven'
  BY <1>1, <1>2 DEF SessionsInv, CodesInv, ResetsRestOnCodes, PasswordChangesAreProven, Accepted
<1>4. Cardinality(Pruned') <= VerifyLimit
  <2>1. \A f \in failures : f \in [at : Nat, nth : Nat]
    BY DEF SessionsInv, SessionsTypeOK
  <2>2. Pruned' \in SUBSET Pruned
    BY <1>1, <2>1, SessionsAssumption DEF Pruned
  <2>3. IsFiniteSet(Pruned) /\ Cardinality(Pruned) <= VerifyLimit
    BY CodesAreFinite DEF SessionsInv, CodesInv, WithinLimits
  <2> QED
    BY <2>2, <2>3, FewerOf, SessionsAssumption
<1>5. ASSUME NEW at \in 0 .. authClock' PROVE Cardinality(Sent(at)') <= SendLimit
  <2>1. Sent(at)' = Sent(at)
    BY <1>1 DEF Sent
  <2>2. \A b \in 0 .. authClock : IsFiniteSet(Sent(b)) /\ Cardinality(Sent(b)) <= SendLimit
    BY CodesAreFinite DEF SessionsInv, CodesInv, WithinLimits, Sent
  <2>3. CASE at \in 0 .. authClock
    BY <2>1, <2>2, <2>3
  <2>4. CASE at = authClock + 1
    <3>1. Sent(at) \in SUBSET Sent(authClock)
      BY <1>1, <1>2, <2>4, SessionsAssumption DEF Sent
    <3>2. authClock \in 0 .. authClock
      BY <1>1
    <3> QED
      BY <2>1, <2>2, <3>1, <3>2, FewerOf, SessionsAssumption
  <2> QED
    BY <1>1, <2>3, <2>4
<1>6. WithinLimits'
  BY <1>4, <1>5 DEF WithinLimits, Sent
<1>7. TokensInv'
  BY <1>1 DEF SessionsInv, TokensInv, OneHeir, Childless, DeskAt, ResetEndsSessions, LiveTokens,
              OverflowIsDoomed, Doomed
<1> QED
  BY <1>1, <1>3, <1>6, <1>7 DEF SessionsInv, CodesInv, SessionsTypeOK

\* A restart forgets the requests and the guesses.
LEMMA AuthRestartKeeps ==
  ASSUME SessionsInv, AuthRestart
  PROVE  SessionsInv'
<1>1. /\ restarts' = restarts + 1 /\ restarts \in Nat /\ failures' = {}
      /\ authDesk' = [w \in AuthDesks |-> FreeAuth]
      /\ UNCHANGED <<authClock, account, codes, tokens, resets>>
  BY DEF AuthRestart, SessionsInv, SessionsTypeOK
<1>2. authDesk' \in [AuthDesks -> AuthRequest] /\ \A w \in AuthDesks : authDesk'[w].pc = "free"
  BY <1>1, StepShapes
<1>3. TokensStay /\ CodesStay
  BY <1>1 DEF TokensStay, CodesStay
<1>4. CodesInv'
  BY <1>1, <1>3, CodesStand
<1>5. OthersWait(AuthDesks)
  BY DEF OthersWait
<1>6. OneHeir'
  BY <1>1, <1>2, <1>3, <1>5, HeirsStand DEF DeskAt
<1>7. ResetEndsSessions'
  BY <1>1, <1>3, ResetStands
<1>8. OverflowIsDoomed'
  BY <1>1 DEF OverflowIsDoomed
<1>9. IsFiniteSet(failures')
  BY <1>1, FS_EmptySet
<1> QED
  BY <1>1, <1>2, <1>4, <1>6, <1>7, <1>8, <1>9
     DEF SessionsInv, TokensInv, SessionsTypeOK, AuthRequest

\* An account that was just registered.
LEMMA SessionsStart == SessionsInit => SessionsInv
<1> SUFFICES ASSUME SessionsInit PROVE SessionsInv
  OBVIOUS
<1> DEFINE first == [type |-> "REGISTER", used |-> FALSE, accepted |-> FALSE, createdAt |-> 0]
<1>1. /\ authClock = 0 /\ account = [status |-> "UNVERIFIED", pw |-> 0] /\ codes = <<first>>
      /\ tokens = << >> /\ resets = {} /\ failures = {} /\ restarts = 0
      /\ authDesk = [w \in AuthDesks |-> FreeAuth]
  BY DEF SessionsInit
<1>2. first \in AccountOtp /\ first.createdAt = 0 /\ ~first.accepted
  BY DEF AccountOtp, OtpTypes
<1> HIDE DEF first
<1>3. codes \in Seq(AccountOtp) /\ Len(codes) = 1 /\ DOMAIN codes = {1} /\ codes[1] = first
  BY <1>1, <1>2
<1>4. tokens \in Seq(AccountRefreshToken) /\ Len(tokens) = 0 /\ DOMAIN tokens = {}
  BY <1>1
<1>5. authDesk \in [AuthDesks -> AuthRequest] /\ \A w \in AuthDesks : authDesk[w].pc = "free"
  BY <1>1, StepShapes
<1>6. account \in [status : {"UNVERIFIED", "ACTIVE"}, pw : 0 .. MaxPasswords] /\ account.pw = 0
  BY <1>1, SessionsAssumption
<1>7. SessionsTypeOK
  BY <1>1, <1>3, <1>4, <1>5, <1>6, FS_EmptySet, SessionsAssumption DEF SessionsTypeOK, AuthRequest
<1>8. Accepted = {} /\ LiveTokens \ Doomed = {} /\ Pruned = {} /\ Cardinality({}) = 0
  BY <1>1, <1>2, <1>3, <1>4, FS_EmptySet DEF Accepted, LiveTokens, Pruned
<1>9. ResetsRestOnCodes /\ PasswordChangesAreProven
  BY <1>1, <1>2, <1>3, <1>6, <1>8 DEF ResetsRestOnCodes, PasswordChangesAreProven, Accepted
<1>10. ASSUME NEW at \in 0 .. authClock PROVE Cardinality(Sent(at)) <= SendLimit
  <2>1. Sent(at) \in SUBSET {1} /\ IsFiniteSet({1}) /\ Cardinality({1}) = 1
    BY <1>3, FS_Singleton DEF Sent
  <2> QED
    BY <2>1, FewerOf, SessionsAssumption
<1>11. WithinLimits
  BY <1>8, <1>10, SessionsAssumption DEF WithinLimits, Sent
<1>12. OneHeir /\ ResetEndsSessions /\ OverflowIsDoomed
  BY <1>4, <1>5, <1>8, SessionsAssumption
     DEF OneHeir, ResetEndsSessions, LiveTokens, OverflowIsDoomed, DeskAt
<1> QED
  BY <1>7, <1>9, <1>11, <1>12 DEF SessionsInv, CodesInv, TokensInv

\* Every step.
LEMMA SessionsStep ==
  ASSUME SessionsInv, [SessionsNext]_sessionVars
  PROVE  SessionsInv'
<1>1. ASSUME NEW type \in OtpTypes, ResendOtp(type) PROVE SessionsInv'
  BY <1>1, ResendKeeps
<1>2. ASSUME NEW pw \in resets, ResetPassword(pw) PROVE SessionsInv'
  BY <1>2, ResettingKeeps
<1>3. ASSUME NEW w \in AuthDesks,
             \/ ForgotPassword(w)
             \/ \E type \in OtpTypes, c \in {0} \cup DOMAIN codes : VerifyOtp(w, type, c)
             \/ Login(w)
             \/ \E t \in DOMAIN tokens : RefreshToken(w, t)
      PROVE  SessionsInv'
  BY <1>3, ForgotKeeps, VerifyingKeeps, LoginKeeps, RefreshKeeps
<1>4. ASSUME NEW w \in AuthDesks,
             \/ ForgotSupersedes(w) \/ ForgotSaves(w) \/ IssueToken(w) \/ RevokeStale(w)
             \/ RevokeStaleSaves(w) \/ ExchangeToken(w)
      PROVE  SessionsInv'
  BY <1>4, ForgotSupersedesKeeps, ForgotSavesKeeps, IssuingKeeps, RevokingKeeps,
     RevokingSavesKeeps, ExchangeKeeps
<1>5. ASSUME AuthTick PROVE SessionsInv'
  BY <1>5, AuthTickKeeps
<1>6. ASSUME AuthRestart PROVE SessionsInv'
  BY <1>6, AuthRestartKeeps
<1>7. CASE UNCHANGED sessionVars
  BY <1>7 DEF sessionVars, SessionsInv, SessionsTypeOK, CodesInv, TokensInv, ResetsRestOnCodes, Accepted,
              PasswordChangesAreProven, WithinLimits, Pruned, OneHeir, Childless, DeskAt,
              ResetEndsSessions, LiveTokens, OverflowIsDoomed, Doomed
<1>8. CASE SessionsNext
  <2> DEFINE free == {w \in AuthDesks : authDesk[w] = FreeAuth}
             w == CHOOSE w \in free : TRUE
  <2>1. free # {} => w \in AuthDesks
    OBVIOUS
  <2> QED
    BY <1>1, <1>2, <1>3, <1>4, <1>5, <1>6, <1>8, <2>1 DEF SessionsNext
<1> QED
  BY <1>7, <1>8

\* The rest of the promise: at most one token has a given parent, and with
\* everyone at rest nothing is doomed, so that the live tokens are within the
\* limit.
LEMMA SessionsInvImplies == SessionsInv => SessionsPromise
<1> SUFFICES ASSUME SessionsInv PROVE ExchangedOnce /\ SessionCap
  BY DEF SessionsInv, CodesInv, TokensInv, SessionsPromise
<1>1. ExchangedOnce
  <2> SUFFICES ASSUME NEW t \in DOMAIN tokens
               PROVE  Cardinality({u \in DOMAIN tokens : tokens[u].parent = t}) <= 1
    BY DEF ExchangedOnce
  <2>1. PICK H : H = {u \in DOMAIN tokens : tokens[u].parent = t}
    OBVIOUS
  <2>2. t # 0
    BY CodesAreFinite DEF SessionsInv
  <2>3. H = {} \/ \E u : H = {u}
    BY <2>1, <2>2 DEF SessionsInv, TokensInv, OneHeir
  <2>4. Cardinality(H) \in {0, 1}
    <3>1. CASE H = {}
      BY <3>1, FS_EmptySet
    <3>2. ASSUME NEW u, H = {u} PROVE Cardinality(H) = 1
      BY <3>2, FS_Singleton
    <3> QED
      BY <2>3, <3>1, <3>2
  <2>5. Cardinality(H) <= 1
    BY <2>4
  <2> QED
    BY <2>1, <2>5
<1>2. SessionCap
  <2> SUFFICES ASSUME restarts = 0, \A w \in AuthDesks : authDesk[w] = FreeAuth
               PROVE  Cardinality(LiveTokens) <= MaxLive
    BY DEF SessionCap
  <2>1. Doomed = {} /\ \A w \in AuthDesks : ~DeskAt(w, "prune")
    BY StepShapes DEF Doomed, DeskAt
  <2>2. LiveTokens \ Doomed = LiveTokens
    BY <2>1
  <2> QED
    BY <2>1, <2>2 DEF SessionsInv, TokensInv, OverflowIsDoomed
<1> QED
  BY <1>1, <1>2

\* Signing in keeps its promise (auth.service.ts): every change of the password
\* was proved by a code of its own, a refresh token is exchanged once, a reset
\* ends every older session, an account at rest has no more live sessions than
\* its limit, and codes are sent and guessed within theirs, however requests
\* race and wherever a restart cuts them.
THEOREM SessionsKept == SessionsSpec => []SessionsPromise
BY SessionsStart, SessionsStep, SessionsInvImplies, PTL DEF SessionsSpec

-----------------------------------------------------------------------------
(* Accounts: the locks of an operation keep its identifiers to itself.     *)

DeskInv == AccountsTypeOK /\ DesksInOrder

\* At first there is at most one account, of an older spelling.
LEMMA AccountsStart == AccountsInit => DeskInv /\ IdentifiersAreUnique
<1> SUFFICES ASSUME AccountsInit
             PROVE  DeskInv /\ IdentifiersAreUnique
  OBVIOUS
<1>1. PICK legacy \in AccountRow :
        rows = [r \in AccountRows |-> IF r = 1 THEN legacy ELSE NoAccountRow]
  BY DEF AccountsInit
<1>2. FreeAccountDesk \in AccountDesk
  BY DEF FreeAccountDesk, AccountDesk, NoAccountRow
<1>3. AccountsTypeOK /\ DesksInOrder
  BY <1>1, <1>2 DEF AccountsInit, AccountsTypeOK, DesksInOrder, FreeAccountDesk
<1>4. \A r \in Taken : r = 1
  BY <1>1 DEF Taken
<1> QED
  BY <1>3, <1>4 DEF IdentifiersAreUnique, DeskInv

\* A step that leaves the rows alone keeps the desks in order if the desk it
\* moves is.
LEMMA RowsStand ==
  ASSUME DeskInv, UNCHANGED rows, NEW w \in AccountDesks, NEW o \in AccountDesk,
         accountDesk' = [accountDesk EXCEPT ![w] = o],
         o.pc = "free" => o = FreeAccountDesk,
         o.pc # "free" => IF o.row = 0 THEN o.new.phone \in Phones ELSE o.row \in Taken,
         o.pc = "write" =>
           \A r \in Taken \ {o.row} : rows[r].plain => rows[r].phone # o.new.phone
  PROVE  DeskInv'
<1>1. AccountsTypeOK'
  BY DEF DeskInv, AccountsTypeOK
<1>2. Taken' = Taken
  BY DEF Taken
<1>3. ASSUME NEW v \in AccountDesks PROVE accountDesk'[v] = IF v = w THEN o ELSE accountDesk[v]
  BY DEF DeskInv, AccountsTypeOK
<1>4. DesksInOrder'
  BY <1>2, <1>3 DEF DeskInv, DesksInOrder
<1> QED
  BY <1>1, <1>4 DEF DeskInv

\* A desk that is free is a desk.
LEMMA FreeIsADesk == FreeAccountDesk \in AccountDesk
BY DEF FreeAccountDesk, AccountDesk, NoAccountRow

\* An operation begins.
LEMMA BeginningKeeps ==
  ASSUME DeskInv, NEW w \in AccountDesks, NEW row \in AccountRows \cup {0},
         NEW email \in Emails \cup {NoIdentifier}, NEW phone \in Phones \cup {NoIdentifier},
         NEW locks \in BOOLEAN,
         AccountBegins(w, row, [email |-> email, phone |-> phone, plain |-> FALSE], locks),
         IF row = 0 THEN phone \in Phones ELSE row \in Taken
  PROVE  DeskInv' /\ UNCHANGED rows
<1> DEFINE new == [email |-> email, phone |-> phone, plain |-> FALSE]
           o == [pc |-> "lock", row |-> row, new |-> new, locks |-> locks, held |-> 0]
<1>1. o \in AccountDesk
  BY DEF AccountDesk
<1>2. accountDesk' = [accountDesk EXCEPT ![w] = o] /\ UNCHANGED rows
  BY DEF AccountBegins
<1>3. o.pc = "lock" /\ o.row = row /\ o.new.phone = phone
  OBVIOUS
<1> HIDE DEF o
<1> QED
  BY <1>1, <1>2, <1>3, RowsStand

\* It takes its next lock.
LEMMA LockingKeeps ==
  ASSUME DeskInv, NEW w \in AccountDesks, LockNextKey(w)
  PROVE  DeskInv' /\ UNCHANGED rows
<1> DEFINE o == accountDesk[w]
           p == [o EXCEPT !.held = @ + 1]
<1>1. o \in AccountDesk /\ o.pc = "lock" /\ o.held \in 0 .. 2
  <2>1. o \in AccountDesk
    BY DEF DeskInv, AccountsTypeOK
  <2>2. o.held \in 0 .. 3
    BY <2>1 DEF AccountDesk
  <2>3. o.pc = "lock" /\ o.held < 3
    BY DEF LockNextKey
  <2> QED
    BY <2>1, <2>2, <2>3
<1>2. accountDesk' = [accountDesk EXCEPT ![w] = p] /\ UNCHANGED rows
  BY DEF LockNextKey, DeskInv, AccountsTypeOK
<1>3. p \in AccountDesk /\ p.pc = "lock" /\ p.row = o.row /\ p.new = o.new
  <2>1. o.held + 1 \in 0 .. 3
    BY <1>1
  <2> HIDE DEF o
  <2> QED
    BY <1>1, <2>1 DEF AccountDesk
<1>4. IF o.row = 0 THEN o.new.phone \in Phones ELSE o.row \in Taken
  BY <1>1 DEF DeskInv, DesksInOrder
<1> HIDE DEF p
<1> QED
  BY <1>2, <1>3, <1>4, RowsStand

\* It looks for duplicates, having the locks of its identifiers.
LEMMA CheckingKeeps ==
  ASSUME DeskInv, NEW w \in AccountDesks, CheckDuplicates(w)
  PROVE  DeskInv' /\ UNCHANGED rows
<1> DEFINE o == accountDesk[w]
           p == [o EXCEPT !.pc = "write"]
<1>1. o \in AccountDesk /\ o.pc = "lock"
  BY DEF DeskInv, AccountsTypeOK, CheckDuplicates
<1>2. IF o.row = 0 THEN o.new.phone \in Phones ELSE o.row \in Taken
  BY <1>1 DEF DeskInv, DesksInOrder
<1>3. CASE DuplicateOf(o) # {}
  <2>1. accountDesk' = [accountDesk EXCEPT ![w] = FreeAccountDesk] /\ UNCHANGED rows
    BY <1>3 DEF CheckDuplicates
  <2>2. FreeAccountDesk.pc = "free"
    BY DEF FreeAccountDesk
  <2> QED
    BY <2>1, <2>2, FreeIsADesk, RowsStand
<1>4. CASE DuplicateOf(o) = {}
  <2>1. accountDesk' = [accountDesk EXCEPT ![w] = p] /\ UNCHANGED rows
    BY <1>4 DEF CheckDuplicates
  <2>2. p \in AccountDesk /\ p.pc = "write" /\ p.row = o.row /\ p.new = o.new
    BY <1>1 DEF AccountDesk
  <2>3. ASSUME NEW r \in Taken \ {o.row}, rows[r].plain
        PROVE  rows[r].phone # o.new.phone
    <3>1. rows[r] \in AccountRow
      BY DEF Taken, DeskInv, AccountsTypeOK
    <3>2. rows[r].phone \in Phones
      BY <3>1 DEF AccountRow
    <3>3. ~Shares(rows[r], o.new)
      BY <1>4, <2>3 DEF DuplicateOf
    <3> QED
      BY <3>2, <3>3, AccountsAssumption DEF Shares
  <2> HIDE DEF p
  <2> QED
    BY <1>2, <2>1, <2>2, <2>3, RowsStand
<1> QED
  BY <1>3, <1>4

\* The row that is written, and what was there before.
LEMMA WrittenIsARow ==
  ASSUME DeskInv, NEW w \in AccountDesks, accountDesk[w].pc = "write"
  PROVE  LET o == accountDesk[w] IN
         /\ Written(o) \in AccountRow
         /\ Written(o).plain =>
              /\ o.row \in Taken /\ rows[o.row].plain
              /\ o.new.phone = NoIdentifier /\ Written(o).phone = rows[o.row].phone
         /\ IF o.new.phone # NoIdentifier
            THEN Written(o).phone = o.new.phone /\ ~Written(o).plain
            ELSE /\ o.row \in Taken /\ Written(o).phone = rows[o.row].phone
                 /\ Written(o).plain = rows[o.row].plain
<1> DEFINE o == accountDesk[w]
<1>1. o \in AccountDesk /\ o.new.plain = FALSE
  BY DEF DeskInv, AccountsTypeOK, AccountDesk
<1>2. IF o.row = 0 THEN o.new.phone \in Phones ELSE o.row \in Taken
  BY DEF DeskInv, DesksInOrder
<1>3. CASE o.row = 0
  <2>1. o.new \in AccountRow /\ o.new.phone # NoIdentifier
    BY <1>1, <1>2, <1>3, AccountsAssumption DEF AccountDesk, AccountRow
  <2> QED
    BY <1>1, <1>3, <2>1 DEF Written
<1>4. CASE o.row # 0
  <2>1. rows[o.row] \in AccountRow
    BY <1>2, <1>4 DEF Taken, DeskInv, AccountsTypeOK
  <2>2. Written(o).email \in Emails \cup {NoIdentifier}
    BY <1>1, <1>4, <2>1 DEF Written, AccountDesk, AccountRow
  <2>3. Written(o) \in AccountRow
    BY <1>1, <1>4, <2>1 DEF Written, AccountDesk, AccountRow
  <2> QED
    BY <1>2, <1>4, <2>1, <2>3 DEF Written, AccountRow
<1> QED
  BY <1>3, <1>4

\* It writes: nobody else can have written the identifiers that it checked.
LEMMA WritingKeeps ==
  ASSUME DeskInv, IdentifiersAreUnique, NEW w \in AccountDesks, WriteAccount(w)
  PROVE  DeskInv' /\ IdentifiersAreUnique'
<1> DEFINE o == accountDesk[w]
           row == IF o.row # 0 THEN o.row ELSE Cardinality(Taken) + 1
           refused == \E r \in Taken \ {row} : SharesSpelling(rows[r], Written(o))
<1>1. /\ o.pc = "write" /\ row \in AccountRows
      /\ rows' = IF refused THEN rows ELSE [rows EXCEPT ![row] = Written(o)]
      /\ accountDesk' = [accountDesk EXCEPT ![w] = FreeAccountDesk]
  BY DEF WriteAccount
<1>2. FreeAccountDesk.pc = "free"
  BY DEF FreeAccountDesk
<1> DEFINE new == Written(o)
<1>3. /\ new \in AccountRow
      /\ new.plain =>
              /\ o.row \in Taken /\ rows[o.row].plain
              /\ o.new.phone = NoIdentifier /\ new.phone = rows[o.row].phone
      /\ IF o.new.phone # NoIdentifier
            THEN new.phone = o.new.phone /\ ~new.plain
            ELSE /\ o.row \in Taken /\ new.phone = rows[o.row].phone
                 /\ new.plain = rows[o.row].plain
  BY <1>1, WrittenIsARow
<1>4. o.row \in Taken => o.row = row
  BY AccountsAssumption DEF Taken
<1>5. \A r \in Taken \ {o.row} : rows[r].plain => rows[r].phone # o.new.phone
  BY <1>1 DEF DeskInv, DesksInOrder
<1>6. CASE refused
  <2>1. UNCHANGED rows
    BY <1>1, <1>6
  <2> QED
    BY <1>1, <1>2, <2>1, FreeIsADesk, RowsStand DEF IdentifiersAreUnique, Taken
<1>7. CASE ~refused
  <2> HIDE DEF new, row
  <2>1. rows' = [rows EXCEPT ![row] = new]
    BY <1>1, <1>7 DEF new, row
  <2>2. new \in AccountRow /\ new # NoAccountRow
    BY <1>3, AccountsAssumption DEF AccountRow, NoAccountRow
  <2>3. Taken' = Taken \cup {row} /\ \A r \in Taken' : rows'[r] = IF r = row THEN new ELSE rows[r]
    BY <1>1, <2>1, <2>2 DEF Taken, DeskInv, AccountsTypeOK
  <2>4. AccountsTypeOK'
    BY <1>1, <2>1, <2>2, FreeIsADesk DEF DeskInv, AccountsTypeOK
  <2>5. DesksInOrder'
    <3> SUFFICES ASSUME NEW v \in AccountDesks, v # w
                 PROVE  /\ accountDesk[v].pc = "free" => accountDesk[v] = FreeAccountDesk
                        /\ accountDesk[v].pc # "free" =>
                             IF accountDesk[v].row = 0 THEN accountDesk[v].new.phone \in Phones
                             ELSE accountDesk[v].row \in Taken'
                        /\ accountDesk[v].pc = "write" =>
                             \A r \in Taken' \ {accountDesk[v].row} :
                               rows'[r].plain => rows'[r].phone # accountDesk[v].new.phone
      BY <1>1, <1>2 DEF DesksInOrder, DeskInv, AccountsTypeOK
    <3>1. /\ accountDesk[v].pc = "free" => accountDesk[v] = FreeAccountDesk
          /\ accountDesk[v].pc # "free" =>
                             IF accountDesk[v].row = 0 THEN accountDesk[v].new.phone \in Phones
                             ELSE accountDesk[v].row \in Taken
          /\ accountDesk[v].pc = "write" =>
                             \A r \in Taken \ {accountDesk[v].row} :
                               rows[r].plain => rows[r].phone # accountDesk[v].new.phone
      BY DEF DesksInOrder, DeskInv
    <3>2. ASSUME accountDesk[v].pc = "write", NEW r \in Taken' \ {accountDesk[v].row}, rows'[r].plain
          PROVE  rows'[r].phone # accountDesk[v].new.phone
      <4>1. CASE r # row
        BY <2>3, <3>1, <3>2, <4>1
      <4>2. CASE r = row
        BY <1>3, <1>4, <2>3, <3>1, <3>2, <4>2 DEF new
      <4> QED
        BY <4>1, <4>2
    <3> QED
      BY <2>3, <3>1, <3>2
  <2>6. ASSUME NEW r \in Taken \ {row} PROVE ~Shares(rows[r], new) /\ ~Shares(new, rows[r])
    <3>1. rows[r] \in AccountRow
      BY DEF Taken, DeskInv, AccountsTypeOK
    <3>2. ~SharesSpelling(rows[r], new)
      BY <1>7, <2>6 DEF new, row
    <3>3. rows[r].phone \in Phones /\ new.phone \in Phones /\ rows[r].plain \in BOOLEAN /\ new.plain \in BOOLEAN
      BY <2>2, <3>1 DEF AccountRow
    <3>4. ~(rows[r].email # NoIdentifier /\ rows[r].email = new.email)
      BY <3>2 DEF SharesSpelling
    <3>5. rows[r].phone # new.phone
      <4>1. CASE rows[r].plain = new.plain
        BY <3>2, <3>3, <4>1, AccountsAssumption DEF SharesSpelling
      <4>2. CASE o.new.phone # NoIdentifier /\ rows[r].plain # new.plain
        <5>1. new.phone = o.new.phone /\ ~new.plain
          BY <1>3, <4>2 DEF new
        <5>2. rows[r].plain
          BY <3>3, <4>2, <5>1
        <5>3. r # o.row
          BY <1>4, <2>6
        <5> QED
          BY <1>5, <5>1, <5>2, <5>3
      <4>3. CASE o.new.phone = NoIdentifier /\ rows[r].plain # new.plain
        <5>1. o.row \in Taken /\ o.row = row /\ new.phone = rows[o.row].phone
          BY <1>3, <1>4, <4>3 DEF new
        <5>2. ~Shares(rows[r], rows[o.row])
          BY <2>6, <5>1 DEF IdentifiersAreUnique
        <5> QED
          BY <3>3, <5>1, <5>2, AccountsAssumption DEF Shares
      <4> QED
        BY <4>1, <4>2, <4>3
    <3> QED
      BY <3>4, <3>5 DEF Shares
  <2>7. IdentifiersAreUnique'
    BY <2>3, <2>6 DEF IdentifiersAreUnique, Shares
  <2> QED
    BY <2>4, <2>5, <2>7 DEF DeskInv
<1> QED
  BY <1>6, <1>7

\* Every step.
LEMMA AccountsStep ==
  ASSUME DeskInv, IdentifiersAreUnique, [AccountsNext]_accountVars
  PROVE  DeskInv' /\ IdentifiersAreUnique'
<1>1. CASE UNCHANGED accountVars
  BY <1>1 DEF accountVars, DeskInv, IdentifiersAreUnique, AccountsTypeOK, DesksInOrder, Taken
<1>2. ASSUME UNCHANGED rows PROVE IdentifiersAreUnique'
  BY <1>2 DEF IdentifiersAreUnique, Taken
<1>3. ASSUME NEW w \in AccountDesks, NEW email \in Emails \cup {NoIdentifier},
             NEW phone \in Phones, Register(w, email, phone) \/ CreateUnlocked(w, email, phone)
      PROVE  DeskInv' /\ UNCHANGED rows
  BY <1>3, BeginningKeeps DEF Register, CreateUnlocked
<1>4. ASSUME NEW w \in AccountDesks, NEW r \in AccountRows, NEW email \in Emails \cup {NoIdentifier},
             NEW phone \in Phones \cup {NoIdentifier}, UpdateAccount(w, r, email, phone)
      PROVE  DeskInv' /\ UNCHANGED rows
  <2>1. r # 0 /\ r \in Taken
    BY <1>4, AccountsAssumption DEF UpdateAccount
  <2> QED
    BY <1>4, <2>1, BeginningKeeps DEF UpdateAccount
<1>5. ASSUME NEW w \in AccountDesks, WriteAccount(w)
      PROVE  DeskInv' /\ IdentifiersAreUnique'
  BY <1>5, WritingKeeps
<1> QED
  BY <1>1, <1>2, <1>3, <1>4, <1>5, LockingKeeps, CheckingKeeps DEF AccountsNext

\* Locks are taken in one order, so that of those who wait one goes on.
LEMMA NothingTangles == DeskInv => LocksNeverTangle
<1> DEFINE busy == {w \in AccountDesks : accountDesk[w].pc = "lock"}
           moves(w) == LET o == accountDesk[w] IN
             ~o.locks \/ o.held = 3 \/ KeyFree(w, LockKeys(o)[o.held + 1])
<1> SUFFICES ASSUME DeskInv, busy # {}, \A w \in AccountDesks : accountDesk[w].pc # "write",
                    \A w \in busy : ~moves(w)
             PROVE  FALSE
  BY DEF LocksNeverTangle
<1>1. \A v \in AccountDesks : accountDesk[v] \in AccountDesk /\ accountDesk[v].pc \in {"free", "lock"}
  BY DEF DeskInv, AccountsTypeOK, AccountDesk
<1>2. \A v \in AccountDesks : accountDesk[v].pc = "free" => accountDesk[v].held = 0
  BY DEF DeskInv, DesksInOrder, FreeAccountDesk
<1>3. ASSUME NEW v \in AccountDesks PROVE accountDesk[v].held \in 0 .. 2
  <2>1. accountDesk[v].held \in 0 .. 3
    BY <1>1 DEF AccountDesk
  <2>2. CASE accountDesk[v].pc = "lock"
    BY <2>1, <2>2
  <2> QED
    BY <1>1, <1>2, <2>2
<1>4. ASSUME NEW v \in AccountDesks, NEW n \in 1 .. 3
      PROVE  LockKeys(accountDesk[v])[n].kind = <<"email", "phone", "row">>[n]
  BY <1>4 DEF LockKeys
<1>5. ASSUME NEW w \in busy PROVE \E v \in AccountDesks : accountDesk[v].held > accountDesk[w].held
  <2>1. ~KeyFree(w, LockKeys(accountDesk[w])[accountDesk[w].held + 1])
    BY <1>5
  <2>2. PICK v \in AccountDesks : Holds(v, LockKeys(accountDesk[w])[accountDesk[w].held + 1])
    BY <2>1 DEF KeyFree
  <2>3. PICK n \in 1 .. accountDesk[v].held :
          LockKeys(accountDesk[v])[n] = LockKeys(accountDesk[w])[accountDesk[w].held + 1]
    BY <2>2 DEF Holds
  <2>4. n \in 1 .. 3 /\ accountDesk[w].held + 1 \in 1 .. 3 /\ w \in AccountDesks
    BY <1>3, <2>3
  <2>5. <<"email", "phone", "row">>[n] = <<"email", "phone", "row">>[accountDesk[w].held + 1]
    BY <1>4, <2>3, <2>4
  <2>6. n = accountDesk[w].held + 1
    BY <2>4, <2>5
  <2> QED
    BY <1>3, <2>3, <2>6
<1>6. ASSUME NEW v \in AccountDesks, accountDesk[v].held > 0 PROVE v \in busy
  BY <1>1, <1>2, <1>6
<1>7. \A v \in AccountDesks : accountDesk[v].held # 2
  BY <1>3, <1>5, <1>6
<1>8. \A v \in AccountDesks : accountDesk[v].held # 1
  BY <1>3, <1>5, <1>6, <1>7
<1> QED
  BY <1>3, <1>5, <1>7, <1>8

\* Registering and changing accounts keeps its promise (accounts.service.ts):
\* an email and a phone belong to one account however two operations race, and
\* the locks that see to it never wait for each other in a circle.
THEOREM AccountsKept == AccountsSpec => []AccountsPromise
<1>1. AccountsInit => DeskInv /\ IdentifiersAreUnique
  BY AccountsStart
<1>2. DeskInv /\ IdentifiersAreUnique /\ [AccountsNext]_accountVars
        => (DeskInv /\ IdentifiersAreUnique)'
  BY AccountsStep
<1>3. DeskInv /\ IdentifiersAreUnique => AccountsPromise
  BY NothingTangles DEF AccountsPromise, DeskInv
<1> QED
  BY <1>1, <1>2, <1>3, PTL DEF AccountsSpec

-----------------------------------------------------------------------------
(* The Zalo token: where the newest one is.                                *)

ZaloInv ==
  /\ ZaloTypeOK /\ UnsavedAreFresh /\ NewestIsKnown
  /\ NeverSpendsTwice /\ WaitersAreServed /\ LinkOpensOnce

\* A process that does nothing is one.
LEMMA RestingIsAnExchange == Resting \in Exchange /\ Resting.pc = "idle"
BY ZaloAssumption DEF Resting, Exchange, NoZaloRow, ZaloRow

\* The token at first works, and no other was handed out.
LEMMA ZaloStarts == ZaloInit => ZaloInv
<1> SUFFICES ASSUME ZaloInit PROVE ZaloInv
  OBVIOUS
<1>2. \A p \in Procs : refresh[p].pc = "idle" /\ refresh[p] = Resting
  BY RestingIsAnExchange DEF ZaloInit
<1>3. refresh \in [Procs -> Exchange] /\ spent \in [Procs -> SUBSET (1 .. granted)]
  BY RestingIsAnExchange DEF ZaloInit
<1>4. links \in Seq(Nat) /\ Len(links) = 0 /\ 0 <= MaxLinks /\ 1 \in 1 .. MaxGrants
  BY ZaloAssumption DEF ZaloInit
<1>5. /\ granted = 1 /\ good = {1} /\ latest = [token |-> 1, dead |-> FALSE]
      /\ sender = [s \in Senders |-> "idle"] /\ admin = [a \in Admins |-> NoGrant]
      /\ opened = 0 /\ issuedLinks = 0 /\ lost = 0 /\ crossed = FALSE
  BY DEF ZaloInit
<1>6. good \subseteq 1 .. granted /\ latest \in ZaloRow /\ granted \in 1 .. MaxGrants
  BY <1>4, <1>5 DEF ZaloRow
<1>7. /\ sender \in [Senders -> {"idle", "wait1", "wait2", "send1", "send2"}]
      /\ admin \in [Admins -> [pc : {"idle", "clear", "save"}, token : Nat]]
      /\ \A a \in Admins : admin[a] = NoGrant /\ admin[a].pc = "idle"
  BY <1>5 DEF NoGrant
<1>1. ZaloTypeOK
  BY <1>2, <1>3, <1>4, <1>5, <1>6, <1>7 DEF ZaloTypeOK
<1> QED
  BY <1>1, <1>2, <1>7 DEF ZaloInit, ZaloInv, UnsavedAreFresh, NewestIsKnown, NeverSpendsTwice,
     WaitersAreServed, LinkOpensOnce, Unsaved, Authorising

\* The exchange of one process changes, and nothing else of the exchanges.
Moves(p, r) == refresh' = [refresh EXCEPT ![p] = r]

\* The exchange of one process moves alone.
LEMMA MovesOne ==
  ASSUME ZaloInv, NEW p \in Procs, NEW r \in Exchange, Moves(p, r)
  PROVE  /\ refresh' \in [Procs -> Exchange]
         /\ \A q \in Procs : refresh'[q] = IF q = p THEN r ELSE refresh[q]
BY DEF ZaloInv, ZaloTypeOK, Moves

\* It ends: those who waited for it go on.
LEMMA EndingMoves ==
  ASSUME ZaloInv, NEW p \in Procs, NEW ok \in BOOLEAN, EndRefresh(p, ok)
  PROVE  /\ Moves(p, Resting)
         /\ sender' \in [Senders -> {"idle", "wait1", "wait2", "send1", "send2"}]
         /\ WaitersAreServed'
<1>1. Moves(p, Resting)
  BY DEF EndRefresh, Moves
<1>2. \A s \in Senders : sender[s] \in {"idle", "wait1", "wait2", "send1", "send2"}
  BY DEF ZaloInv, ZaloTypeOK
<1>3. sender' \in [Senders -> {"idle", "wait1", "wait2", "send1", "send2"}]
  BY <1>2 DEF EndRefresh
<1>4. \A s \in Senders : sender'[s] \in {"wait1", "wait2"} =>
                           ProcOf[s] # p /\ sender'[s] = sender[s]
  BY <1>2 DEF EndRefresh
<1>5. \A s \in Senders : ProcOf[s] \in Procs
  BY ZaloAssumption
<1>6. WaitersAreServed'
  BY <1>1, <1>4, <1>5, RestingIsAnExchange, MovesOne DEF ZaloInv, WaitersAreServed
<1> QED
  BY <1>1, <1>3, <1>6

\* A process that is no longer at an exchange, or at one that got nowhere,
\* leaves everything as it was known.
LEMMA LettingGo ==
  ASSUME ZaloInv, NEW p \in Procs, NEW r \in Exchange, Moves(p, r),
         refresh[p].pc \notin {"idle", "save"}, r.pc \notin {"called", "save"},
         r.pc # "idle" => r.row = refresh[p].row,
         r.pc = "idle" => r = Resting, r.pc = "check" => r.checks < MaxChecks,
         UNCHANGED <<good, granted, latest, admin, links, opened, issuedLinks, lost, crossed, spent>>,
         sender' \in [Senders -> {"idle", "wait1", "wait2", "send1", "send2"}],
         WaitersAreServed'
  PROVE  ZaloInv'
<1>1. /\ refresh' \in [Procs -> Exchange]
      /\ \A q \in Procs : refresh'[q] = IF q = p THEN r ELSE refresh[q]
  BY MovesOne
<1>2. ZaloTypeOK'
  BY <1>1 DEF ZaloInv, ZaloTypeOK
<1>3. UnsavedAreFresh'
  BY <1>1 DEF ZaloInv, UnsavedAreFresh, Unsaved, Authorising, Fresh
<1>4. \A a \in Admins : admin[a].pc = "save" /\ lost = 0 /\ ~crossed => refresh[p].pc = "idle"
  BY RestingIsAnExchange DEF ZaloInv, NewestIsKnown, Authorising
<1>5. NewestIsKnown'
  BY <1>1, <1>4 DEF ZaloInv, NewestIsKnown, Unsaved, Authorising
<1>6. NeverSpendsTwice'
  BY <1>1 DEF ZaloInv, NeverSpendsTwice
<1>7. LinkOpensOnce'
  BY DEF ZaloInv, LinkOpensOnce
<1> QED
  BY <1>2, <1>3, <1>5, <1>6, <1>7 DEF ZaloInv

\* An exchange starts with the row as it is in the table.
LEMMA StartingKeeps ==
  ASSUME ZaloInv, NEW p \in Procs, StartRefresh(p),
         UNCHANGED <<good, granted, latest, admin, links, opened, issuedLinks, lost, crossed, spent>>,
         sender' \in [Senders -> {"idle", "wait1", "wait2", "send1", "send2"}],
         \A s \in Senders : sender'[s] \in {"wait1", "wait2"} =>
           ProcOf[s] = p \/ sender[s] \in {"wait1", "wait2"}
  PROVE  ZaloInv'
<1> DEFINE r == [Resting EXCEPT !.pc = "called", !.row = latest]
<1>1. /\ r \in Exchange /\ r.pc = "called" /\ r.row = latest /\ r.checks = 0
  <2>1. latest \in ZaloRow
    BY DEF ZaloInv, ZaloTypeOK
  <2>2. Resting \in Exchange /\ Resting.checks = 0
    BY RestingIsAnExchange DEF Resting
  <2>3. r \in Exchange
    BY <2>1, <2>2 DEF Exchange
  <2> QED
    BY <2>2, <2>3 DEF Exchange
<1>2. Moves(p, r) /\ refresh[p] = Resting /\ ~latest.dead
  BY DEF StartRefresh, Moves, FindLatestToken
<1> HIDE DEF r
<1>3. /\ refresh' \in [Procs -> Exchange]
      /\ \A q \in Procs : refresh'[q] = IF q = p THEN r ELSE refresh[q]
  BY <1>1, <1>2, MovesOne
<1>4. ZaloTypeOK'
  BY <1>1, <1>3 DEF ZaloInv, ZaloTypeOK
<1>5. UnsavedAreFresh'
  BY <1>1, <1>3 DEF ZaloInv, UnsavedAreFresh, Unsaved, Authorising, Fresh
<1>6. NewestIsKnown'
  BY <1>1, <1>2, <1>3, RestingIsAnExchange DEF ZaloInv, NewestIsKnown, Unsaved, Authorising
<1>7. NeverSpendsTwice'
  BY <1>1, <1>2, <1>3, RestingIsAnExchange
     DEF ZaloInv, NeverSpendsTwice, NewestIsKnown, Unsaved
<1>8. WaitersAreServed'
  BY <1>1, <1>3, RestingIsAnExchange, ZaloAssumption DEF ZaloInv, WaitersAreServed
<1>9. LinkOpensOnce'
  BY DEF ZaloInv, LinkOpensOnce
<1> QED
  BY <1>4, <1>5, <1>6, <1>7, <1>8, <1>9 DEF ZaloInv

\* A token that is spent for nothing takes no other with it.
LEMMA LosingKeepsFresh ==
  ASSUME ZaloInv, NEW p \in Procs, refresh[p].pc = "called",
         spent' = [spent EXCEPT ![p] = @ \cup {refresh[p].row.token}],
         granted' \in {granted, granted + 1}, UNCHANGED <<latest, admin>>,
         \A q \in Procs : refresh'[q].pc # "idle" =>
           /\ refresh[q].pc # "idle" /\ refresh'[q].row = refresh[q].row
           /\ refresh'[q].pc = "save" => refresh'[q] = refresh[q]
  PROVE  UnsavedAreFresh'
<1>1. granted \in Nat /\ 1 .. granted \subseteq 1 .. granted' /\ granted <= granted'
  <2>1. granted \in 1 .. MaxGrants
    BY DEF ZaloInv, ZaloTypeOK
  <2> QED
    BY <2>1, ZaloAssumption
<1>2. /\ \A q \in Procs : refresh[q].new \in Nat /\ refresh[q].row.token \in Nat
      /\ latest.token \in Nat /\ \A a \in Admins : admin[a].token \in Nat
  BY DEF ZaloInv, ZaloTypeOK, Exchange, ZaloRow
<1>3. \A q \in Procs : spent'[q] = IF q = p THEN spent[p] \cup {refresh[p].row.token} ELSE spent[q]
  BY DEF ZaloInv, ZaloTypeOK
<1>4. ASSUME NEW t, NEW procs \in SUBSET Procs, NEW admins \in SUBSET Admins, Fresh(t, procs, admins)
      PROVE  Fresh(t, procs, admins)'
  BY <1>1, <1>3, <1>4 DEF Fresh, Unsaved, Authorising
<1>5. ASSUME NEW q \in Procs, Unsaved(q)' PROVE Fresh(refresh[q].new, Procs \ {q}, Admins)'
  <2>1. refresh'[q] = refresh[q] /\ Unsaved(q)
    BY <1>5 DEF Unsaved
  <2>2. Fresh(refresh[q].new, Procs \ {q}, Admins)
    BY <2>1 DEF ZaloInv, UnsavedAreFresh
  <2> QED
    BY <1>4, <2>1, <2>2
<1>6. ASSUME NEW a \in Admins, Authorising(a)' PROVE Fresh(admin[a].token, Procs, Admins \ {a})'
  <2>1. Fresh(admin[a].token, Procs, Admins \ {a})
    BY <1>6 DEF ZaloInv, UnsavedAreFresh, Authorising
  <2> QED
    BY <1>4, <2>1
<1>7. latest'.token <= granted'
  BY <1>1, <1>2 DEF ZaloInv, UnsavedAreFresh
<1>8. \A q \in Procs : refresh'[q].pc # "idle" => refresh'[q].row.token <= granted'
  BY <1>1, <1>2 DEF ZaloInv, UnsavedAreFresh
<1> QED
  BY <1>5, <1>6, <1>7, <1>8 DEF UnsavedAreFresh

\* Zalo takes the token it knew and hands out the next; the answer arrives or
\* does not.
LEMMA ExchangingKeeps ==
  ASSUME ZaloInv, NEW p \in Procs, ZaloExchanges(p)
  PROVE  ZaloInv'
<1> DEFINE used == refresh[p].row.token
           arrived == [refresh[p] EXCEPT !.pc = "save", !.new = granted']
<1>1. /\ refresh[p].pc = "called" /\ used \in good /\ granted < MaxGrants
      /\ granted' = granted + 1 /\ good' = (good \ {used}) \cup {granted'}
      /\ spent' = [spent EXCEPT ![p] = @ \cup {used}]
      /\ UNCHANGED <<latest, admin, links, opened, issuedLinks, crossed>>
  BY DEF ZaloExchanges
<1>2. granted \in Nat /\ granted' \in 1 .. MaxGrants /\ used \in 1 .. granted
  <2>1. granted \in 1 .. MaxGrants /\ good \subseteq 1 .. granted /\ MaxGrants \in Nat
    BY ZaloAssumption DEF ZaloInv, ZaloTypeOK
  <2>2. used \in 1 .. granted
    BY <1>1, <2>1
  <2>3. granted \in Nat /\ granted' \in 1 .. MaxGrants
    BY <1>1, <2>1
  <2> QED
    BY <2>2, <2>3
<1>3. refresh[p] \in Exchange /\ refresh[p].checks = 0
  BY <1>1 DEF ZaloInv, ZaloTypeOK
<1>4. /\ arrived \in Exchange /\ arrived.pc = "save" /\ arrived.new = granted'
      /\ arrived.row = refresh[p].row /\ arrived.checks = 0
  <2> DEFINE e == refresh[p]
  <2>1. e \in Exchange /\ e.checks = 0 /\ granted' \in Nat
    BY <1>2, <1>3, ZaloAssumption
  <2> HIDE DEF e
  <2>2. [e EXCEPT !.pc = "save", !.new = granted'] \in Exchange
    BY <2>1 DEF Exchange
  <2>3. LET a == [e EXCEPT !.pc = "save", !.new = granted'] IN
        a.pc = "save" /\ a.new = granted' /\ a.row = e.row /\ a.checks = 0
    BY <2>1 DEF Exchange
  <2> QED
    BY <2>2, <2>3 DEF e
<1>5. /\ spent' \in [Procs -> SUBSET (1 .. granted')]
      /\ \A q \in Procs : spent'[q] = IF q = p THEN spent[p] \cup {used} ELSE spent[q]
      /\ good' \subseteq 1 .. granted'
  <2>1. spent \in [Procs -> SUBSET (1 .. granted)] /\ good \subseteq 1 .. granted
    BY DEF ZaloInv, ZaloTypeOK
  <2>2. 1 .. granted \subseteq 1 .. granted' /\ used \in 1 .. granted' /\ granted' \in 1 .. granted'
    BY <1>1, <1>2
  <2>3. \A q \in Procs : spent'[q] = IF q = p THEN spent[p] \cup {used} ELSE spent[q]
    BY <1>1, <2>1
  <2>4. DOMAIN spent' = Procs /\ \A q \in Procs : spent'[q] \subseteq 1 .. granted'
    BY <1>1, <2>1, <2>2, <2>3
  <2>5. spent' \in [Procs -> SUBSET (1 .. granted')]
    BY <1>1, <2>4
  <2> QED
    BY <1>1, <2>1, <2>2, <2>3, <2>5
<1>6. CASE Moves(p, arrived) /\ UNCHANGED <<sender, lost>>
  <2> HIDE DEF arrived
  <2>1. /\ refresh' \in [Procs -> Exchange]
        /\ \A q \in Procs : refresh'[q] = IF q = p THEN arrived ELSE refresh[q]
    BY <1>4, <1>6, MovesOne
  <2>2. ZaloTypeOK'
    BY <1>1, <1>2, <1>4, <1>5, <1>6, <2>1 DEF ZaloInv, ZaloTypeOK
  <2>3. ASSUME NEW q \in Procs PROVE /\ refresh[q].pc # "idle" => refresh[q].row.token <= granted
                                     /\ Unsaved(q) => refresh[q].new <= granted
                                     /\ refresh[q].new \in Nat /\ refresh[q].row.token \in Nat
    BY DEF ZaloInv, UnsavedAreFresh, Fresh, ZaloTypeOK, Exchange, ZaloRow
  <2>4. latest.token \in Nat /\ latest.token <= granted
        /\ \A a \in Admins : admin[a].token \in Nat /\ (Authorising(a) => admin[a].token <= granted)
    BY DEF ZaloInv, UnsavedAreFresh, Fresh, ZaloTypeOK, ZaloRow
  <2>5. \A q \in Procs : spent[q] \subseteq 1 .. granted
    BY DEF ZaloInv, ZaloTypeOK
  <2>6. UnsavedAreFresh'
    <3>1. ASSUME NEW q \in Procs, Unsaved(q)' PROVE Fresh(refresh[q].new, Procs \ {q}, Admins)'
      <4>1. CASE q = p
        BY <1>1, <1>2, <1>4, <1>5, <2>1, <2>3, <2>4, <2>5, <3>1, <4>1
           DEF Unsaved, Fresh, Authorising
      <4>2. CASE q # p
        <5>1. Fresh(refresh[q].new, Procs \ {q}, Admins) /\ refresh'[q] = refresh[q]
          BY <2>1, <3>1, <4>2 DEF ZaloInv, UnsavedAreFresh, Unsaved
        <5> QED
          BY <1>1, <1>2, <1>4, <1>5, <2>1, <2>3, <5>1, <4>2
             DEF Unsaved, Fresh, Authorising
      <4> QED
        BY <4>1, <4>2
    <3>2. ASSUME NEW a \in Admins, Authorising(a)' PROVE Fresh(admin[a].token, Procs, Admins \ {a})'
      <4>1. Authorising(a) /\ Fresh(admin[a].token, Procs, Admins \ {a}) /\ admin' = admin
        BY <1>1, <3>2 DEF ZaloInv, UnsavedAreFresh, Authorising
      <4> QED
        BY <1>1, <1>2, <1>4, <1>5, <2>1, <2>3, <2>4, <4>1 DEF Unsaved, Fresh, Authorising
    <3> QED
      <4>1. latest'.token <= granted'
        BY <1>1, <1>2, <2>4
      <4>2. \A q \in Procs : refresh'[q].pc # "idle" => refresh'[q].row.token <= granted'
        BY <1>1, <1>2, <1>4, <2>1, <2>3
      <4>3. \A q \in Procs : Unsaved(q)' => Fresh(refresh[q].new, Procs \ {q}, Admins)'
        BY <3>1
      <4> QED
        BY <3>2, <4>1, <4>2, <4>3 DEF UnsavedAreFresh
  <2>7. NewestIsKnown'
    <3> SUFFICES ASSUME lost = 0, ~crossed PROVE NewestIsKnown'
      BY <1>1, <1>6 DEF NewestIsKnown
    <3>1. \A q \in Procs : Unsaved(q) => q # p /\ refresh[q].new # used
      BY <1>1 DEF ZaloInv, UnsavedAreFresh, Fresh, Unsaved
    <3>2. \A a \in Admins : Authorising(a) => admin[a].token # used
      BY <1>1 DEF ZaloInv, UnsavedAreFresh, Fresh
    <3>3. \A q \in Procs : Unsaved(q)' <=> q = p \/ Unsaved(q)
      BY <1>4, <2>1 DEF Unsaved
    <3>4. (\A a \in Admins : ~Authorising(a)') => (\/ latest.dead \/ latest.token \in good
         \/ \E q \in Procs : Unsaved(q) /\ refresh[q].row.token = latest.token)'
      BY <1>1, <1>4, <2>1, <3>1, <3>3 DEF ZaloInv, NewestIsKnown, Authorising
    <3>5. \A q \in Procs : Unsaved(q)' => refresh'[q].new \in good'
      BY <1>1, <1>4, <2>1, <3>1, <3>3 DEF ZaloInv, NewestIsKnown
    <3>6. \A a \in Admins : Authorising(a)' =>
            admin'[a].token \in good' /\ \A b \in Admins \ {a} : ~Authorising(b)'
      BY <1>1, <3>2 DEF ZaloInv, NewestIsKnown, Authorising
    <3>7. \A a \in Admins : admin[a].pc # "save"
      BY <1>1, RestingIsAnExchange DEF ZaloInv, NewestIsKnown, Authorising
    <3>8. ASSUME ~latest.dead, NEW q \in Procs
          PROVE  \/ latest.token \notin spent'[q]
                 \/ Unsaved(q)' /\ refresh'[q].row.token = latest.token
      <4>1. \/ latest.token \notin spent[q]
            \/ Unsaved(q) /\ refresh[q].row.token = latest.token
        BY <3>8 DEF ZaloInv, NewestIsKnown
      <4> QED
        BY <1>1, <1>4, <1>5, <2>1, <3>1, <3>3, <4>1
    <3> QED
      BY <1>1, <1>6, <3>4, <3>5, <3>6, <3>7, <3>8 DEF NewestIsKnown
  <2>8. NeverSpendsTwice'
    BY <1>1, <1>4, <1>5, <1>6, <2>1 DEF ZaloInv, NeverSpendsTwice
  <2>9. WaitersAreServed'
    BY <1>4, <1>6, <2>1, RestingIsAnExchange, ZaloAssumption DEF ZaloInv, WaitersAreServed
  <2>10. LinkOpensOnce'
    BY <1>1 DEF ZaloInv, LinkOpensOnce
  <2> QED
    BY <2>2, <2>6, <2>7, <2>8, <2>9, <2>10 DEF ZaloInv
<1>7. CASE EndRefresh(p, FALSE) /\ lost' = lost + 1
  <2>1. /\ Moves(p, Resting) /\ WaitersAreServed'
        /\ sender' \in [Senders -> {"idle", "wait1", "wait2", "send1", "send2"}]
    BY <1>7, EndingMoves
  <2>2. /\ refresh' \in [Procs -> Exchange]
        /\ \A q \in Procs : refresh'[q] = IF q = p THEN Resting ELSE refresh[q]
    BY <2>1, MovesOne, RestingIsAnExchange
  <2>3. lost' # 0 /\ lost' \in Nat
    BY <1>7 DEF ZaloInv, ZaloTypeOK
  <2>4. ZaloTypeOK'
    BY <1>1, <1>2, <1>5, <2>1, <2>2, <2>3, RestingIsAnExchange DEF ZaloInv, ZaloTypeOK
  <2>5. UnsavedAreFresh'
    BY <1>1, <1>2, <2>2, RestingIsAnExchange, LosingKeepsFresh
  <2>6. NewestIsKnown' /\ NeverSpendsTwice'
    BY <2>3 DEF NewestIsKnown, NeverSpendsTwice
  <2>7. LinkOpensOnce'
    BY <1>1 DEF ZaloInv, LinkOpensOnce
  <2> QED
    BY <2>1, <2>4, <2>5, <2>6, <2>7 DEF ZaloInv
<1>8. \/ Moves(p, arrived) /\ UNCHANGED <<sender, lost>>
      \/ EndRefresh(p, FALSE) /\ lost' = lost + 1
  BY DEF ZaloExchanges, Moves
<1> QED
  BY <1>6, <1>7, <1>8

\* Zalo refuses the token, and the process looks at the table again.
LEMMA RefusingKeeps ==
  ASSUME ZaloInv, NEW p \in Procs, ZaloRefuses(p)
  PROVE  ZaloInv'
<1> DEFINE e == refresh[p]
           r == [e EXCEPT !.pc = "check"]
<1>1. e \in Exchange /\ e.pc = "called" /\ e.checks = 0 /\ 0 < MaxChecks
  BY ZaloAssumption DEF ZaloInv, ZaloTypeOK, ZaloRefuses
<1>2. Moves(p, r)
  BY DEF ZaloRefuses, Moves
<1>3. WaitersAreServed' /\ sender' \in [Senders -> {"idle", "wait1", "wait2", "send1", "send2"}]
      /\ UNCHANGED <<good, granted, latest, admin, links, opened, issuedLinks, lost, crossed, spent>>
  <2>1. UNCHANGED <<good, granted, latest, sender, admin, links, opened, issuedLinks, lost, crossed, spent>>
    BY DEF ZaloRefuses, external
  <2>2. \A q \in Procs : refresh[q] # Resting => refresh'[q] # Resting
    <3>1. r.pc = "check"
      BY <1>1 DEF Exchange
    <3>2. refresh' = [refresh EXCEPT ![p] = r] /\ refresh \in [Procs -> Exchange]
      BY <1>2 DEF Moves, ZaloInv, ZaloTypeOK
    <3> HIDE DEF r
    <3> QED
      BY <3>1, <3>2, RestingIsAnExchange
  <2> QED
    BY <2>1, <2>2, ZaloAssumption DEF ZaloInv, ZaloTypeOK, WaitersAreServed
<1>4. /\ r \in Exchange /\ r.pc = "check" /\ r.row = e.row /\ r.checks = 0
  <2> HIDE DEF e
  <2> QED
    BY <1>1 DEF Exchange
<1> HIDE DEF r
<1> QED
  BY <1>1, <1>2, <1>3, <1>4, LettingGo

\* Zalo answers without tokens: the row will be given up, and the token may be spent.
LEMMA AnsweringNothingKeeps ==
  ASSUME ZaloInv, NEW p \in Procs, ZaloAnswersNothing(p)
  PROVE  ZaloInv'
<1> DEFINE e == refresh[p]
           r == [e EXCEPT !.pc = "mark"]
<1>1. e \in Exchange /\ e.pc = "called" /\ e.checks = 0
  BY DEF ZaloInv, ZaloTypeOK, ZaloAnswersNothing
<1>2. Moves(p, r) /\ UNCHANGED <<latest, sender, admin, links, opened, issuedLinks, crossed>>
  BY DEF ZaloAnswersNothing, Moves
<1>3. r \in Exchange /\ r.pc = "mark" /\ r.row = e.row
  <2> HIDE DEF e
  <2> QED
    BY <1>1 DEF Exchange
<1> HIDE DEF r
<1>4. /\ refresh' \in [Procs -> Exchange]
      /\ \A q \in Procs : refresh'[q] = IF q = p THEN r ELSE refresh[q]
  BY <1>2, <1>3, MovesOne
<1>5. WaitersAreServed' /\ sender' \in [Senders -> {"idle", "wait1", "wait2", "send1", "send2"}]
  BY <1>2, <1>3, <1>4, RestingIsAnExchange, ZaloAssumption DEF ZaloInv, ZaloTypeOK, WaitersAreServed
<1>6. CASE UNCHANGED <<good, granted, lost, spent>>
  BY <1>1, <1>2, <1>3, <1>5, <1>6, LettingGo
<1>7. CASE /\ lost' = lost + 1 /\ good' = good \ {e.row.token} /\ UNCHANGED granted
           /\ e.row.token \in good
           /\ spent' = [spent EXCEPT ![p] = @ \cup {e.row.token}]
  <2>1. lost' \in Nat /\ lost' # 0
    BY <1>7 DEF ZaloInv, ZaloTypeOK
  <2>2. good' \subseteq 1 .. granted' /\ spent' \in [Procs -> SUBSET (1 .. granted')]
    BY <1>7 DEF ZaloInv, ZaloTypeOK
  <2>3. ZaloTypeOK'
    BY <1>2, <1>3, <1>4, <1>5, <1>7, <2>1, <2>2 DEF ZaloInv, ZaloTypeOK
  <2>4. UnsavedAreFresh'
    BY <1>1, <1>2, <1>3, <1>4, <1>7, LosingKeepsFresh
  <2>5. NewestIsKnown' /\ NeverSpendsTwice'
    BY <2>1 DEF NewestIsKnown, NeverSpendsTwice
  <2>6. LinkOpensOnce'
    BY <1>2 DEF ZaloInv, LinkOpensOnce
  <2> QED
    BY <1>5, <2>3, <2>4, <2>5, <2>6 DEF ZaloInv
<1> QED
  BY <1>6, <1>7 DEF ZaloAnswersNothing, external

\* Zalo cannot be reached.
LEMMA UnreachableKeeps ==
  ASSUME ZaloInv, NEW p \in Procs, ZaloUnreachable(p)
  PROVE  ZaloInv'
<1>1. EndRefresh(p, FALSE) /\ refresh[p].pc = "called"
      /\ UNCHANGED <<good, granted, latest, admin, links, opened, issuedLinks, lost, crossed, spent>>
  BY DEF ZaloUnreachable, external
<1> QED
  BY <1>1, EndingMoves, LettingGo, RestingIsAnExchange

\* handleRefreshError: a token that somebody else saved is taken up, the last
\* look marks the row.
LEMMA HandlingKeeps ==
  ASSUME ZaloInv, NEW p \in Procs, HandleRefreshError(p)
  PROVE  ZaloInv'
<1> DEFINE e == refresh[p]
           r == [e EXCEPT !.checks = @ + 1, !.pc = IF e.checks + 1 < MaxChecks THEN "check" ELSE "mark"]
<1>1. /\ e \in Exchange /\ e.pc = "check" /\ e.checks \in Nat /\ e.checks < MaxChecks
      /\ UNCHANGED <<good, granted, latest, admin, links, opened, issuedLinks, lost, crossed, spent>>
  <2>1. e \in Exchange /\ e.pc = "check" /\ e.checks < MaxChecks
    BY DEF ZaloInv, ZaloTypeOK, HandleRefreshError
  <2>2. e.checks \in 0 .. MaxChecks
    BY <2>1 DEF Exchange
  <2> QED
    BY <2>1, <2>2 DEF HandleRefreshError, external
<1>2. CASE EndRefresh(p, TRUE)
  BY <1>1, <1>2, EndingMoves, LettingGo, RestingIsAnExchange
<1>3. CASE Moves(p, r) /\ UNCHANGED sender
  <2>1. /\ r \in Exchange /\ r.pc \in {"check", "mark"} /\ r.row = e.row
        /\ r.pc = "check" => r.checks < MaxChecks
    <3>1. e.checks + 1 \in 0 .. MaxChecks
      BY <1>1, ZaloAssumption
    <3> HIDE DEF e
    <3> QED
      BY <1>1, <3>1 DEF Exchange
  <2>2. \A q \in Procs : refresh[q] # Resting => refresh'[q] # Resting
    <3>1. refresh' = [refresh EXCEPT ![p] = r] /\ refresh \in [Procs -> Exchange]
      BY <1>3 DEF Moves, ZaloInv, ZaloTypeOK
    <3> HIDE DEF r
    <3> QED
      BY <2>1, <3>1, RestingIsAnExchange
  <2>3. WaitersAreServed' /\ sender' \in [Senders -> {"idle", "wait1", "wait2", "send1", "send2"}]
    BY <1>3, <2>2, ZaloAssumption DEF ZaloInv, ZaloTypeOK, WaitersAreServed
  <2> HIDE DEF r
  <2> QED
    BY <1>1, <1>3, <2>1, <2>3, LettingGo
<1>4. EndRefresh(p, TRUE) \/ (Moves(p, r) /\ UNCHANGED sender)
  BY DEF HandleRefreshError, Moves
<1> QED
  BY <1>2, <1>3, <1>4

\* The process that has the token that was spent saves the one it got for it.
LEMMA SavingKeeps ==
  ASSUME ZaloInv, NEW p \in Procs, SaveNewTokens(p)
  PROVE  ZaloInv'
<1>1. /\ refresh[p].pc = "save" /\ latest' = [token |-> refresh[p].new, dead |-> FALSE]
      /\ EndRefresh(p, TRUE)
      /\ UNCHANGED <<good, granted, admin, links, opened, issuedLinks, lost, crossed, spent>>
  BY DEF SaveNewTokens, SaveRow, external
<1>2. /\ Moves(p, Resting) /\ WaitersAreServed'
      /\ sender' \in [Senders -> {"idle", "wait1", "wait2", "send1", "send2"}]
  BY <1>1, EndingMoves
<1>3. /\ refresh' \in [Procs -> Exchange]
      /\ \A q \in Procs : refresh'[q] = IF q = p THEN Resting ELSE refresh[q]
  BY <1>2, MovesOne, RestingIsAnExchange
<1>4. refresh[p].new \in Nat
  BY DEF ZaloInv, ZaloTypeOK, Exchange
<1>5. latest' \in ZaloRow /\ latest'.token = refresh[p].new /\ ~latest'.dead
  BY <1>1, <1>4 DEF ZaloRow
<1>6. ZaloTypeOK'
  BY <1>1, <1>2, <1>3, <1>5, RestingIsAnExchange DEF ZaloInv, ZaloTypeOK
<1>7. Unsaved(p) /\ Fresh(refresh[p].new, Procs \ {p}, Admins)
  BY <1>1 DEF ZaloInv, UnsavedAreFresh, Unsaved
<1>8. \A q \in Procs : Unsaved(q)' <=> q # p /\ Unsaved(q)
  BY <1>3, RestingIsAnExchange DEF Unsaved
<1>9. UnsavedAreFresh'
  <2>1. \A q \in Procs : refresh'[q].pc # "idle" => q # p /\ refresh'[q] = refresh[q]
    BY <1>3, RestingIsAnExchange
  <2>2. ASSUME NEW q \in Procs, Unsaved(q)' PROVE Fresh(refresh[q].new, Procs \ {q}, Admins)'
    <3>1. q # p /\ Unsaved(q) /\ refresh'[q] = refresh[q] /\ Fresh(refresh[q].new, Procs \ {q}, Admins)
      BY <1>3, <1>8, <2>2 DEF ZaloInv, UnsavedAreFresh
    <3>2. refresh[q].new # refresh[p].new
      BY <1>7, <3>1 DEF Fresh
    <3> QED
      BY <1>1, <1>5, <1>8, <2>1, <3>1, <3>2 DEF Fresh, Unsaved, Authorising
  <2>3. ASSUME NEW a \in Admins, Authorising(a)' PROVE Fresh(admin[a].token, Procs, Admins \ {a})'
    <3>1. Authorising(a) /\ Fresh(admin[a].token, Procs, Admins \ {a})
      BY <1>1, <2>3 DEF ZaloInv, UnsavedAreFresh, Authorising
    <3>2. admin[a].token # refresh[p].new
      BY <1>7, <3>1 DEF Fresh
    <3> QED
      BY <1>1, <1>5, <1>8, <2>1, <3>1, <3>2 DEF Fresh, Unsaved, Authorising
  <2>4. latest'.token <= granted'
    BY <1>1, <1>5, <1>7 DEF Fresh
  <2>5. \A q \in Procs : refresh'[q].pc # "idle" => refresh'[q].row.token <= granted'
    BY <1>1, <2>1 DEF ZaloInv, UnsavedAreFresh
  <2> QED
    BY <2>2, <2>3, <2>4, <2>5 DEF UnsavedAreFresh
<1>10. NewestIsKnown'
  <2> SUFFICES ASSUME lost = 0, ~crossed PROVE NewestIsKnown'
    BY <1>1 DEF NewestIsKnown
  <2>1. refresh[p].new \in good /\ \A q \in Procs : refresh[p].new \notin spent[q]
    BY <1>7 DEF ZaloInv, NewestIsKnown, Fresh
  <2>2. \A q \in Procs : Unsaved(q)' => refresh'[q].new \in good
    BY <1>3, <1>8 DEF ZaloInv, NewestIsKnown
  <2>3. \A a \in Admins : admin[a].pc # "save"
    BY <1>1, RestingIsAnExchange DEF ZaloInv, NewestIsKnown, Authorising
  <2>4. \A a \in Admins : Authorising(a) =>
          admin[a].token \in good /\ \A b \in Admins \ {a} : ~Authorising(b)
    BY DEF ZaloInv, NewestIsKnown
  <2> QED
    BY <1>1, <1>5, <2>1, <2>2, <2>3, <2>4 DEF NewestIsKnown, Authorising
<1>11. NeverSpendsTwice'
  BY <1>1, <1>3, RestingIsAnExchange DEF ZaloInv, NeverSpendsTwice
<1>12. LinkOpensOnce'
  BY <1>1 DEF ZaloInv, LinkOpensOnce
<1> QED
  BY <1>2, <1>6, <1>9, <1>10, <1>11, <1>12 DEF ZaloInv

\* The row is marked as lost if it is still the one that was refused.
LEMMA MarkingKeeps ==
  ASSUME ZaloInv, NEW p \in Procs, MarkTokenExpired(p)
  PROVE  ZaloInv'
<1>1. /\ refresh[p].pc = "mark" /\ latest' = [refresh[p].row EXCEPT !.dead = TRUE]
      /\ EndRefresh(p, FALSE)
      /\ UNCHANGED <<good, granted, admin, links, opened, issuedLinks, lost, crossed, spent>>
  BY DEF MarkTokenExpired, SaveRow, external
<1>2. /\ Moves(p, Resting) /\ WaitersAreServed'
      /\ sender' \in [Senders -> {"idle", "wait1", "wait2", "send1", "send2"}]
  BY <1>1, EndingMoves
<1>3. /\ refresh' \in [Procs -> Exchange]
      /\ \A q \in Procs : refresh'[q] = IF q = p THEN Resting ELSE refresh[q]
  BY <1>2, MovesOne, RestingIsAnExchange
<1>4. refresh[p].row \in ZaloRow
  BY DEF ZaloInv, ZaloTypeOK, Exchange
<1>5. latest' \in ZaloRow /\ latest'.token = refresh[p].row.token /\ latest'.dead
  BY <1>1, <1>4 DEF ZaloRow
<1>6. ZaloTypeOK'
  BY <1>1, <1>2, <1>3, <1>5, RestingIsAnExchange DEF ZaloInv, ZaloTypeOK
<1>8. \A q \in Procs : Unsaved(q)' <=> Unsaved(q)
  BY <1>1, <1>3, RestingIsAnExchange DEF Unsaved
<1>9. UnsavedAreFresh'
  <2>1. \A q \in Procs : refresh'[q].pc # "idle" => q # p /\ refresh'[q] = refresh[q]
    BY <1>3, RestingIsAnExchange
  <2>2. ASSUME NEW q \in Procs, Unsaved(q)' PROVE Fresh(refresh[q].new, Procs \ {q}, Admins)'
    <3>1. q # p /\ Unsaved(q) /\ refresh'[q] = refresh[q] /\ Fresh(refresh[q].new, Procs \ {q}, Admins)
      BY <1>1, <1>3, <1>8, <2>2 DEF ZaloInv, UnsavedAreFresh, Unsaved
    <3>2. refresh[q].new # refresh[p].row.token
      BY <1>1, <3>1 DEF Fresh
    <3> QED
      BY <1>1, <1>5, <1>8, <2>1, <3>1, <3>2 DEF Fresh, Unsaved, Authorising
  <2>3. ASSUME NEW a \in Admins, Authorising(a)' PROVE Fresh(admin[a].token, Procs, Admins \ {a})'
    <3>1. Authorising(a) /\ Fresh(admin[a].token, Procs, Admins \ {a})
      BY <1>1, <2>3 DEF ZaloInv, UnsavedAreFresh, Authorising
    <3>2. admin[a].token # refresh[p].row.token
      BY <1>1, <3>1 DEF Fresh
    <3> QED
      BY <1>1, <1>5, <1>8, <2>1, <3>1, <3>2 DEF Fresh, Unsaved, Authorising
  <2>4. latest'.token <= granted'
    BY <1>1, <1>5 DEF ZaloInv, UnsavedAreFresh
  <2>5. \A q \in Procs : refresh'[q].pc # "idle" => refresh'[q].row.token <= granted'
    BY <1>1, <2>1 DEF ZaloInv, UnsavedAreFresh
  <2> QED
    BY <2>2, <2>3, <2>4, <2>5 DEF UnsavedAreFresh
<1>10. NewestIsKnown'
  <2> SUFFICES ASSUME lost = 0, ~crossed PROVE NewestIsKnown'
    BY <1>1 DEF NewestIsKnown
  <2>2. \A q \in Procs : Unsaved(q)' => refresh'[q].new \in good
    BY <1>1, <1>3, <1>8 DEF ZaloInv, NewestIsKnown, Unsaved
  <2>3. \A a \in Admins : admin[a].pc # "save"
    BY <1>1, RestingIsAnExchange DEF ZaloInv, NewestIsKnown, Authorising
  <2>4. \A a \in Admins : Authorising(a) =>
          admin[a].token \in good /\ \A b \in Admins \ {a} : ~Authorising(b)
    BY DEF ZaloInv, NewestIsKnown
  <2> QED
    BY <1>1, <1>5, <2>2, <2>3, <2>4 DEF NewestIsKnown, Authorising
<1>11. NeverSpendsTwice'
  BY <1>1, <1>3, RestingIsAnExchange DEF ZaloInv, NeverSpendsTwice
<1>12. LinkOpensOnce'
  BY <1>1 DEF ZaloInv, LinkOpensOnce
<1> QED
  BY <1>2, <1>6, <1>9, <1>10, <1>11, <1>12 DEF ZaloInv

\* The requests move alone.
LEMMA SendersMove ==
  ASSUME ZaloInv, UNCHANGED <<good, granted, latest, refresh, admin, links, opened, issuedLinks,
                              lost, crossed, spent>>,
         NEW s \in Senders, NEW state \in {"idle", "wait1", "wait2", "send1", "send2"},
         sender' = [sender EXCEPT ![s] = state],
         state \in {"wait1", "wait2"} => refresh[ProcOf[s]] # Resting
  PROVE  ZaloInv'
<1>1. ZaloTypeOK'
  BY DEF ZaloInv, ZaloTypeOK
<1>2. WaitersAreServed'
  BY DEF ZaloInv, ZaloTypeOK, WaitersAreServed
<1>3. UnsavedAreFresh' /\ NewestIsKnown'
  BY DEF ZaloInv, UnsavedAreFresh, Fresh, NewestIsKnown, Unsaved, Authorising
<1>4. NeverSpendsTwice' /\ LinkOpensOnce'
  BY DEF ZaloInv, NeverSpendsTwice, LinkOpensOnce
<1> QED
  BY <1>1, <1>2, <1>3, <1>4 DEF ZaloInv

\* A sender starts an exchange or waits for the one under way.
LEMMA JoiningKeeps ==
  ASSUME ZaloInv, NEW s \in Senders, NEW attempt \in {"wait1", "wait2"}, JoinsRefresh(s, attempt),
         UNCHANGED <<good, granted, latest, admin, links, opened, issuedLinks, lost, crossed, spent>>
  PROVE  ZaloInv'
<1>1. sender' = [sender EXCEPT ![s] = attempt] /\ ProcOf[s] \in Procs
  BY ZaloAssumption DEF JoinsRefresh
<1>2. CASE refresh[ProcOf[s]] = Resting
  <2>1. StartRefresh(ProcOf[s])
    BY <1>2 DEF JoinsRefresh
  <2>2. sender \in [Senders -> {"idle", "wait1", "wait2", "send1", "send2"}]
    BY DEF ZaloInv, ZaloTypeOK
  <2>3. sender' \in [Senders -> {"idle", "wait1", "wait2", "send1", "send2"}]
    BY <1>1, <2>2
  <2>4. \A r \in Senders : sender'[r] \in {"wait1", "wait2"} =>
           ProcOf[r] = ProcOf[s] \/ sender[r] \in {"wait1", "wait2"}
    BY <1>1, <2>2
  <2> QED
    BY <1>1, <2>1, <2>3, <2>4, StartingKeeps
<1>3. CASE refresh[ProcOf[s]] # Resting
  <2>1. UNCHANGED refresh
    BY <1>3 DEF JoinsRefresh
  <2> QED
    BY <1>1, <1>3, <2>1, SendersMove
<1> QED
  BY <1>2, <1>3

\* The steps of a sender.
LEMMA SendingKeeps ==
  ASSUME ZaloInv, NEW s \in Senders,
         (\E soon \in BOOLEAN : SendOtp(s, soon)) \/ Delivered(s) \/ AccessRefused(s)
  PROVE  ZaloInv'
<1>1. ASSUME NEW soon \in BOOLEAN, SendOtp(s, soon) PROVE ZaloInv'
  <2>1. UNCHANGED <<good, granted, latest, admin, links, opened, issuedLinks, lost, crossed, spent>>
    BY <1>1 DEF SendOtp, external
  <2>2. JoinsRefresh(s, "wait1") \/ (sender' = [sender EXCEPT ![s] = "send1"] /\ UNCHANGED refresh)
    BY <1>1 DEF SendOtp
  <2> QED
    BY <2>1, <2>2, JoiningKeeps, SendersMove
<1>2. CASE Delivered(s)
  BY <1>2, SendersMove DEF Delivered, external
<1>3. CASE AccessRefused(s)
  BY <1>3, JoiningKeeps DEF AccessRefused, external
<1> QED
  BY <1>1, <1>2, <1>3

\* The links move alone.
LEMMA LinksMove ==
  ASSUME ZaloInv, UNCHANGED <<good, granted, latest, refresh, sender, admin, opened, lost, crossed, spent>>,
         links' \in Seq(Nat), Len(links') <= MaxLinks, issuedLinks' \in Nat,
         Len(links') - issuedLinks' <= Len(links) - issuedLinks
  PROVE  ZaloInv'
<1>1. ZaloTypeOK'
  BY DEF ZaloInv, ZaloTypeOK
<1>2. LinkOpensOnce'
  <2>1. opened \in Nat /\ issuedLinks \in Nat /\ opened + Len(links) <= issuedLinks
        /\ Len(links) \in Nat /\ Len(links') \in Nat
    BY DEF ZaloInv, ZaloTypeOK, LinkOpensOnce
  <2> QED
    BY <2>1 DEF LinkOpensOnce
<1>3. UnsavedAreFresh' /\ NewestIsKnown' /\ WaitersAreServed' /\ NeverSpendsTwice'
  BY DEF ZaloInv, UnsavedAreFresh, Fresh, NewestIsKnown, Unsaved, Authorising, WaitersAreServed,
         NeverSpendsTwice
<1> QED
  BY <1>1, <1>2, <1>3 DEF ZaloInv

\* Issuing one makes room for it.
LEMMA LinksComeAndGo == ASSUME ZaloInv, IssueLink \/ LinkExpires PROVE ZaloInv'
<1>1. links \in Seq(Nat) /\ Len(links) <= MaxLinks /\ issuedLinks \in Nat /\ MaxLinks \in Nat \ {0}
  BY ZaloAssumption DEF ZaloInv, ZaloTypeOK
<1>2. ASSUME links # << >> PROVE Tail(links) \in Seq(Nat) /\ Len(Tail(links)) = Len(links) - 1
  BY <1>1, <1>2
<1>3. CASE LinkExpires
  <2>1. /\ UNCHANGED <<good, granted, latest, refresh, sender, admin, opened, lost, crossed, spent, issuedLinks>>
        /\ links # << >> /\ links' = Tail(links)
    BY <1>3 DEF LinkExpires, external
  <2> QED
    BY <1>1, <1>2, <2>1, LinksMove
<1>4. CASE IssueLink
  <2>1. /\ UNCHANGED <<good, granted, latest, refresh, sender, admin, opened, lost, crossed, spent>>
        /\ issuedLinks' = issuedLinks + 1
        /\ links' = IF Len(links) < MaxLinks THEN Append(links, issuedLinks')
                    ELSE Append(Tail(links), issuedLinks')
    BY <1>4 DEF IssueLink, external
  <2>2. CASE Len(links) < MaxLinks
    <3>1. links' \in Seq(Nat) /\ Len(links') = Len(links) + 1
      BY <1>1, <2>1, <2>2
    <3> QED
      BY <1>1, <2>1, <2>2, <3>1, LinksMove
  <2>3. CASE ~(Len(links) < MaxLinks)
    <3>1. links # << >>
      BY <1>1, <2>3
    <3>2. links' \in Seq(Nat) /\ Len(links') = Len(links)
      BY <1>1, <1>2, <2>1, <2>3, <3>1
    <3> QED
      BY <1>1, <2>1, <3>2, LinksMove
  <2> QED
    BY <2>2, <2>3
<1> QED
  BY <1>3, <1>4

\* A link that is used is gone.
LEMMA ConsumingShortens ==
  ASSUME ZaloTypeOK, NEW i \in DOMAIN links
  PROVE  Consumed(i) \in Seq(Nat) /\ Len(Consumed(i)) = Len(links) - 1
<1>1. links \in Seq(Nat) /\ i \in 1 .. Len(links)
  BY DEF ZaloTypeOK
<1>2. SubSeq(links, 1, i - 1) \in Seq(Nat) /\ Len(SubSeq(links, 1, i - 1)) = i - 1
  BY <1>1
<1>3. SubSeq(links, i + 1, Len(links)) \in Seq(Nat)
      /\ Len(SubSeq(links, i + 1, Len(links))) = Len(links) - i
  <2>1. ASSUME NEW s \in Seq(Nat), NEW m \in 1 .. Len(s) + 1
        PROVE  SubSeq(s, m, Len(s)) \in Seq(Nat) /\ Len(SubSeq(s, m, Len(s))) = Len(s) + 1 - m
    OBVIOUS
  <2>2. i + 1 \in 1 .. Len(links) + 1 /\ Len(links) + 1 - (i + 1) = Len(links) - i
    BY <1>1
  <2> QED
    BY <1>1, <2>1, <2>2
<1>4. ASSUME NEW a \in Seq(Nat), NEW b \in Seq(Nat)
      PROVE  a \o b \in Seq(Nat) /\ Len(a \o b) = Len(a) + Len(b)
  OBVIOUS
<1>5. Consumed(i) \in Seq(Nat)
      /\ Len(Consumed(i)) = Len(SubSeq(links, 1, i - 1)) + Len(SubSeq(links, i + 1, Len(links)))
  BY <1>2, <1>3, <1>4 DEF Consumed
<1>6. Len(links) \in Nat /\ i \in Nat
  BY <1>1
<1>7. Len(Consumed(i)) = (i - 1) + (Len(links) - i)
  BY <1>2, <1>3, <1>5
<1>8. (i - 1) + (Len(links) - i) = Len(links) - 1
  <2>1. \A n \in Nat, k \in Nat : (k - 1) + (n - k) = n - 1
    OBVIOUS
  <2> QED
    BY <1>6, <2>1
<1> QED
  BY <1>5, <1>7, <1>8

\* More tokens are handed out, and what is fresh stays so.
LEMMA GrantingKeepsFresh ==
  ASSUME ZaloInv, ZaloGrants, UNCHANGED <<latest, refresh, spent>>,
         NEW t, NEW procs \in SUBSET Procs, NEW admins \in SUBSET Admins, Fresh(t, procs, admins),
         \A b \in admins : Authorising(b)' => Authorising(b) /\ admin'[b] = admin[b]
  PROVE  Fresh(t, procs, admins)'
<1>1. 1 .. granted \subseteq 1 .. granted'
  <2>1. granted \in 1 .. MaxGrants /\ granted' = granted + 1
    BY DEF ZaloInv, ZaloTypeOK, ZaloGrants
  <2> QED
    BY <2>1, ZaloAssumption
<1> QED
  BY <1>1 DEF Fresh, Unsaved

\* What Zalo hands out keeps its numbers.
LEMMA Granting ==
  ASSUME ZaloInv, ZaloGrants, UNCHANGED spent
  PROVE  /\ granted' \in 1 .. MaxGrants /\ granted' \in 1 .. granted'
         /\ granted' = granted + 1 /\ granted \in Nat
         /\ good' \subseteq 1 .. granted' /\ spent' \in [Procs -> SUBSET (1 .. granted')]
<1>1. granted \in 1 .. MaxGrants /\ MaxGrants \in Nat /\ good \subseteq 1 .. granted
      /\ spent \in [Procs -> SUBSET (1 .. granted)]
  BY ZaloAssumption DEF ZaloInv, ZaloTypeOK
<1>2. granted < MaxGrants /\ granted' = granted + 1 /\ good' \in {{granted'}, good \cup {granted'}}
  BY DEF ZaloGrants
<1>3. granted \in Nat /\ granted' \in 1 .. MaxGrants /\ 1 .. granted \subseteq 1 .. granted'
      /\ granted' \in 1 .. granted'
  BY <1>1, <1>2
<1> QED
  BY <1>1, <1>2, <1>3

\* An authorisation gets a token that nobody has seen.
LEMMA TakingKeeps ==
  ASSUME ZaloInv, NEW a \in Admins, TakesToken(a),
         UNCHANGED <<latest, refresh, sender, issuedLinks, spent>>,
         links' \in Seq(Nat), Len(links') <= MaxLinks, opened' \in Nat, LinkOpensOnce'
  PROVE  ZaloInv'
<1>1. /\ admin[a] = NoGrant /\ ZaloGrants /\ UNCHANGED lost
      /\ admin' = [admin EXCEPT ![a] = [pc |-> "clear", token |-> granted']]
      /\ crossed' = (crossed \/ Crosses(a))
  BY DEF TakesToken
<1>2. /\ granted' \in 1 .. MaxGrants /\ granted' \in 1 .. granted'
      /\ granted' = granted + 1 /\ granted \in Nat
      /\ good' \subseteq 1 .. granted' /\ spent' \in [Procs -> SUBSET (1 .. granted')]
  BY <1>1, Granting
<1>3. /\ \A b \in Admins : admin'[b] = IF b = a THEN [pc |-> "clear", token |-> granted'] ELSE admin[b]
      /\ admin' \in [Admins -> [pc : {"idle", "clear", "save"}, token : Nat]]
  <2>1. [pc |-> "clear", token |-> granted'] \in [pc : {"idle", "clear", "save"}, token : Nat]
    BY <1>2
  <2> QED
    BY <1>1, <2>1 DEF ZaloInv, ZaloTypeOK
<1>4. ZaloTypeOK'
  BY <1>1, <1>2, <1>3 DEF ZaloInv, ZaloTypeOK
<1>5. /\ \A p \in Procs : /\ refresh[p].pc # "idle" => refresh[p].row.token <= granted
                          /\ Unsaved(p) => refresh[p].new <= granted
                          /\ refresh[p].row.token \in Nat /\ refresh[p].new \in Nat
                          /\ spent[p] \subseteq 1 .. granted
      /\ latest.token \in Nat /\ latest.token <= granted
      /\ \A b \in Admins : admin[b].token \in Nat /\ (Authorising(b) => admin[b].token <= granted)
  BY DEF ZaloInv, UnsavedAreFresh, Fresh, ZaloTypeOK, Exchange, ZaloRow
<1>6. UnsavedAreFresh'
  <2>1. Fresh(admin[a].token, Procs, Admins \ {a})'
    <3>1. /\ admin'[a].token = granted' /\ granted' # latest.token
          /\ \A b \in Admins \ {a} : Authorising(b)' => admin'[b].token # granted'
      BY <1>2, <1>3, <1>5 DEF Authorising
    <3>2. \A p \in Procs : /\ refresh[p].pc # "idle" => refresh[p].row.token # granted'
                           /\ Unsaved(p) => refresh[p].new # granted'
                           /\ granted' \notin spent[p]
      BY <1>2, <1>5
    <3>3. latest' = latest /\ refresh' = refresh /\ spent' = spent
      OBVIOUS
    <3>4. admin'[a].token \in 1 .. granted'
      BY <1>2, <3>1
    <3> QED
      BY <3>1, <3>2, <3>3, <3>4 DEF Fresh, Unsaved, Authorising
  <2>2. ASSUME NEW p \in Procs, Unsaved(p)' PROVE Fresh(refresh[p].new, Procs \ {p}, Admins)'
    <3>1. Fresh(refresh[p].new, Procs \ {p}, Admins) /\ Unsaved(p)
      BY <2>2 DEF ZaloInv, UnsavedAreFresh, Unsaved
    <3>2. /\ refresh[p].new # granted' /\ refresh[p].new \in 1 .. granted'
          /\ admin'[a].token = granted'
      BY <1>2, <1>3, <1>5, <3>1 DEF Fresh
    <3>3. \A b \in Admins : Authorising(b)' => b = a \/ (Authorising(b) /\ admin'[b] = admin[b])
      BY <1>3 DEF Authorising
    <3> QED
      BY <3>1, <3>2, <3>3 DEF Fresh, Unsaved, Authorising
  <2>3. ASSUME NEW b \in Admins, b # a, Authorising(b)' PROVE Fresh(admin[b].token, Procs, Admins \ {b})'
    <3>1. Fresh(admin[b].token, Procs, Admins \ {b}) /\ Authorising(b) /\ admin'[b] = admin[b]
      BY <1>3, <2>3 DEF ZaloInv, UnsavedAreFresh, Authorising
    <3>2. admin'[b].token # granted' /\ admin'[b].token \in 1 .. granted' /\ admin'[a].token = granted'
      BY <1>2, <1>3, <1>5, <3>1 DEF Fresh
    <3>3. \A c \in Admins \ {a} : admin'[c] = admin[c] /\ (Authorising(c)' <=> Authorising(c))
      BY <1>3 DEF Authorising
    <3>4. \A c \in Admins \ {b} : Authorising(c)' => admin'[b].token # admin'[c].token
      BY <3>1, <3>2, <3>3 DEF Fresh, Authorising
    <3> QED
      BY <3>1, <3>2, <3>4 DEF Fresh, Unsaved, Authorising
  <2>4. latest'.token <= granted' /\ \A p \in Procs : refresh'[p].pc # "idle" => refresh'[p].row.token <= granted'
    BY <1>2, <1>5
  <2> QED
    BY <2>1, <2>2, <2>3, <2>4 DEF UnsavedAreFresh
<1>7. NewestIsKnown'
  <2> SUFFICES ASSUME lost = 0, ~crossed, \A p \in Procs : refresh[p] = Resting,
                      \A b \in Admins \ {a} : admin[b] = NoGrant
               PROVE  NewestIsKnown'
    BY <1>1 DEF NewestIsKnown, Crosses
  <2>1. \A p \in Procs : ~Unsaved(p)'
    BY RestingIsAnExchange DEF Unsaved
  <2>2. granted' \in good'
    BY <1>1 DEF ZaloGrants
  <2>3. ~latest.dead => \A p \in Procs : latest.token \notin spent[p]
    BY RestingIsAnExchange DEF ZaloInv, NewestIsKnown, Unsaved
  <2>4. \A b \in Admins : Authorising(b)' <=> b = a
    BY <1>3 DEF Authorising, NoGrant
  <2>5. admin'[a].token = granted' /\ admin'[a].pc = "clear"
    BY <1>3
  <2> QED
    BY <2>1, <2>2, <2>3, <2>4, <2>5 DEF NewestIsKnown
<1>8. NeverSpendsTwice' /\ WaitersAreServed'
  BY <1>1 DEF ZaloInv, NeverSpendsTwice, WaitersAreServed
<1> QED
  BY <1>4, <1>6, <1>7, <1>8 DEF ZaloInv

\* A code is exchanged: the answer comes, is lost, or is none.
LEMMA OauthKeeps ==
  ASSUME ZaloInv, NEW a \in Admins, NEW i \in DOMAIN links, OauthCallback(a, i)
  PROVE  ZaloInv'
<1>1. /\ links' = Consumed(i) /\ opened' = opened + 1
      /\ UNCHANGED <<latest, refresh, sender, issuedLinks, spent>>
  BY DEF OauthCallback
<1>2. links' \in Seq(Nat) /\ Len(links') = Len(links) - 1
  BY <1>1, ConsumingShortens DEF ZaloInv
<1>3. links \in Seq(Nat) /\ Len(links) <= MaxLinks /\ opened \in Nat /\ MaxLinks \in Nat
      /\ opened + Len(links) <= issuedLinks /\ issuedLinks \in Nat
  BY ZaloAssumption DEF ZaloInv, ZaloTypeOK, LinkOpensOnce
<1>4. Len(links') <= MaxLinks /\ opened' \in Nat /\ LinkOpensOnce'
  BY <1>1, <1>2, <1>3 DEF LinkOpensOnce
<1>5. CASE TakesToken(a)
  BY <1>1, <1>2, <1>4, <1>5, TakingKeeps
<1>6. CASE ZaloGrants /\ lost' = lost + 1 /\ UNCHANGED <<admin, crossed>>
  <2>1. lost' \in Nat /\ lost' # 0
    BY <1>6 DEF ZaloInv, ZaloTypeOK
  <2>2. ZaloTypeOK'
    BY <1>1, <1>2, <1>4, <1>6, <2>1, Granting DEF ZaloInv, ZaloTypeOK
  <2>3. UnsavedAreFresh'
    <3>1. ASSUME NEW p \in Procs, Unsaved(p)' PROVE Fresh(refresh[p].new, Procs \ {p}, Admins)'
      <4>1. Fresh(refresh[p].new, Procs \ {p}, Admins)
        BY <1>1, <3>1 DEF ZaloInv, UnsavedAreFresh, Unsaved
      <4> QED
        BY <1>1, <1>6, <4>1, GrantingKeepsFresh DEF Authorising
    <3>2. ASSUME NEW b \in Admins, Authorising(b)' PROVE Fresh(admin[b].token, Procs, Admins \ {b})'
      <4>1. Fresh(admin[b].token, Procs, Admins \ {b})
        BY <1>6, <3>2 DEF ZaloInv, UnsavedAreFresh, Authorising
      <4> QED
        BY <1>1, <1>6, <4>1, GrantingKeepsFresh DEF Authorising
    <3>3. \A p \in Procs : refresh[p].row.token \in Nat /\ latest.token \in Nat
      BY DEF ZaloInv, ZaloTypeOK, Exchange, ZaloRow
    <3>4. /\ latest'.token <= granted'
          /\ \A p \in Procs : refresh'[p].pc # "idle" => refresh'[p].row.token <= granted'
      <4>1. granted' = granted + 1 /\ granted \in Nat
        BY <1>1, <1>6, Granting
      <4>2. latest.token \in Nat /\ latest.token <= granted
        BY DEF ZaloInv, UnsavedAreFresh, ZaloTypeOK, ZaloRow
      <4> QED
        BY <1>1, <3>3, <4>1, <4>2 DEF ZaloInv, UnsavedAreFresh
    <3> QED
      BY <3>1, <3>2, <3>4 DEF UnsavedAreFresh
  <2>4. NewestIsKnown' /\ NeverSpendsTwice'
    BY <2>1 DEF NewestIsKnown, NeverSpendsTwice
  <2>5. WaitersAreServed'
    BY <1>1 DEF ZaloInv, WaitersAreServed
  <2> QED
    BY <1>4, <2>2, <2>3, <2>4, <2>5 DEF ZaloInv
<1>7. CASE UNCHANGED <<good, granted, admin, crossed, lost>>
  <2>1. ZaloTypeOK'
    BY <1>1, <1>2, <1>4, <1>7 DEF ZaloInv, ZaloTypeOK
  <2>2. UnsavedAreFresh' /\ NewestIsKnown' /\ WaitersAreServed' /\ NeverSpendsTwice'
    BY <1>1, <1>7 DEF ZaloInv, UnsavedAreFresh, Fresh, NewestIsKnown, Unsaved, Authorising,
       WaitersAreServed, NeverSpendsTwice
  <2> QED
    BY <1>4, <2>1, <2>2 DEF ZaloInv
<1> QED
  BY <1>5, <1>6, <1>7 DEF OauthCallback, external

\* A token is brought from elsewhere.
LEMMA InitKeeps == ASSUME ZaloInv, NEW a \in Admins, InitToken(a) PROVE ZaloInv'
<1>1. /\ TakesToken(a)
      /\ UNCHANGED <<latest, refresh, sender, links, opened, issuedLinks, spent>>
  BY DEF InitToken
<1>2. links' \in Seq(Nat) /\ Len(links') <= MaxLinks /\ opened' \in Nat /\ LinkOpensOnce'
  BY <1>1 DEF ZaloInv, ZaloTypeOK, LinkOpensOnce
<1> QED
  BY <1>1, <1>2, TakingKeeps

\* initToken clears the table.
LEMMA ClearingKeeps == ASSUME ZaloInv, NEW a \in Admins, InitTokenClears(a) PROVE ZaloInv'
<1>1. /\ admin[a].pc = "clear" /\ latest' = NoZaloRow /\ admin' = [admin EXCEPT ![a].pc = "save"]
      /\ crossed' = (crossed \/ Crosses(a))
      /\ UNCHANGED <<good, granted, refresh, sender, links, opened, issuedLinks, lost, spent>>
  BY DEF InitTokenClears, external
<1>2. admin \in [Admins -> [pc : {"idle", "clear", "save"}, token : Nat]]
  BY DEF ZaloInv, ZaloTypeOK
<1>3. /\ admin' \in [Admins -> [pc : {"idle", "clear", "save"}, token : Nat]] /\ crossed' \in BOOLEAN
      /\ admin'[a].pc = "save" /\ \A b \in Admins \ {a} : admin'[b] = admin[b]
      /\ \A b \in Admins : admin'[b].token = admin[b].token /\ (Authorising(b)' <=> Authorising(b))
  BY <1>1, <1>2 DEF Authorising
<1>4. latest' \in ZaloRow /\ latest'.token = 0 /\ latest'.dead
  BY <1>1 DEF NoZaloRow, ZaloRow
<1>5. ZaloTypeOK'
  BY <1>1, <1>3, <1>4 DEF ZaloInv, ZaloTypeOK
<1>6. Authorising(a) /\ (lost = 0 /\ ~crossed => admin[a].token \in good)
  BY <1>1 DEF ZaloInv, NewestIsKnown, Authorising
<1>8. UnsavedAreFresh'
  <2>1. ASSUME NEW b \in Admins, Authorising(b)' PROVE Fresh(admin[b].token, Procs, Admins \ {b})'
    <3>1. Fresh(admin[b].token, Procs, Admins \ {b})
      BY <1>3, <2>1 DEF ZaloInv, UnsavedAreFresh
    <3> QED
      BY <1>1, <1>3, <1>4, <3>1 DEF Fresh, Unsaved
  <2>2. ASSUME NEW p \in Procs, Unsaved(p)' PROVE Fresh(refresh[p].new, Procs \ {p}, Admins)'
    <3>1. Fresh(refresh[p].new, Procs \ {p}, Admins)
      BY <1>1, <2>2 DEF ZaloInv, UnsavedAreFresh, Unsaved
    <3> QED
      BY <1>1, <1>3, <1>4, <3>1 DEF Fresh, Unsaved
  <2>3. latest'.token <= granted'
    <3>1. granted \in 1 .. MaxGrants
      BY DEF ZaloInv, ZaloTypeOK
    <3> QED
      BY <1>1, <1>4, <3>1
  <2>4. \A p \in Procs : refresh'[p].pc # "idle" => refresh'[p].row.token <= granted'
    BY <1>1 DEF ZaloInv, UnsavedAreFresh
  <2> QED
    BY <2>1, <2>2, <2>3, <2>4 DEF UnsavedAreFresh
<1>9. NewestIsKnown'
  <2> SUFFICES ASSUME lost = 0, ~crossed, \A p \in Procs : refresh[p] = Resting,
                      \A b \in Admins \ {a} : admin[b] = NoGrant
               PROVE  NewestIsKnown'
    BY <1>1 DEF NewestIsKnown, Crosses
  <2>1. \A p \in Procs : ~Unsaved(p)'
    BY <1>1, RestingIsAnExchange DEF Unsaved
  <2>2. \A b \in Admins : Authorising(b)' <=> b = a
    BY <1>3, <1>6 DEF Authorising, NoGrant
  <2> QED
    BY <1>1, <1>3, <1>4, <1>6, <2>1, <2>2 DEF NewestIsKnown
<1>10. NeverSpendsTwice' /\ WaitersAreServed' /\ LinkOpensOnce'
  BY <1>1 DEF ZaloInv, NeverSpendsTwice, WaitersAreServed, LinkOpensOnce
<1> QED
  BY <1>5, <1>8, <1>9, <1>10 DEF ZaloInv

\* The new row is saved.
LEMMA InitSavingKeeps == ASSUME ZaloInv, NEW a \in Admins, InitTokenSaves(a) PROVE ZaloInv'
<1>1. /\ admin[a].pc = "save" /\ latest' = [token |-> admin[a].token, dead |-> FALSE]
      /\ admin' = [admin EXCEPT ![a] = NoGrant]
      /\ crossed' = (crossed \/ Crosses(a))
      /\ UNCHANGED <<good, granted, refresh, sender, links, opened, issuedLinks, lost, spent>>
  BY DEF InitTokenSaves, SaveRow, external
<1>2. admin \in [Admins -> [pc : {"idle", "clear", "save"}, token : Nat]]
  BY DEF ZaloInv, ZaloTypeOK
<1>3. /\ admin' \in [Admins -> [pc : {"idle", "clear", "save"}, token : Nat]] /\ crossed' \in BOOLEAN
      /\ admin'[a] = NoGrant /\ ~Authorising(a)'
      /\ \A b \in Admins \ {a} : admin'[b] = admin[b] /\ (Authorising(b)' <=> Authorising(b))
  BY <1>1, <1>2 DEF Authorising, NoGrant
<1>4. latest' \in ZaloRow /\ latest'.token = admin[a].token /\ ~latest'.dead
  BY <1>1, <1>2 DEF ZaloRow
<1>5. ZaloTypeOK'
  BY <1>1, <1>3, <1>4 DEF ZaloInv, ZaloTypeOK
<1>6. Fresh(admin[a].token, Procs, Admins \ {a}) /\ Authorising(a)
      /\ (lost = 0 /\ ~crossed => admin[a].token \in good)
  BY <1>1 DEF ZaloInv, UnsavedAreFresh, NewestIsKnown, Authorising
<1>8. UnsavedAreFresh'
  <2>1. ASSUME NEW b \in Admins, Authorising(b)' PROVE Fresh(admin[b].token, Procs, Admins \ {b})'
    <3>1. b # a /\ Fresh(admin[b].token, Procs, Admins \ {b}) /\ admin'[b] = admin[b] /\ Authorising(b)
      BY <1>3, <2>1 DEF ZaloInv, UnsavedAreFresh
    <3>2. admin[b].token # admin[a].token
      BY <1>6, <3>1 DEF Fresh
    <3> QED
      BY <1>1, <1>3, <1>4, <3>1, <3>2 DEF Fresh, Unsaved
  <2>2. ASSUME NEW p \in Procs, Unsaved(p)' PROVE Fresh(refresh[p].new, Procs \ {p}, Admins)'
    <3>1. Fresh(refresh[p].new, Procs \ {p}, Admins) /\ Unsaved(p)
      BY <1>1, <2>2 DEF ZaloInv, UnsavedAreFresh, Unsaved
    <3>2. refresh[p].new # admin[a].token
      BY <1>6, <3>1 DEF Fresh
    <3> QED
      BY <1>1, <1>3, <1>4, <3>1, <3>2 DEF Fresh, Unsaved
  <2>3. latest'.token <= granted'
    <3>1. admin[a].token \in 1 .. granted
      BY <1>6 DEF Fresh
    <3>2. granted \in 1 .. MaxGrants
      BY DEF ZaloInv, ZaloTypeOK
    <3> QED
      BY <1>1, <1>4, <3>1, <3>2, ZaloAssumption
  <2>4. \A p \in Procs : refresh'[p].pc # "idle" => refresh'[p].row.token <= granted'
    BY <1>1 DEF ZaloInv, UnsavedAreFresh
  <2> QED
    BY <2>1, <2>2, <2>3, <2>4 DEF UnsavedAreFresh
<1>9. NewestIsKnown'
  <2> SUFFICES ASSUME lost = 0, ~crossed, \A p \in Procs : refresh[p] = Resting,
                      \A b \in Admins \ {a} : admin[b] = NoGrant
               PROVE  NewestIsKnown'
    BY <1>1 DEF NewestIsKnown, Crosses
  <2>1. \A p \in Procs : ~Unsaved(p)' /\ admin[a].token \notin spent[p]
    BY <1>1, <1>6, RestingIsAnExchange DEF Unsaved, Fresh
  <2>2. \A b \in Admins : ~Authorising(b)'
    BY <1>3 DEF Authorising, NoGrant
  <2> QED
    BY <1>1, <1>4, <1>6, <2>1, <2>2 DEF NewestIsKnown
<1>10. NeverSpendsTwice' /\ WaitersAreServed' /\ LinkOpensOnce'
  BY <1>1 DEF ZaloInv, NeverSpendsTwice, WaitersAreServed, LinkOpensOnce
<1> QED
  BY <1>5, <1>8, <1>9, <1>10 DEF ZaloInv

\* Every step.
LEMMA ZaloStep == ZaloInv /\ [ZaloNext]_zaloVars => ZaloInv'
<1> SUFFICES ASSUME ZaloInv, [ZaloNext]_zaloVars PROVE ZaloInv'
  OBVIOUS
<1>1. CASE UNCHANGED zaloVars
  BY <1>1 DEF zaloVars, ZaloInv, ZaloTypeOK, UnsavedAreFresh, Fresh, NewestIsKnown, Unsaved,
     Authorising, NeverSpendsTwice, WaitersAreServed, LinkOpensOnce
<1>2. ASSUME NEW p \in Procs, KeepAliveToken(p) PROVE ZaloInv'
  <2>1. /\ StartRefresh(p)
        /\ UNCHANGED <<good, granted, latest, sender, admin, links, opened, issuedLinks,
                       lost, crossed, spent>>
    BY <1>2 DEF KeepAliveToken, external
  <2>2. sender' \in [Senders -> {"idle", "wait1", "wait2", "send1", "send2"}]
    BY <2>1 DEF ZaloInv, ZaloTypeOK
  <2> QED
    BY <2>1, <2>2, StartingKeeps
<1> QED
  BY <1>1, <1>2, ExchangingKeeps, RefusingKeeps, UnreachableKeeps, SavingKeeps, HandlingKeeps,
     MarkingKeeps, SendingKeeps, LinksComeAndGo, OauthKeeps, InitKeeps,
     AnsweringNothingKeeps, ClearingKeeps, InitSavingKeeps
     DEF ZaloNext

\* The keeping of the Zalo token keeps its promise (zalo.service.ts): at rest
\* the stored token works or is marked as lost, no process spends a token
\* twice, nobody waits for an exchange that is not under way, and a link opens
\* once, for any number of processes, senders and authorisations under way.
THEOREM ZaloTokenKept == ZaloSpec => []ZaloTokenPromise
<1>1. ZaloInv => ZaloTokenPromise
  <2>1. ZaloInv => StoredTokenWorks
    BY RestingIsAnExchange
       DEF ZaloInv, NewestIsKnown, StoredTokenWorks, Authorising, NoGrant, Unsaved, FindLatestToken
  <2> QED
    BY <2>1 DEF ZaloInv, ZaloTokenPromise
<1> QED
  BY <1>1, ZaloStarts, ZaloStep, PTL DEF ZaloSpec

-----------------------------------------------------------------------------
(* Chat groups: what requests rely on, and where the pictures are.         *)

GroupsInv ==
  /\ ChatGroupsTypeOK /\ RequestsRely /\ PicturesAreKnown
  /\ MembershipHolds /\ PicturesExist

\* What a desk holds tells what it is at.
LEMMA DeskKinds ==
  ASSUME NEW o \in ChatDesk
  PROVE  /\ o.at = "direct" => o \in DirectDesk
         /\ o.at = "adding" => o \in AddingDesk
         /\ o.at = "settings" => o \in SettingsDesk
         /\ o.at = "picture" => o \in PictureDesk
         /\ o.at = "tidy" => o \in TidyDesk
         /\ o.at \in {"idle", "direct", "adding", "settings", "picture", "tidy"}
BY DEF ChatDesk, IdleChatDesk, DirectDesk, AddingDesk, SettingsDesk, PictureDesk, TidyDesk

\* A desk that is idle is a desk.
LEMMA IdleIsADesk == IdleChatDesk \in ChatDesk /\ IdleChatDesk.at = "idle"
BY DEF ChatDesk, IdleChatDesk

\* A request moves on alone.
LEMMA DeskMoves ==
  ASSUME ChatGroupsTypeOK, NEW d \in ChatDesks, NEW o \in ChatDesk, ChatDeskGoes(d, o)
  PROVE  /\ chatDesk' \in [ChatDesks -> ChatDesk] /\ chatDesk'[d] = o
         /\ \A c \in ChatDesks \ {d} : chatDesk'[c] = chatDesk[c]
BY DEF ChatGroupsTypeOK, ChatDeskGoes

\* A group that was made has a row.
LEMMA GroupsHaveRecords ==
  ASSUME ChatGroupsTypeOK, NEW g \in GroupIds, groups[g] # NoChat
  PROVE  groups[g] \in ChatGroup
BY DEF ChatGroupsTypeOK

\* A step that leaves the makers, the pairs and the direct chats alone.
SameGroups ==
  \A g \in GroupIds :
    /\ groups'[g] = NoChat <=> groups[g] = NoChat
    /\ groups[g] # NoChat =>
         /\ groups'[g].direct = groups[g].direct
         /\ groups'[g].createdBy = groups[g].createdBy
         /\ groups[g].direct # {} => groups'[g].live = groups[g].live

\* A step that leaves them alone leaves the direct chats of a pair alone.
LEMMA DirectStands ==
  ASSUME SameGroups, NEW pair, pair # {}
  PROVE  DirectOf(pair)' = DirectOf(pair)
BY DEF SameGroups, DirectOf, LiveGroups

\* Every desk but those of D stays where it is.
Others(D) == \A c \in ChatDesks \ D : chatDesk'[c] = chatDesk[c]

\* Memberships may end, and those of a group may grow if no request but those
\* of D adds to it: what the others rely on stands.
LEMMA RequestsStand ==
  ASSUME GroupsInv, SameGroups, NEW D \in SUBSET ChatDesks, Others(D),
         \A g \in GroupIds :
           \/ ActiveIn(g)' \subseteq ActiveIn(g)
           \/ /\ groups[g] # NoChat
              /\ \A c \in ChatDesks \ D : chatDesk[c].at = "adding" => chatDesk[c].group # g,
         \A d \in D : Relies(chatDesk[d])',
         \A d \in D : chatDesk'[d].at = "adding" =>
           \A c \in ChatDesks \ {d} :
             chatDesk'[c].at = "adding" => chatDesk'[c].group # chatDesk'[d].group
  PROVE  RequestsRely'
<1>1. ASSUME NEW g \in GroupIds, groups'[g] = NoChat PROVE ActiveIn(g)' = {}
  BY <1>1 DEF SameGroups, GroupsInv, RequestsRely
<1>2. ASSUME NEW c \in ChatDesks, c \notin D PROVE Relies(chatDesk[c])'
  <2> DEFINE o == chatDesk[c]
  <2>1. o \in ChatDesk /\ Relies(o) /\ chatDesk'[c] = chatDesk[c]
    BY <1>2 DEF GroupsInv, ChatGroupsTypeOK, RequestsRely, Others
  <2>2. o.at = "direct" => o.pair # {} /\ o.seen \subseteq DirectOf(o.pair)'
    BY <2>1, DirectStands DEF Relies
  <2>3. ASSUME o.at = "adding" PROVE Cardinality((ActiveIn(o.group))' \cup o.new) <= MaxMembers
    <3>1. o.group \in GroupIds /\ o.new \subseteq Folk
      BY <2>1, <2>3, DeskKinds DEF AddingDesk
    <3> DEFINE g == o.group
               all == ActiveIn(g) \cup o.new
               now == (ActiveIn(g))' \cup o.new
    <3>2. IsFiniteSet(all) /\ Cardinality(all) <= MaxMembers
      <4>1. all \subseteq Folk
        BY <3>1 DEF ActiveIn
      <4> QED
        BY <2>1, <2>3, <4>1, ChatGroupsAssumption, FS_Subset DEF Relies
    <3>3. (ActiveIn(chatDesk[c].group))' \subseteq ActiveIn(chatDesk[c].group)
      <4>1. \A h \in GroupIds : ActiveIn(h)' \subseteq ActiveIn(h) \/ chatDesk[c].group # h
        BY <1>2, <2>3
      <4> QED
        BY <2>1, <3>1, <4>1
    <3>4. now \subseteq all
      BY <3>3
    <3>5. Cardinality(now) <= Cardinality(all) /\ Cardinality(now) \in Nat /\ Cardinality(all) \in Nat
      BY <3>2, <3>4, FS_Subset, FS_CardinalityType
    <3>6. Cardinality(now) <= MaxMembers
      BY <3>2, <3>5, ChatGroupsAssumption
    <3> QED
      BY <2>1, <3>6
  <2> QED
    BY <2>1, <2>2, <2>3, DeskKinds DEF Relies, SameGroups, AddingDesk, SettingsDesk, PictureDesk
<1>3. ASSUME NEW c \in ChatDesks, NEW d \in ChatDesks, c # d,
             chatDesk'[c].at = "adding", chatDesk'[d].at = "adding"
      PROVE  chatDesk'[c].group # chatDesk'[d].group
  BY <1>3 DEF GroupsInv, RequestsRely, Others
<1> QED
  BY <1>1, <1>2, <1>3 DEF RequestsRely

\* Pictures come and go: what is known of them stands if those that wait to be
\* shown stay on the disk and unknown.
LEMMA PicturesStand ==
  ASSUME GroupsInv, NEW D \in SUBSET ChatDesks, Others(D), named \subseteq named',
         \A c \in ChatDesks \ D : chatDesk[c].at = "picture" => chatDesk[c].file \in disk' \ named',
         \A g \in GroupIds : groups'[g] # NoChat => groups'[g].avatar \in Known',
         \A d \in D : Knows(chatDesk[d])',
         \A d \in D : chatDesk'[d].at = "picture" =>
           \A c \in ChatDesks \ {d} :
             chatDesk'[c].at = "picture" => chatDesk'[c].file # chatDesk'[d].file
  PROVE  PicturesAreKnown'
<1>1. ASSUME NEW c \in ChatDesks, c \notin D PROVE Knows(chatDesk[c])'
  BY <1>1 DEF GroupsInv, PicturesAreKnown, Knows, Known, Others
<1>2. ASSUME NEW c \in ChatDesks, NEW d \in ChatDesks, c # d,
             chatDesk'[c].at = "picture", chatDesk'[d].at = "picture"
      PROVE  chatDesk'[c].file # chatDesk'[d].file
  BY <1>2 DEF GroupsInv, PicturesAreKnown, Others
<1> QED
  BY <1>1, <1>2 DEF PicturesAreKnown

\* Memberships may change within the limit, and not those of a direct chat or
\* of the maker.
LEMMA MembershipStands ==
  ASSUME GroupsInv, SameGroups,
         \A g \in GroupIds : groups[g] # NoChat =>
           /\ ActiveIn(g)' \subseteq ActiveIn(g) \/ Cardinality(ActiveIn(g)') <= MaxMembers
           /\ groups[g].createdBy \in ActiveIn(g)'
           /\ groups[g].direct # {} => ActiveIn(g)' = ActiveIn(g)
  PROVE  MembershipHolds'
<1> SUFFICES ASSUME NEW g \in GroupIds, groups'[g] # NoChat
             PROVE  /\ groups'[g].direct # {} =>
                         ActiveIn(g)' = groups'[g].direct /\ DirectOf(groups[g].direct)' = {g}
                    /\ groups'[g].createdBy \in ActiveIn(g)'
                    /\ Cardinality(ActiveIn(g)') <= MaxMembers
  BY DEF MembershipHolds
<1>1. groups[g] # NoChat /\ groups'[g].direct = groups[g].direct
      /\ groups'[g].createdBy = groups[g].createdBy
  BY DEF SameGroups
<1>2. /\ groups[g].direct # {} => ActiveIn(g) = groups[g].direct /\ DirectOf(groups[g].direct) = {g}
      /\ Cardinality(ActiveIn(g)) <= MaxMembers
  BY <1>1 DEF GroupsInv, MembershipHolds
<1>3. groups[g].direct # {} => DirectOf(groups[g].direct)' = {g}
  <2>1. ASSUME groups[g].direct # {} PROVE DirectOf(groups[g].direct)' = {g}
    BY <1>1, <1>2, <2>1 DEF DirectOf, LiveGroups, SameGroups
  <2> QED
    BY <2>1
<1>4. Cardinality(ActiveIn(g)') <= MaxMembers
  <2> SUFFICES ASSUME ActiveIn(g)' \subseteq ActiveIn(g)
               PROVE  Cardinality(ActiveIn(g)') <= MaxMembers
    BY <1>1
  <2>1. ActiveIn(g)' \subseteq ActiveIn(g) /\ ActiveIn(g) \subseteq Folk
    BY DEF ActiveIn
  <2>2. IsFiniteSet(ActiveIn(g)) /\ Cardinality(ActiveIn(g)') <= Cardinality(ActiveIn(g))
        /\ Cardinality(ActiveIn(g)) \in Nat /\ Cardinality(ActiveIn(g)') \in Nat
    BY <2>1, ChatGroupsAssumption, FS_Subset, FS_CardinalityType
  <2> QED
    BY <1>2, <2>2, ChatGroupsAssumption
<1> QED
  BY <1>1, <1>2, <1>3, <1>4

\* A step that leaves groups and members alone.
LEMMA NothingButDesks ==
  ASSUME GroupsInv, UNCHANGED <<groups, memberOf>>
  PROVE  SameGroups /\ MembershipHolds' /\ \A g \in GroupIds : ActiveIn(g)' = ActiveIn(g)
<1>1. SameGroups /\ \A g \in GroupIds : ActiveIn(g)' = ActiveIn(g)
  BY DEF SameGroups, ActiveIn
<1> QED
  BY <1>1 DEF GroupsInv, MembershipHolds, ActiveIn, DirectOf, LiveGroups

\* openDirectChat looks.
LEMMA OpeningKeeps ==
  ASSUME GroupsInv, NEW d \in ChatDesks, NEW a \in Folk, NEW b \in Folk, OpenDirectChat(d, a, b)
  PROVE  GroupsInv'
<1> DEFINE o == [at |-> "direct", pair |-> {a, b}, by |-> a, seen |-> DirectOf({a, b})]
<1>1. /\ ChatDeskGoes(d, o) /\ Cardinality({a, b}) <= MaxMembers
      /\ UNCHANGED <<groups, memberOf, disk, named, overwritten>>
  BY DEF OpenDirectChat, Begins, EligibleParticipants
<1>2. o \in ChatDesk /\ o.at = "direct" /\ o.pair = {a, b} /\ o.by = a /\ o.seen = DirectOf({a, b})
  <2>1. DirectOf({a, b}) \subseteq GroupIds
    BY DEF DirectOf, LiveGroups
  <2> QED
    BY <2>1 DEF ChatDesk, DirectDesk
<1> HIDE DEF o
<1>3. chatDesk' \in [ChatDesks -> ChatDesk] /\ chatDesk'[d] = o /\ Others({d})
  BY <1>1, <1>2, DeskMoves DEF GroupsInv, Others
<1>4. SameGroups /\ MembershipHolds' /\ \A g \in GroupIds : ActiveIn(g)' = ActiveIn(g)
  BY <1>1, NothingButDesks
<1>5. Relies(chatDesk[d])'
  BY <1>1, <1>2, <1>3, <1>4, DirectStands DEF Relies
<1>6. RequestsRely'
  BY <1>2, <1>3, <1>4, <1>5, RequestsStand
<1>7. PicturesAreKnown'
  BY <1>1, <1>2, <1>3, PicturesStand DEF GroupsInv, PicturesAreKnown, Knows, Known
<1> QED
  BY <1>1, <1>3, <1>4, <1>6, <1>7 DEF GroupsInv, ChatGroupsTypeOK, PicturesExist

\* addMembers counts, with the row of the group locked.
LEMMA AddingKeeps ==
  ASSUME GroupsInv, NEW d \in ChatDesks, NEW g \in GroupIds, NEW people \in SUBSET Folk,
         AddMembers(d, g, people)
  PROVE  GroupsInv'
<1> DEFINE new == people \ ActiveIn(g)
           o == [at |-> "adding", group |-> g, new |-> new]
<1>1. /\ ChatDeskGoes(d, o) /\ GroupRowFree(g) /\ g \in LiveGroups /\ groups[g].direct = {}
      /\ Cardinality(ActiveIn(g)) + Cardinality(new) <= MaxMembers
      /\ UNCHANGED <<groups, memberOf, disk, named, overwritten>>
  BY DEF AddMembers, Begins, GroupAdmin, GroupAccess
<1>2. o \in ChatDesk /\ o.at = "adding" /\ o.group = g /\ o.new = new
  BY DEF ChatDesk, AddingDesk
<1>3. Cardinality(ActiveIn(g) \cup new) <= MaxMembers
  <2>1. IsFiniteSet(ActiveIn(g)) /\ IsFiniteSet(new)
    BY ChatGroupsAssumption, FS_Subset DEF ActiveIn
  <2>2. ActiveIn(g) \cap new = {}
    OBVIOUS
  <2>3. Cardinality(ActiveIn(g) \cup new)
          = Cardinality(ActiveIn(g)) + Cardinality(new) - Cardinality(ActiveIn(g) \cap new)
    BY <2>1, FS_Union
  <2>4. Cardinality(ActiveIn(g) \cap new) = 0
    BY <2>2, FS_EmptySet
  <2> QED
    BY <1>1, <2>1, <2>3, <2>4, FS_CardinalityType
<1> HIDE DEF o, new
<1>4. chatDesk' \in [ChatDesks -> ChatDesk] /\ chatDesk'[d] = o /\ Others({d})
  BY <1>1, <1>2, DeskMoves DEF GroupsInv, Others
<1>5. SameGroups /\ MembershipHolds' /\ \A h \in GroupIds : ActiveIn(h)' = ActiveIn(h)
  BY <1>1, NothingButDesks
<1>6. Relies(chatDesk[d])'
  BY <1>1, <1>2, <1>3, <1>4, <1>5 DEF Relies, LiveGroups
<1>7. \A c \in ChatDesks \ {d} : chatDesk'[c].at = "adding" => chatDesk'[c].group # g
  BY <1>1, <1>4 DEF GroupRowFree, Others
<1>8. RequestsRely'
  BY <1>2, <1>4, <1>5, <1>6, <1>7, RequestsStand
<1>9. PicturesAreKnown'
  BY <1>1, <1>2, <1>4, PicturesStand DEF GroupsInv, PicturesAreKnown, Knows, Known
<1> QED
  BY <1>1, <1>4, <1>5, <1>8, <1>9 DEF GroupsInv, ChatGroupsTypeOK, PicturesExist

\* updateGroupSettings reads.
LEMMA SettingKeeps ==
  ASSUME GroupsInv, NEW d \in ChatDesks, NEW g \in GroupIds,
         NEW avatar \in {"keep", NoPicture} \cup Pictures, UpdateGroupSettings(d, g, avatar)
  PROVE  GroupsInv'
<1> DEFINE o == [at |-> "settings", group |-> g, avatar |-> avatar, read |-> groups[g].avatar]
<1>1. /\ ChatDeskGoes(d, o) /\ g \in LiveGroups /\ avatar \notin disk \ named
      /\ named' = named \cup ({avatar} \cap Pictures)
      /\ UNCHANGED <<groups, memberOf, disk, overwritten>>
  BY DEF UpdateGroupSettings, Begins, GroupAdmin, GroupAccess
<1>2. groups[g] # NoChat /\ groups[g].avatar \in Known /\ groups[g].avatar \in Pictures \cup {NoPicture}
  BY <1>1, GroupsHaveRecords DEF LiveGroups, GroupsInv, PicturesAreKnown, ChatGroup
<1>3. o \in ChatDesk /\ o.at = "settings" /\ o.group = g /\ o.avatar = avatar
      /\ o.read = groups[g].avatar
  BY <1>2 DEF ChatDesk, SettingsDesk
<1> HIDE DEF o
<1>4. chatDesk' \in [ChatDesks -> ChatDesk] /\ chatDesk'[d] = o /\ Others({d})
  BY <1>1, <1>3, DeskMoves DEF GroupsInv, Others
<1>5. SameGroups /\ MembershipHolds' /\ \A h \in GroupIds : ActiveIn(h)' = ActiveIn(h)
  BY <1>1, NothingButDesks
<1>6. Relies(chatDesk[d])'
  BY <1>1, <1>2, <1>3, <1>4 DEF Relies
<1>7. RequestsRely'
  BY <1>3, <1>4, <1>5, <1>6, RequestsStand
<1>8. PicturesAreKnown'
  <2>1. named \subseteq named' /\ Known \subseteq Known'
    BY <1>1 DEF Known
  <2>2. Knows(chatDesk[d])'
    BY <1>1, <1>2, <1>3, <1>4, <2>1 DEF Knows, Known
  <2>3. \A c \in ChatDesks \ {d} : chatDesk[c].at = "picture" => chatDesk[c].file \in disk' \ named'
    BY <1>1 DEF GroupsInv, PicturesAreKnown, Knows
  <2>4. \A h \in GroupIds : groups'[h] # NoChat => groups'[h].avatar \in Known'
    BY <1>1, <2>1 DEF GroupsInv, PicturesAreKnown
  <2> QED
    BY <1>3, <1>4, <2>1, <2>2, <2>3, <2>4, PicturesStand
<1> QED
  BY <1>1, <1>4, <1>5, <1>7, <1>8 DEF GroupsInv, ChatGroupsTypeOK, PicturesExist

\* updateGroupAvatar draws a name that nobody knows.
LEMMA DrawingKeeps ==
  ASSUME GroupsInv, NEW d \in ChatDesks, NEW g \in GroupIds, NEW file \in Pictures,
         UpdateGroupAvatar(d, g, file)
  PROVE  GroupsInv'
<1> DEFINE o == [at |-> "picture", group |-> g, file |-> file]
<1>1. /\ ChatDeskGoes(d, o) /\ g \in LiveGroups /\ file \notin disk \cup named
      /\ disk' = disk \cup {file} /\ UNCHANGED <<groups, memberOf, named, overwritten>>
  BY DEF UpdateGroupAvatar, Begins, GroupAdmin, GroupAccess
<1>2. o \in ChatDesk /\ o.at = "picture" /\ o.group = g /\ o.file = file
  BY DEF ChatDesk, PictureDesk
<1> HIDE DEF o
<1>3. chatDesk' \in [ChatDesks -> ChatDesk] /\ chatDesk'[d] = o /\ Others({d})
  BY <1>1, <1>2, DeskMoves DEF GroupsInv, Others
<1>4. SameGroups /\ MembershipHolds' /\ \A h \in GroupIds : ActiveIn(h)' = ActiveIn(h)
  BY <1>1, NothingButDesks
<1>5. Relies(chatDesk[d])'
  BY <1>1, <1>2, <1>3 DEF Relies, LiveGroups
<1>6. RequestsRely'
  BY <1>2, <1>3, <1>4, <1>5, RequestsStand
<1>7. \A c \in ChatDesks \ {d} : chatDesk[c].at = "picture" =>
        chatDesk[c].file \in disk \ named /\ chatDesk[c].file # file
  BY <1>1 DEF GroupsInv, PicturesAreKnown, Knows
<1>8. PicturesAreKnown'
  <2>1. Knows(chatDesk[d])'
    BY <1>1, <1>2, <1>3 DEF Knows
  <2>2. \A h \in GroupIds : groups'[h] # NoChat => groups'[h].avatar \in Known'
    BY <1>1 DEF GroupsInv, PicturesAreKnown, Known
  <2>3. \A c \in ChatDesks \ {d} : chatDesk[c].at = "picture" => chatDesk[c].file \in disk' \ named'
    BY <1>1, <1>7
  <2>4. \A c \in ChatDesks \ {d} : chatDesk'[c].at = "picture" => chatDesk'[c].file # chatDesk'[d].file
    BY <1>2, <1>3, <1>7 DEF Others
  <2>5. named \subseteq named' /\ {d} \in SUBSET ChatDesks
    BY <1>1
  <2> QED
    BY <1>3, <2>1, <2>2, <2>3, <2>4, <2>5, PicturesStand
<1>9. PicturesExist'
  BY <1>1 DEF GroupsInv, PicturesExist
<1> QED
  BY <1>1, <1>3, <1>4, <1>6, <1>8, <1>9 DEF GroupsInv, ChatGroupsTypeOK

\* updateGroupSettings saves.
LEMMA SavingSettingsKeeps ==
  ASSUME GroupsInv, NEW d \in ChatDesks, SaveGroupSettings(d)
  PROVE  GroupsInv'
<1> DEFINE o == chatDesk[d]
           g == o.group
           avatar == IF o.avatar = "keep" THEN o.read ELSE o.avatar
           next == IF o.avatar # "keep" /\ o.read # o.avatar
                   THEN [at |-> "tidy", file |-> o.read] ELSE IdleChatDesk
<1>1. /\ o.at = "settings" /\ groups' = [groups EXCEPT ![g].avatar = avatar]
      /\ overwritten' = (IF o.avatar # "keep" \/ groups[g].avatar # o.read
                         THEN overwritten \cup {g} ELSE overwritten)
      /\ ChatDeskGoes(d, next) /\ UNCHANGED <<memberOf, disk, named>>
  BY DEF SaveGroupSettings
<1>2. o \in SettingsDesk /\ Relies(o) /\ Knows(o)
  BY <1>1, DeskKinds DEF GroupsInv, ChatGroupsTypeOK, RequestsRely, PicturesAreKnown
<1>3. /\ g \in GroupIds /\ o.read \in Pictures \cup {NoPicture} /\ o.read \in Known
      /\ avatar \in Pictures \cup {NoPicture} /\ avatar \in Known /\ groups[g] # NoChat
  <2>1. /\ g \in GroupIds /\ o.read \in Pictures \cup {NoPicture}
        /\ o.avatar \in Pictures \cup {NoPicture, "keep"}
    BY <1>2 DEF SettingsDesk
  <2>2. groups[g] # NoChat /\ o.read \in Known /\ o.avatar \in Known \cup {"keep"}
    BY <1>1, <1>2 DEF Relies, Knows
  <2> QED
    BY <2>1, <2>2
<1>4. groups[g] \in ChatGroup
  BY <1>3, GroupsHaveRecords DEF GroupsInv
<1>5. next \in ChatDesk /\ next.at \in {"idle", "tidy"} /\ (next.at = "tidy" => next.file = o.read)
  BY <1>3, IdleIsADesk DEF ChatDesk, TidyDesk
<1> HIDE DEF avatar, next
<1>6. /\ groups' \in [GroupIds -> ChatGroup \cup {NoChat}]
      /\ groups'[g] = [groups[g] EXCEPT !.avatar = avatar]
      /\ \A h \in GroupIds \ {g} : groups'[h] = groups[h]
  <2>1. [groups[g] EXCEPT !.avatar = avatar] \in ChatGroup
    BY <1>3, <1>4 DEF ChatGroup
  <2> QED
    BY <1>1, <1>3, <2>1 DEF GroupsInv, ChatGroupsTypeOK
<1>7. /\ groups'[g] # NoChat /\ groups'[g].avatar = avatar
      /\ groups'[g].direct = groups[g].direct /\ groups'[g].createdBy = groups[g].createdBy
      /\ groups'[g].live = groups[g].live
  BY <1>3, <1>4, <1>6, ChatGroupsAssumption DEF ChatGroup
<1>8. SameGroups
  BY <1>3, <1>6, <1>7 DEF SameGroups
<1>9. \A h \in GroupIds : ActiveIn(h)' = ActiveIn(h)
  BY <1>1 DEF ActiveIn
<1>10. MembershipHolds'
  BY <1>8, <1>9, MembershipStands DEF GroupsInv, MembershipHolds
<1>11. chatDesk' \in [ChatDesks -> ChatDesk] /\ chatDesk'[d] = next /\ Others({d})
  BY <1>1, <1>5, DeskMoves DEF GroupsInv, Others
<1>12. RequestsRely'
  BY <1>5, <1>8, <1>9, <1>11, RequestsStand DEF Relies
<1>13. PicturesAreKnown'
  <2>1. \A h \in GroupIds : groups'[h] # NoChat => groups'[h].avatar \in Known'
    BY <1>1, <1>3, <1>6, <1>7 DEF GroupsInv, PicturesAreKnown, Known
  <2>2. Knows(chatDesk[d])'
    BY <1>1, <1>3, <1>5, <1>11 DEF Knows, Known
  <2>3. \A c \in ChatDesks \ {d} : chatDesk[c].at = "picture" => chatDesk[c].file \in disk' \ named'
    BY <1>1 DEF GroupsInv, PicturesAreKnown, Knows
  <2> QED
    BY <1>1, <1>5, <1>11, <2>1, <2>2, <2>3, PicturesStand
<1>14. PicturesExist'
  <2>1. ASSUME g \notin overwritten' PROVE avatar = groups[g].avatar /\ g \notin overwritten
    BY <1>1, <2>1 DEF avatar
  <2> QED
    BY <1>1, <1>3, <1>6, <1>7, <2>1 DEF GroupsInv, PicturesExist
<1> QED
  BY <1>1, <1>6, <1>10, <1>11, <1>12, <1>13, <1>14 DEF GroupsInv, ChatGroupsTypeOK

\* updateGroupAvatar shows its picture, or deletes it when the group is gone.
LEMMA SavingPictureKeeps ==
  ASSUME GroupsInv, NEW d \in ChatDesks, SaveGroupAvatar(d)
  PROVE  GroupsInv'
<1> DEFINE o == chatDesk[d]
           g == o.group
<1>1. o.at = "picture" /\ UNCHANGED <<memberOf, overwritten>>
  BY DEF SaveGroupAvatar
<1>2. o \in PictureDesk /\ Relies(o) /\ Knows(o)
  BY <1>1, DeskKinds DEF GroupsInv, ChatGroupsTypeOK, RequestsRely, PicturesAreKnown
<1>3. g \in GroupIds /\ o.file \in Pictures /\ groups[g] # NoChat /\ o.file \in disk \ named
  BY <1>1, <1>2 DEF PictureDesk, Relies, Knows
<1>4. groups[g] \in ChatGroup
  BY <1>3, GroupsHaveRecords DEF GroupsInv
<1>5. \A c \in ChatDesks \ {d} : chatDesk[c].at = "picture" =>
        chatDesk[c].file \in disk \ named /\ chatDesk[c].file # o.file
  BY <1>1 DEF GroupsInv, PicturesAreKnown, Knows
<1>6. \A h \in GroupIds : ActiveIn(h)' = ActiveIn(h)
  BY <1>1 DEF ActiveIn
<1>7. CASE g \in LiveGroups
  <2> DEFINE next == [at |-> "tidy", file |-> groups[g].avatar]
  <2>1. /\ groups' = [groups EXCEPT ![g].avatar = o.file] /\ ChatDeskGoes(d, next)
        /\ named' = named \cup {o.file} /\ UNCHANGED disk
    BY <1>7 DEF SaveGroupAvatar
  <2>2. next \in ChatDesk /\ next.at = "tidy" /\ next.file = groups[g].avatar
    BY <1>4 DEF ChatDesk, TidyDesk, ChatGroup
  <2> HIDE DEF next
  <2>3. /\ groups' \in [GroupIds -> ChatGroup \cup {NoChat}]
        /\ groups'[g] = [groups[g] EXCEPT !.avatar = o.file]
        /\ \A h \in GroupIds \ {g} : groups'[h] = groups[h]
    <3>1. [groups[g] EXCEPT !.avatar = o.file] \in ChatGroup
      BY <1>3, <1>4 DEF ChatGroup
    <3> QED
      BY <1>3, <2>1, <3>1 DEF GroupsInv, ChatGroupsTypeOK
  <2>4. /\ groups'[g] # NoChat /\ groups'[g].avatar = o.file
        /\ groups'[g].direct = groups[g].direct /\ groups'[g].createdBy = groups[g].createdBy
        /\ groups'[g].live = groups[g].live
    BY <1>3, <1>4, <2>3, ChatGroupsAssumption DEF ChatGroup
  <2>5. SameGroups
    BY <1>3, <2>3, <2>4 DEF SameGroups
  <2>6. MembershipHolds'
    BY <1>6, <2>5, MembershipStands DEF GroupsInv, MembershipHolds
  <2>7. chatDesk' \in [ChatDesks -> ChatDesk] /\ chatDesk'[d] = next /\ Others({d})
    BY <2>1, <2>2, DeskMoves DEF GroupsInv, Others
  <2>8. RequestsRely'
    BY <1>6, <2>2, <2>5, <2>7, RequestsStand DEF Relies
  <2>9. PicturesAreKnown'
    <3>1. \A h \in GroupIds : groups'[h] # NoChat => groups'[h].avatar \in Known'
      BY <1>3, <2>1, <2>3, <2>4 DEF GroupsInv, PicturesAreKnown, Known
    <3>2. Knows(chatDesk[d])'
      BY <1>3, <2>1, <2>2, <2>7 DEF Knows, Known, GroupsInv, PicturesAreKnown
    <3> QED
      BY <1>5, <2>1, <2>2, <2>7, <3>1, <3>2, PicturesStand
  <2>10. PicturesExist'
    BY <1>1, <1>3, <2>1, <2>3, <2>4 DEF GroupsInv, PicturesExist
  <2>11. named' \subseteq Pictures
    BY <1>3, <2>1 DEF GroupsInv, ChatGroupsTypeOK
  <2> QED
    BY <1>1, <2>1, <2>3, <2>6, <2>7, <2>8, <2>9, <2>10, <2>11 DEF GroupsInv, ChatGroupsTypeOK
<1>8. CASE g \notin LiveGroups
  <2>1. disk' = disk \ {o.file} /\ ChatDeskGoes(d, IdleChatDesk) /\ UNCHANGED <<groups, named>>
    BY <1>8 DEF SaveGroupAvatar
  <2>2. SameGroups /\ MembershipHolds'
    BY <1>1, <2>1, NothingButDesks
  <2>3. chatDesk' \in [ChatDesks -> ChatDesk] /\ chatDesk'[d] = IdleChatDesk /\ Others({d})
    BY <2>1, IdleIsADesk, DeskMoves DEF GroupsInv, Others
  <2>4. RequestsRely'
    BY <1>6, <2>2, <2>3, IdleIsADesk, RequestsStand DEF Relies
  <2>5. PicturesAreKnown'
    BY <1>5, <2>1, <2>3, IdleIsADesk, PicturesStand DEF GroupsInv, PicturesAreKnown, Knows, Known
  <2>6. PicturesExist'
    BY <1>1, <1>3, <2>1 DEF GroupsInv, PicturesExist, PicturesAreKnown, Known
  <2> QED
    BY <1>1, <2>1, <2>2, <2>3, <2>4, <2>5, <2>6 DEF GroupsInv, ChatGroupsTypeOK
<1> QED
  BY <1>7, <1>8

\* removeUnusedGroupAvatar deletes what no group shows.
LEMMA TidyingKeeps ==
  ASSUME GroupsInv, NEW d \in ChatDesks, RemoveUnusedGroupAvatar(d)
  PROVE  GroupsInv'
<1> DEFINE file == chatDesk[d].file
<1>1. /\ chatDesk[d].at = "tidy" /\ ChatDeskGoes(d, IdleChatDesk)
      /\ disk' = (IF UsedPicture(file) THEN disk ELSE disk \ {file})
      /\ UNCHANGED <<groups, memberOf, named, overwritten>>
  BY DEF RemoveUnusedGroupAvatar
<1>2. file \in Known
  BY <1>1 DEF GroupsInv, PicturesAreKnown, Knows
<1>3. SameGroups /\ MembershipHolds' /\ \A g \in GroupIds : ActiveIn(g)' = ActiveIn(g)
  BY <1>1, NothingButDesks
<1>4. chatDesk' \in [ChatDesks -> ChatDesk] /\ chatDesk'[d] = IdleChatDesk /\ Others({d})
  BY <1>1, IdleIsADesk, DeskMoves DEF GroupsInv, Others
<1>5. RequestsRely'
  BY <1>3, <1>4, IdleIsADesk, RequestsStand DEF Relies
<1>6. \A c \in ChatDesks \ {d} : chatDesk[c].at = "picture" => chatDesk[c].file \in disk' \ named'
  <2>1. ASSUME NEW c \in ChatDesks \ {d}, chatDesk[c].at = "picture"
        PROVE  chatDesk[c].file \in disk' \ named'
    <3>1. chatDesk[c] \in PictureDesk /\ chatDesk[c].file \in disk \ named
      BY <2>1, DeskKinds DEF GroupsInv, ChatGroupsTypeOK, PicturesAreKnown, Knows
    <3>2. chatDesk[c].file # NoPicture
      BY <3>1, ChatGroupsAssumption DEF PictureDesk
    <3> QED
      BY <1>1, <1>2, <3>1, <3>2 DEF Known
  <2> QED
    BY <2>1
<1>7. PicturesAreKnown'
  BY <1>1, <1>4, <1>6, IdleIsADesk, PicturesStand DEF GroupsInv, PicturesAreKnown, Knows, Known
<1>8. PicturesExist'
  BY <1>1 DEF GroupsInv, PicturesExist, UsedPicture
<1> QED
  BY <1>1, <1>3, <1>4, <1>5, <1>7, <1>8 DEF GroupsInv, ChatGroupsTypeOK

\* A group is made: the groups that were there, and the requests that are
\* about them, do not notice.
LEMMA MakingKeeps ==
  ASSUME GroupsInv, NEW g \in GroupIds, groups[g] = NoChat, NEW new \in ChatGroup,
         NEW people \in SUBSET Folk,
         groups' = [groups EXCEPT ![g] = new],
         memberOf' = [memberOf EXCEPT ![g] = Joined(g, people, NewRow)],
         new.direct # {} => new.direct = people /\ DirectOf(people) = {},
         new.live, new.createdBy \in people, new.avatar = NoPicture,
         Cardinality(people) <= MaxMembers,
         UNCHANGED <<disk, named, overwritten>>,
         NEW D \in SUBSET ChatDesks, Others(D), chatDesk' \in [ChatDesks -> ChatDesk],
         \A d \in D : chatDesk'[d] = IdleChatDesk
  PROVE  GroupsInv'
<1>1. new # NoChat
  BY ChatGroupsAssumption
<1>2. /\ groups' \in [GroupIds -> ChatGroup \cup {NoChat}] /\ groups'[g] = new
      /\ \A h \in GroupIds \ {g} : groups'[h] = groups[h]
  BY DEF GroupsInv, ChatGroupsTypeOK
<1>3. Joined(g, people, NewRow) \in [Folk -> ChatGroupMember]
  BY DEF Joined, NewRow, ChatGroupMember, GroupsInv, ChatGroupsTypeOK
<1>4. /\ memberOf' \in [GroupIds -> [Folk -> ChatGroupMember]]
      /\ memberOf'[g] = Joined(g, people, NewRow)
      /\ \A h \in GroupIds \ {g} : memberOf'[h] = memberOf[h]
  BY <1>3 DEF GroupsInv, ChatGroupsTypeOK
<1>5. ActiveIn(g) = {}
  BY DEF GroupsInv, RequestsRely
<1>6. ActiveIn(g)' = people
  BY <1>4, <1>5 DEF ActiveIn, Joined, NewRow
<1>7. \A h \in GroupIds \ {g} : ActiveIn(h)' = ActiveIn(h)
  BY <1>4 DEF ActiveIn
<1>8. \A pair : DirectOf(pair) \subseteq DirectOf(pair)'
                /\ (pair # new.direct => DirectOf(pair)' = DirectOf(pair))
                /\ (pair = new.direct => DirectOf(pair)' = DirectOf(pair) \cup {g})
  BY <1>1, <1>2 DEF DirectOf, LiveGroups
<1>9. RequestsRely'
  <2>1. ASSUME NEW c \in ChatDesks PROVE Relies(chatDesk[c])'
    <3>1. CASE c \in D
      BY <3>1, IdleIsADesk DEF Relies
    <3>2. CASE c \notin D
      <4> DEFINE o == chatDesk[c]
      <4>1. o \in ChatDesk /\ Relies(o) /\ chatDesk'[c] = chatDesk[c]
        BY <3>2 DEF GroupsInv, ChatGroupsTypeOK, RequestsRely, Others
      <4>2. o.at = "direct" => o.seen \subseteq DirectOf(o.pair)'
        BY <1>8, <4>1 DEF Relies
      <4>3. o.at \in {"adding", "settings", "picture"} => o.group \in GroupIds /\ o.group # g
        BY <4>1, DeskKinds DEF Relies, AddingDesk, SettingsDesk, PictureDesk
      <4>4. o.at = "adding" => Cardinality((ActiveIn(o.group))' \cup o.new) <= MaxMembers
        <5>1. ASSUME o.at = "adding"
              PROVE  (ActiveIn(chatDesk[c].group))' = ActiveIn(chatDesk[c].group)
          BY <1>7, <4>1, <4>3, <5>1
        <5> QED
          BY <4>1, <5>1 DEF Relies
      <4> QED
        BY <1>1, <1>2, <4>1, <4>2, <4>3, <4>4 DEF Relies
    <3> QED
      BY <3>1, <3>2
  <2>2. ASSUME NEW c \in ChatDesks, NEW d \in ChatDesks, c # d,
               chatDesk'[c].at = "adding", chatDesk'[d].at = "adding"
        PROVE  chatDesk'[c].group # chatDesk'[d].group
    <3>1. c \notin D /\ d \notin D
      BY <2>2, IdleIsADesk
    <3> QED
      BY <2>2, <3>1 DEF GroupsInv, RequestsRely, Others
  <2>3. ASSUME NEW h \in GroupIds, groups'[h] = NoChat PROVE ActiveIn(h)' = {}
    BY <1>1, <1>2, <1>7, <2>3 DEF GroupsInv, RequestsRely
  <2> QED
    BY <2>1, <2>2, <2>3 DEF RequestsRely
<1>10. PicturesAreKnown'
  <2>1. \A d \in D : Knows(chatDesk[d])' /\ chatDesk'[d].at # "picture"
    BY IdleIsADesk DEF Knows
  <2>2. \A h \in GroupIds : groups'[h] # NoChat => groups'[h].avatar \in Known'
    BY <1>2 DEF GroupsInv, PicturesAreKnown, Known
  <2>3. \A c \in ChatDesks \ D : chatDesk[c].at = "picture" => chatDesk[c].file \in disk' \ named'
    BY DEF GroupsInv, PicturesAreKnown, Knows
  <2>4. named \subseteq named'
    OBVIOUS
  <2> QED
    BY <2>1, <2>2, <2>3, <2>4, PicturesStand
<1>11. MembershipHolds'
  <2> SUFFICES ASSUME NEW h \in GroupIds, groups'[h] # NoChat
             PROVE  /\ groups'[h].direct # {} =>
                         ActiveIn(h)' = groups'[h].direct /\ DirectOf(groups[h].direct)' = {h}
                    /\ groups'[h].createdBy \in ActiveIn(h)'
                    /\ Cardinality(ActiveIn(h)') <= MaxMembers
    BY DEF MembershipHolds
  <2>1. CASE h = g
    <3>1. ASSUME new.direct # {} PROVE DirectOf(groups[h].direct)' = {h}
      BY <1>1, <1>2, <2>1, <3>1 DEF DirectOf, LiveGroups
    <3> QED
      BY <1>2, <1>6, <2>1, <3>1
  <2>2. CASE h # g
    <3>1. groups'[h] = groups[h] /\ ActiveIn(h)' = ActiveIn(h) /\ groups[h] # NoChat
      BY <1>2, <1>7, <2>2
    <3>2. /\ groups[h].direct # {} => ActiveIn(h) = groups[h].direct /\ DirectOf(groups[h].direct) = {h}
          /\ groups[h].createdBy \in ActiveIn(h) /\ Cardinality(ActiveIn(h)) <= MaxMembers
      BY <3>1 DEF GroupsInv, MembershipHolds
    <3>3. ASSUME groups[h].direct # {} PROVE DirectOf(groups[h].direct)' = {h}
      <4>1. groups[h].direct # new.direct
        BY <3>2, <3>3
      <4>2. \A k \in GroupIds \ {g} : groups'[k] = groups[k]
        BY <1>2
      <4> QED
        BY <1>1, <1>2, <3>1, <3>2, <3>3, <4>1 DEF DirectOf, LiveGroups
    <3> QED
      BY <3>1, <3>2, <3>3
  <2> QED
    BY <2>1, <2>2
<1>12. PicturesExist'
  BY <1>2 DEF GroupsInv, PicturesExist
<1> QED
  BY <1>2, <1>4, <1>9, <1>10, <1>11, <1>12 DEF GroupsInv, ChatGroupsTypeOK

\* createGroup.
LEMMA CreatingKeeps ==
  ASSUME GroupsInv, NEW g \in GroupIds, NEW people \in SUBSET Folk, CreateGroup(g, people)
  PROVE  GroupsInv'
<1> DEFINE all == people \cup {Owner}
           new == [direct |-> {}, createdBy |-> Owner, avatar |-> NoPicture, live |-> TRUE]
<1>1. /\ groups[g] = NoChat /\ Cardinality(all) <= MaxMembers
      /\ groups' = [groups EXCEPT ![g] = new]
      /\ memberOf' = [memberOf EXCEPT ![g] = Joined(g, all, NewRow)]
      /\ UNCHANGED <<disk, chatDesk, named, overwritten>>
  BY DEF CreateGroup, NewId, EligibleParticipants
<1>2. all \in SUBSET Folk /\ Owner \in all
  BY ChatGroupsAssumption
<1>3. new \in ChatGroup /\ new.direct = {} /\ new.createdBy = Owner /\ new.live
      /\ new.avatar = NoPicture
  BY ChatGroupsAssumption DEF ChatGroup
<1> HIDE DEF all, new
<1>4. Others({}) /\ chatDesk' \in [ChatDesks -> ChatDesk] /\ {} \in SUBSET ChatDesks
      /\ \A d \in {} : chatDesk'[d] = IdleChatDesk
  BY <1>1 DEF Others, GroupsInv, ChatGroupsTypeOK
<1> QED
  BY <1>1, <1>2, <1>3, <1>4, MakingKeeps

\* openDirectChat makes the chat, or starts again when the index has one.
LEMMA InsertingDirectKeeps ==
  ASSUME GroupsInv, NEW d \in ChatDesks, NEW g \in GroupIds, InsertDirectChat(d, g)
  PROVE  GroupsInv'
<1> DEFINE o == chatDesk[d]
           pair == o.pair
<1>1. /\ o.at = "direct" /\ groups[g] = NoChat /\ UNCHANGED <<disk, named, overwritten>>
  BY DEF InsertDirectChat, NewId
<1>2. o \in DirectDesk /\ Relies(o)
  BY <1>1, DeskKinds DEF GroupsInv, ChatGroupsTypeOK, RequestsRely
<1>3. pair \subseteq Folk /\ o.by \in pair /\ Cardinality(pair) <= MaxMembers
      /\ o.seen \subseteq DirectOf(pair)
  BY <1>1, <1>2 DEF DirectDesk, Relies
<1>4. CASE DirectOf(pair) # {}
  <2> DEFINE next == IF EligibleParticipants(pair)
                     THEN [o EXCEPT !.seen = DirectOf(pair)] ELSE IdleChatDesk
  <2>1. ChatDeskGoes(d, next) /\ UNCHANGED <<groups, memberOf>>
    BY <1>4 DEF InsertDirectChat
  <2>2. next \in ChatDesk /\ next.at \in {"idle", "direct"}
        /\ (next.at = "direct" => next.by = o.by /\ next.pair = pair /\ next.seen = DirectOf(pair))
    <3>1. DirectOf(pair) \subseteq GroupIds
      BY DEF DirectOf, LiveGroups
    <3>2. /\ [o EXCEPT !.seen = DirectOf(pair)] \in DirectDesk
          /\ [o EXCEPT !.seen = DirectOf(pair)].by = o.by
          /\ [o EXCEPT !.seen = DirectOf(pair)].pair = pair
          /\ [o EXCEPT !.seen = DirectOf(pair)].seen = DirectOf(pair)
          /\ [o EXCEPT !.seen = DirectOf(pair)].at = "direct"
      <4> DEFINE D == DirectOf(pair)
      <4> HIDE DEF o, D
      <4>1. D \in SUBSET GroupIds
        BY <3>1 DEF D, o
      <4>2. /\ [o EXCEPT !.seen = D] \in DirectDesk
            /\ [o EXCEPT !.seen = D].by = o.by
            /\ [o EXCEPT !.seen = D].pair = pair
            /\ [o EXCEPT !.seen = D].seen = D
            /\ [o EXCEPT !.seen = D].at = "direct"
        BY <1>2, <4>1 DEF DirectDesk
      <4> QED
        BY <4>2 DEF D, o
    <3> QED
      BY <3>2, IdleIsADesk DEF ChatDesk
  <2> HIDE DEF next
  <2>3. chatDesk' \in [ChatDesks -> ChatDesk] /\ chatDesk'[d] = next /\ Others({d})
    BY <2>1, <2>2, DeskMoves DEF GroupsInv, Others
  <2>4. SameGroups /\ MembershipHolds' /\ \A h \in GroupIds : ActiveIn(h)' = ActiveIn(h)
    BY <2>1, NothingButDesks
  <2>5. Relies(chatDesk[d])'
    BY <1>3, <2>2, <2>3, <2>4, DirectStands DEF Relies
  <2>6. RequestsRely'
    BY <2>2, <2>3, <2>4, <2>5, RequestsStand
  <2>7. PicturesAreKnown'
    BY <1>1, <2>1, <2>2, <2>3, PicturesStand DEF GroupsInv, PicturesAreKnown, Knows, Known
  <2> QED
    BY <1>1, <2>1, <2>3, <2>4, <2>6, <2>7 DEF GroupsInv, ChatGroupsTypeOK, PicturesExist
<1>5. CASE DirectOf(pair) = {}
  <2> DEFINE new == [direct |-> pair, createdBy |-> o.by, avatar |-> NoPicture, live |-> TRUE]
  <2>1. /\ groups' = [groups EXCEPT ![g] = new]
        /\ memberOf' = [memberOf EXCEPT ![g] = Joined(g, pair, NewRow)]
        /\ ChatDeskGoes(d, IdleChatDesk)
    BY <1>5 DEF InsertDirectChat
  <2>2. new \in ChatGroup /\ new.direct = pair /\ new.createdBy = o.by /\ new.live
        /\ new.avatar = NoPicture
    <3>1. pair \in SUBSET Folk /\ o.by \in Folk
      BY <1>3
    <3> HIDE DEF o, pair
    <3> QED
      BY <3>1 DEF ChatGroup
  <2> HIDE DEF new
  <2>3. chatDesk' \in [ChatDesks -> ChatDesk] /\ chatDesk'[d] = IdleChatDesk /\ Others({d})
    BY <2>1, IdleIsADesk, DeskMoves DEF GroupsInv, Others
  <2> QED
    BY <1>1, <1>3, <1>5, <2>1, <2>2, <2>3, MakingKeeps
<1> QED
  BY <1>4, <1>5

\* A step that changes memberships alone, and none of a maker or in a direct
\* chat.
LEMMA MembersMove ==
  ASSUME GroupsInv, UNCHANGED <<groups, disk, chatDesk, named, overwritten>>,
         memberOf' \in [GroupIds -> [Folk -> ChatGroupMember]],
         \A g \in GroupIds : groups[g] # NoChat =>
           /\ ActiveIn(g)' \subseteq ActiveIn(g)
           /\ groups[g].createdBy \in ActiveIn(g)'
           /\ groups[g].direct # {} => ActiveIn(g)' = ActiveIn(g),
         \A g \in GroupIds : groups[g] = NoChat => ActiveIn(g)' = ActiveIn(g)
  PROVE  GroupsInv'
<1>1. SameGroups
  BY DEF SameGroups
<1>2. MembershipHolds'
  BY <1>1, MembershipStands
<1>3. Others({}) /\ {} \in SUBSET ChatDesks
  BY DEF Others
<1>4. \A g \in GroupIds : ActiveIn(g)' \subseteq ActiveIn(g)
  OBVIOUS
<1>5. RequestsRely'
  BY <1>1, <1>3, <1>4, RequestsStand
<1>6. PicturesAreKnown' /\ PicturesExist'
  BY DEF GroupsInv, PicturesAreKnown, Knows, Known, PicturesExist
<1> QED
  BY <1>2, <1>5, <1>6 DEF GroupsInv, ChatGroupsTypeOK

\* removeMember and leaveGroup.
LEMMA GoingKeeps ==
  ASSUME GroupsInv, NEW g \in GroupIds, NEW a \in Folk, RemoveMember(g, a) \/ LeaveGroup(g, a)
  PROVE  GroupsInv'
<1>1. PICK status \in {"removed", "left"} :
        /\ groups[g].direct = {} /\ a # groups[g].createdBy /\ g \in LiveGroups
        /\ memberOf' = [memberOf EXCEPT ![g][a].status = status]
        /\ UNCHANGED <<groups, disk, chatDesk, named, overwritten>>
  BY DEF RemoveMember, LeaveGroup, MemberGoes, GroupAdmin, GroupAccess
<1>2. memberOf \in [GroupIds -> [Folk -> ChatGroupMember]]
  BY DEF GroupsInv, ChatGroupsTypeOK
<1>3. [memberOf[g][a] EXCEPT !.status = status] \in ChatGroupMember
      /\ [memberOf[g][a] EXCEPT !.status = status].status # "active"
  <2> DEFINE m == memberOf[g][a]
  <2>1. m \in ChatGroupMember
    BY <1>2
  <2> HIDE DEF m
  <2>2. [m EXCEPT !.status = status] \in ChatGroupMember
        /\ [m EXCEPT !.status = status].status # "active"
    BY <2>1 DEF ChatGroupMember
  <2> QED
    BY <2>2 DEF m
<1>4. /\ memberOf' \in [GroupIds -> [Folk -> ChatGroupMember]]
      /\ memberOf'[g][a].status # "active"
      /\ \A h \in GroupIds, b \in Folk : h # g \/ b # a => memberOf'[h][b] = memberOf[h][b]
  BY <1>1, <1>2, <1>3
<1>5. \A h \in GroupIds : ActiveIn(h)' = IF h = g THEN ActiveIn(h) \ {a} ELSE ActiveIn(h)
  BY <1>4 DEF ActiveIn
<1>6. groups[g].createdBy \in ActiveIn(g)
  BY <1>1 DEF GroupsInv, MembershipHolds, LiveGroups
<1>7. groups[g] # NoChat
  BY <1>1 DEF LiveGroups
<1>8. \A h \in GroupIds : groups[h] # NoChat => groups[h].createdBy \in ActiveIn(h)
  BY DEF GroupsInv, MembershipHolds
<1> QED
  BY <1>1, <1>4, <1>5, <1>6, <1>7, <1>8, MembersMove

\* updateMemberSettings.
LEMMA NotifyingKeeps ==
  ASSUME GroupsInv, NEW g \in GroupIds, NEW a \in Folk, UpdateMemberSettings(g, a)
  PROVE  GroupsInv'
<1>1. /\ memberOf' = [memberOf EXCEPT ![g][a].notified = ~@]
      /\ UNCHANGED <<groups, disk, chatDesk, named, overwritten>>
  BY DEF UpdateMemberSettings
<1>2. memberOf \in [GroupIds -> [Folk -> ChatGroupMember]]
  BY DEF GroupsInv, ChatGroupsTypeOK
<1> DEFINE m == memberOf[g][a]
           n == [m EXCEPT !.notified = ~m.notified]
<1>3. n \in ChatGroupMember /\ n.status = m.status
  <2>1. m \in ChatGroupMember
    BY <1>2
  <2>2. (~m.notified) \in BOOLEAN
    OBVIOUS
  <2> HIDE DEF m
  <2> QED
    BY <2>1, <2>2 DEF ChatGroupMember
<1>4. /\ memberOf' \in [GroupIds -> [Folk -> ChatGroupMember]]
      /\ \A h \in GroupIds, b \in Folk : memberOf'[h][b].status = memberOf[h][b].status
  <2>1. memberOf' = [memberOf EXCEPT ![g] = [memberOf[g] EXCEPT ![a] = n]]
    BY <1>1
  <2> HIDE DEF n
  <2> QED
    BY <1>2, <1>3, <2>1
<1>5. \A h \in GroupIds : ActiveIn(h)' = ActiveIn(h)
  BY <1>4 DEF ActiveIn
<1>6. \A h \in GroupIds : groups[h] # NoChat => groups[h].createdBy \in ActiveIn(h)
  BY DEF GroupsInv, MembershipHolds
<1> QED
  BY <1>1, <1>4, <1>5, <1>6, MembersMove

\* openDirectChat makes both active, who are active already.
LEMMA ReactivatingKeeps ==
  ASSUME GroupsInv, NEW d \in ChatDesks, ReactivateDirectMembers(d)
  PROVE  GroupsInv'
<1> DEFINE o == chatDesk[d]
           pair == o.pair
<1>1. PICK g \in o.seen :
        memberOf' = [memberOf EXCEPT ![g] = [a \in Folk |->
          IF a \in pair THEN [memberOf[g][a] EXCEPT !.status = "active"] ELSE memberOf[g][a]]]
  BY DEF ReactivateDirectMembers
<1>2. o.at = "direct" /\ ChatDeskGoes(d, IdleChatDesk)
      /\ UNCHANGED <<groups, disk, named, overwritten>>
  BY DEF ReactivateDirectMembers
<1>3. o \in DirectDesk /\ Relies(o)
  BY <1>2, DeskKinds DEF GroupsInv, ChatGroupsTypeOK, RequestsRely
<1>4. pair \subseteq Folk /\ o.by \in pair /\ g \in DirectOf(pair)
  BY <1>2, <1>3 DEF DirectDesk, Relies
<1>5. g \in GroupIds /\ groups[g] # NoChat /\ groups[g].direct = pair
  BY <1>4 DEF DirectOf, LiveGroups
<1>6. ActiveIn(g) = pair
  BY <1>4, <1>5 DEF GroupsInv, MembershipHolds
<1>7. memberOf \in [GroupIds -> [Folk -> ChatGroupMember]]
  BY DEF GroupsInv, ChatGroupsTypeOK
<1>8. ASSUME NEW a \in Folk
      PROVE  [memberOf[g][a] EXCEPT !.status = "active"] \in ChatGroupMember
             /\ [memberOf[g][a] EXCEPT !.status = "active"].status = "active"
  <2> DEFINE m == memberOf[g][a]
  <2>1. m \in ChatGroupMember
    BY <1>5, <1>7
  <2> HIDE DEF m
  <2>2. [m EXCEPT !.status = "active"] \in ChatGroupMember
        /\ [m EXCEPT !.status = "active"].status = "active"
    BY <2>1 DEF ChatGroupMember
  <2> QED
    BY <2>2 DEF m
<1>9. /\ memberOf' \in [GroupIds -> [Folk -> ChatGroupMember]]
      /\ \A h \in GroupIds \ {g} : memberOf'[h] = memberOf[h]
      /\ \A a \in Folk : IF a \in pair THEN memberOf'[g][a].status = "active"
                         ELSE memberOf'[g][a] = memberOf[g][a]
  BY <1>1, <1>5, <1>7, <1>8
<1>10. \A h \in GroupIds : ActiveIn(h)' = ActiveIn(h)
  BY <1>4, <1>6, <1>9 DEF ActiveIn
<1>11. SameGroups
  BY <1>2 DEF SameGroups
<1>12. MembershipHolds'
  BY <1>10, <1>11, MembershipStands DEF GroupsInv, MembershipHolds
<1>13. chatDesk' \in [ChatDesks -> ChatDesk] /\ chatDesk'[d] = IdleChatDesk /\ Others({d})
  BY <1>2, IdleIsADesk, DeskMoves DEF GroupsInv, Others
<1>14. RequestsRely'
  BY <1>10, <1>11, <1>13, IdleIsADesk, RequestsStand DEF Relies
<1>15. PicturesAreKnown'
  BY <1>2, <1>13, IdleIsADesk, PicturesStand DEF GroupsInv, PicturesAreKnown, Knows, Known
<1> QED
  BY <1>2, <1>9, <1>12, <1>13, <1>14, <1>15 DEF GroupsInv, ChatGroupsTypeOK, PicturesExist

\* addMembers inserts, into the group that this request alone adds to.
LEMMA InsertingKeeps ==
  ASSUME GroupsInv, NEW d \in ChatDesks, NEW g, g = chatDesk[d].group, InsertMembers(d)
  PROVE  GroupsInv'
<1> DEFINE o == chatDesk[d]
<1>1. PICK new : new = o.new
  OBVIOUS
<1>2. /\ o.at = "adding" /\ ChatDeskGoes(d, IdleChatDesk)
      /\ memberOf' = (IF new \cap ActiveIn(g) # {} THEN memberOf
                      ELSE [memberOf EXCEPT ![g] = Joined(g, new, NewRow)])
      /\ UNCHANGED <<groups, disk, named, overwritten>>
  BY <1>1 DEF InsertMembers
<1>3. o \in AddingDesk /\ Relies(o)
  BY <1>2, DeskKinds DEF GroupsInv, ChatGroupsTypeOK, RequestsRely
<1>4. /\ g \in GroupIds /\ new \subseteq Folk /\ groups[g] # NoChat /\ groups[g].direct = {}
      /\ Cardinality(ActiveIn(g) \cup new) <= MaxMembers
  BY <1>1, <1>2, <1>3 DEF AddingDesk, Relies
<1>5. memberOf \in [GroupIds -> [Folk -> ChatGroupMember]]
  BY DEF GroupsInv, ChatGroupsTypeOK
<1>6. Joined(g, new, NewRow) \in [Folk -> ChatGroupMember]
  BY <1>4, <1>5 DEF Joined, NewRow, ChatGroupMember
<1>7. memberOf' \in [GroupIds -> [Folk -> ChatGroupMember]]
      /\ \A h \in GroupIds \ {g} : memberOf'[h] = memberOf[h]
  BY <1>2, <1>4, <1>5, <1>6
<1>8. ActiveIn(g)' = ActiveIn(g) \/ ActiveIn(g)' = ActiveIn(g) \cup new
  <2>1. CASE new \cap ActiveIn(g) # {}
    BY <1>2, <2>1 DEF ActiveIn
  <2>2. CASE new \cap ActiveIn(g) = {}
    <3>1. memberOf'[g] = Joined(g, new, NewRow)
      BY <1>2, <1>4, <1>5, <2>2
    <3> QED
      BY <1>4, <3>1 DEF ActiveIn, Joined, NewRow
  <2> QED
    BY <2>1, <2>2
<1>9. \A h \in GroupIds \ {g} : ActiveIn(h)' = ActiveIn(h)
  BY <1>7 DEF ActiveIn
<1>10. Cardinality(ActiveIn(g)') <= MaxMembers
  BY <1>4, <1>8 DEF GroupsInv, MembershipHolds
<1>11. SameGroups
  BY <1>2 DEF SameGroups
<1>12. MembershipHolds'
  <2>1. \A h \in GroupIds : groups[h] # NoChat => groups[h].createdBy \in ActiveIn(h)
    BY DEF GroupsInv, MembershipHolds
  <2>2. \A h \in GroupIds : ActiveIn(h) \subseteq ActiveIn(h)'
    BY <1>8, <1>9
  <2>3. \A h \in GroupIds : groups[h] # NoChat =>
           /\ ActiveIn(h)' \subseteq ActiveIn(h) \/ Cardinality(ActiveIn(h)') <= MaxMembers
           /\ groups[h].createdBy \in ActiveIn(h)'
           /\ groups[h].direct # {} => ActiveIn(h)' = ActiveIn(h)
    BY <1>4, <1>9, <1>10, <2>1, <2>2
  <2> QED
    BY <1>11, <2>3, MembershipStands
<1>13. chatDesk' \in [ChatDesks -> ChatDesk] /\ chatDesk'[d] = IdleChatDesk /\ Others({d})
  BY <1>2, IdleIsADesk, DeskMoves DEF GroupsInv, Others
<1>14. RequestsRely'
  <2>1. \A c \in ChatDesks \ {d} : chatDesk[c].at = "adding" => chatDesk[c].group # g
    BY <1>2 DEF GroupsInv, RequestsRely
  <2>2. \A h \in GroupIds :
           \/ ActiveIn(h)' \subseteq ActiveIn(h)
           \/ /\ groups[h] # NoChat
              /\ \A c \in ChatDesks \ {d} : chatDesk[c].at = "adding" => chatDesk[c].group # h
    BY <1>4, <1>9, <2>1
  <2>3. Relies(chatDesk[d])' /\ chatDesk'[d].at # "adding"
    BY <1>13, IdleIsADesk DEF Relies
  <2> QED
    BY <1>11, <1>13, <2>2, <2>3, RequestsStand
<1>15. PicturesAreKnown'
  BY <1>2, <1>13, IdleIsADesk, PicturesStand DEF GroupsInv, PicturesAreKnown, Knows, Known
<1> QED
  BY <1>2, <1>7, <1>12, <1>13, <1>14, <1>15 DEF GroupsInv, ChatGroupsTypeOK, PicturesExist

\* A group is disbanded: a direct chat never is.
LEMMA DisbandingKeeps ==
  ASSUME GroupsInv, NEW g \in GroupIds, DisbandGroup(g)
  PROVE  GroupsInv'
<1>1. /\ groups' = [groups EXCEPT ![g].live = FALSE] /\ g \in LiveGroups /\ groups[g].direct = {}
      /\ UNCHANGED <<memberOf, disk, chatDesk, named, overwritten>>
  BY DEF DisbandGroup, GroupAdmin, GroupAccess
<1>2. groups[g] \in ChatGroup /\ groups[g] # NoChat
  BY <1>1, GroupsHaveRecords DEF LiveGroups, GroupsInv
<1>3. /\ groups' \in [GroupIds -> ChatGroup \cup {NoChat}]
      /\ groups'[g] = [groups[g] EXCEPT !.live = FALSE]
      /\ \A h \in GroupIds \ {g} : groups'[h] = groups[h]
  <2>1. [groups[g] EXCEPT !.live = FALSE] \in ChatGroup
    BY <1>2 DEF ChatGroup
  <2> QED
    BY <1>1, <2>1 DEF GroupsInv, ChatGroupsTypeOK
<1>4. /\ groups'[g] # NoChat /\ groups'[g].direct = groups[g].direct
      /\ groups'[g].createdBy = groups[g].createdBy /\ groups'[g].avatar = groups[g].avatar
  BY <1>2, <1>3, ChatGroupsAssumption DEF ChatGroup
<1>5. SameGroups
  BY <1>1, <1>2, <1>3, <1>4 DEF SameGroups
<1>6. \A h \in GroupIds : ActiveIn(h)' = ActiveIn(h)
  BY <1>1 DEF ActiveIn
<1>7. MembershipHolds'
  BY <1>5, <1>6, MembershipStands DEF GroupsInv, MembershipHolds
<1>8. Others({}) /\ {} \in SUBSET ChatDesks
  BY <1>1 DEF Others
<1>9. RequestsRely'
  BY <1>5, <1>6, <1>8, RequestsStand
<1>10. \A h \in GroupIds : groups'[h] # NoChat =>
         groups[h] # NoChat /\ groups'[h].avatar = groups[h].avatar
  BY <1>2, <1>3, <1>4
<1>11. PicturesAreKnown'
  <2>1. \A h \in GroupIds : groups'[h] # NoChat => groups'[h].avatar \in Known'
    BY <1>1, <1>10 DEF GroupsInv, PicturesAreKnown, Known
  <2>2. \A c \in ChatDesks : chatDesk[c].at = "picture" => chatDesk[c].file \in disk' \ named'
    BY <1>1 DEF GroupsInv, PicturesAreKnown, Knows
  <2> QED
    BY <1>1, <1>8, <2>1, <2>2, PicturesStand
<1>12. PicturesExist'
  BY <1>1, <1>10 DEF GroupsInv, PicturesExist
<1> QED
  BY <1>1, <1>3, <1>7, <1>9, <1>11, <1>12 DEF GroupsInv, ChatGroupsTypeOK

\* No group was made.
LEMMA ChatGroupsStart == ChatGroupsInit => GroupsInv
<1> SUFFICES ASSUME ChatGroupsInit PROVE GroupsInv
  OBVIOUS
<1>1. /\ groups = [g \in GroupIds |-> NoChat] /\ disk = {} /\ named = {}
      /\ memberOf = [g \in GroupIds |-> [a \in Folk |-> NoMember]]
      /\ chatDesk = [d \in ChatDesks |-> IdleChatDesk]
  BY DEF ChatGroupsInit
<1>2. NoMember \in ChatGroupMember /\ NoMember.status # "active"
  BY DEF NoMember, ChatGroupMember
<1>3. ChatGroupsTypeOK
  BY <1>1, <1>2, IdleIsADesk DEF ChatGroupsTypeOK
<1>4. \A g \in GroupIds : ActiveIn(g) = {}
  BY <1>1, <1>2 DEF ActiveIn
<1>5. RequestsRely /\ PicturesAreKnown
  BY <1>1, <1>4, IdleIsADesk DEF RequestsRely, Relies, PicturesAreKnown, Knows
<1>6. MembershipHolds /\ PicturesExist
  BY <1>1 DEF MembershipHolds, PicturesExist
<1> QED
  BY <1>3, <1>5, <1>6 DEF GroupsInv

\* Every step.
LEMMA ChatGroupsStep ==
  ASSUME GroupsInv, [ChatGroupsNext]_chatVars
  PROVE  GroupsInv'
<1>1. ASSUME NEW g \in GroupIds, NEW people \in SUBSET Folk, CreateGroup(g, people)
      PROVE  GroupsInv'
  BY <1>1, CreatingKeeps
<1>2. ASSUME NEW d \in ChatDesks, NEW a \in Folk, NEW b \in Folk, OpenDirectChat(d, a, b)
      PROVE  GroupsInv'
  BY <1>2, OpeningKeeps
<1>3. ASSUME NEW d \in ChatDesks, NEW g \in GroupIds, InsertDirectChat(d, g)
      PROVE  GroupsInv'
  BY <1>3, InsertingDirectKeeps
<1>4. ASSUME NEW d \in ChatDesks, NEW g \in GroupIds, NEW people \in SUBSET Folk,
             AddMembers(d, g, people)
      PROVE  GroupsInv'
  BY <1>4, AddingKeeps
<1>5. ASSUME NEW d \in ChatDesks, NEW g \in GroupIds,
             NEW avatar \in {"keep", NoPicture} \cup Pictures, UpdateGroupSettings(d, g, avatar)
      PROVE  GroupsInv'
  BY <1>5, SettingKeeps
<1>6. ASSUME NEW d \in ChatDesks, NEW g \in GroupIds, NEW file \in Pictures,
             UpdateGroupAvatar(d, g, file)
      PROVE  GroupsInv'
  BY <1>6, DrawingKeeps
<1>7. ASSUME NEW g \in GroupIds, DisbandGroup(g) PROVE GroupsInv'
  BY <1>7, DisbandingKeeps
<1>8. ASSUME NEW g \in GroupIds, NEW a \in Folk, RemoveMember(g, a) \/ LeaveGroup(g, a)
      PROVE  GroupsInv'
  BY <1>8, GoingKeeps
<1>9. ASSUME NEW g \in GroupIds, NEW a \in Folk, UpdateMemberSettings(g, a) PROVE GroupsInv'
  BY <1>9, NotifyingKeeps
<1>10. ASSUME NEW d \in ChatDesks, ReactivateDirectMembers(d) PROVE GroupsInv'
  BY <1>10, ReactivatingKeeps
<1>11. ASSUME NEW d \in ChatDesks, InsertMembers(d) PROVE GroupsInv'
  <2>1. PICK g : g = chatDesk[d].group
    OBVIOUS
  <2> QED
    BY <1>11, <2>1, InsertingKeeps
<1>12. ASSUME NEW d \in ChatDesks, SaveGroupSettings(d) PROVE GroupsInv'
  BY <1>12, SavingSettingsKeeps
<1>13. ASSUME NEW d \in ChatDesks, SaveGroupAvatar(d) PROVE GroupsInv'
  BY <1>13, SavingPictureKeeps
<1>14. ASSUME NEW d \in ChatDesks, RemoveUnusedGroupAvatar(d) PROVE GroupsInv'
  BY <1>14, TidyingKeeps
<1>15. ASSUME UNCHANGED <<groups, memberOf, disk, chatDesk, named, overwritten>>
       PROVE  GroupsInv'
  <2>1. /\ ChatGroupsTypeOK' /\ (\A g : ActiveIn(g)' = ActiveIn(g))
        /\ (\A p : DirectOf(p)' = DirectOf(p))
    BY <1>15 DEF GroupsInv, ChatGroupsTypeOK, ActiveIn, DirectOf, LiveGroups
  <2>4. ASSUME NEW d \in ChatDesks PROVE Relies(chatDesk[d])'
    <3>1. Relies(chatDesk[d]) /\ chatDesk'[d] = chatDesk[d] /\ groups' = groups
      BY <1>15 DEF GroupsInv, RequestsRely
    <3> QED
      BY <2>1, <3>1 DEF Relies
  <2>5. RequestsRely'
    <3>1. \A g \in GroupIds : groups[g] = NoChat => ActiveIn(g) = {}
      BY DEF GroupsInv, RequestsRely
    <3>2. \A c, d \in ChatDesks :
            c # d /\ chatDesk[c].at = "adding" /\ chatDesk[d].at = "adding"
              => chatDesk[c].group # chatDesk[d].group
      BY DEF GroupsInv, RequestsRely
    <3>3. (\A g \in GroupIds : groups[g] = NoChat => ActiveIn(g) = {})'
      BY <1>15, <2>1, <3>1
    <3> QED
      BY <1>15, <2>4, <3>2, <3>3 DEF RequestsRely
  <2>2. PicturesAreKnown'
    BY <1>15 DEF GroupsInv, PicturesAreKnown, Knows, Known
  <2>3. MembershipHolds' /\ PicturesExist'
    BY <1>15, <2>1 DEF GroupsInv, MembershipHolds, PicturesExist
  <2> QED
    BY <2>1, <2>2, <2>3, <2>5 DEF GroupsInv
<1>16. ASSUME NEW a \in Folk, EmploymentChanges(a) PROVE GroupsInv'
  BY <1>15, <1>16 DEF EmploymentChanges
<1>17. CASE UNCHANGED chatVars
  BY <1>15, <1>17 DEF chatVars
<1> QED
  BY <1>1, <1>2, <1>3, <1>4, <1>5, <1>6, <1>7, <1>8, <1>9, <1>10, <1>11, <1>12, <1>13, <1>14,
     <1>16, <1>17 DEF ChatGroupsNext

\* Who is told is who may read, by what both look at.
LEMMA ReadersAreTold == ToldIsAllowed
BY DEF ToldIsAllowed, EligibleRecipients, EligiblePushAccounts, GroupAccess, IsEmployed, ActiveIn,
       LiveGroups

\* The chat groups keep their promise (chat-groups.service.ts): a pair has one
\* direct chat, its people and the maker of a group stay, no group outgrows its
\* limit, who is told of an event is who may read it, and the picture of a
\* group is on the disk unless a save of the settings wrote one.
THEOREM ChatGroupsKept == ChatGroupsSpec => []ChatGroupsPromise
<1>1. GroupsInv => ChatGroupsPromise
  BY ReadersAreTold DEF GroupsInv, ChatGroupsPromise
<1> QED
  BY <1>1, ChatGroupsStart, ChatGroupsStep, PTL DEF ChatGroupsSpec

-----------------------------------------------------------------------------
\* The career structure: departments, the order of their positions and skills, and who stands where.

\* Ranks that fill 1 .. n are apart.
LEMMA DenseApart ==
  ASSUME NEW r, NEW S, IsFiniteSet(S), {r[x].rank : x \in S} = 1 .. Cardinality(S)
  PROVE  /\ \A x, y \in S : r[x].rank = r[y].rank => x = y
         /\ \A x \in S : r[x].rank \in 1 .. Cardinality(S)
<1> DEFINE n == Cardinality(S)
<1> DEFINE f == [x \in S |-> r[x].rank]
<1>1. n \in Nat
  BY FS_CardinalityType
<1>2. f \in Surjection(S, 1 .. n)
  BY DEF Surjection
<1>3. Cardinality(1 .. n) = n
  BY <1>1, FS_Interval
<1>4. f \in Injection(S, 1 .. n)
  BY <1>2, <1>3, FS_SurjSameCardinalityImpliesInj
<1>5. /\ \A x, y \in S : f[x] = f[y] => x = y
      /\ \A x \in S : f[x] \in 1 .. n
  BY <1>4 DEF Injection, IsInjective
<1>6. \A x \in S : f[x] = r[x].rank
  OBVIOUS
<1> HIDE DEF f
<1>7. QED
  BY <1>5, <1>6

\* Numbered in their order, rows that were apart fill 1 .. n.
LEMMA NumbersFill ==
  ASSUME NEW r, NEW S, IsFiniteSet(S), \A x \in S : r[x].rank \in Nat \ {0},
         \A x, y \in S : r[x].rank = r[y].rank => x = y
  PROVE  /\ \A x \in S : Place(r, S, x) \in 1 .. Cardinality(S)
         /\ \A k \in 1 .. Cardinality(S) : \E x \in S : Place(r, S, x) = k
<1> DEFINE n == Cardinality(S)
<1> DEFINE A(x) == {y \in S : Ahead(r, y, x)}
<1> DEFINE f == [x \in S |-> Place(r, S, x)]
<1>1. n \in Nat
  BY FS_CardinalityType
<1>2. \A x, y \in S : Ahead(r, y, x) <=> r[y].rank < r[x].rank
  BY DEF Ahead
<1>3. \A x \in S : /\ IsFiniteSet(A(x)) /\ Cardinality(A(x)) \in Nat
                   /\ Place(r, S, x) = Cardinality(A(x)) + 1
  BY FS_Subset, FS_CardinalityType DEF Place
<1>40. \A x \in S : x \notin A(x) /\ A(x) \subseteq S \ {x}
  BY <1>2
<1>50. \A x, y \in S : r[x].rank < r[y].rank => A(x) \cup {x} \subseteq A(y)
  BY <1>2
<1> HIDE DEF A, n
<1>4. ASSUME NEW x \in S PROVE Place(r, S, x) \in 1 .. n
  <2>1. IsFiniteSet(S \ {x}) /\ Cardinality(S \ {x}) = n - 1
    BY FS_RemoveElement DEF n
  <2>2. Cardinality(A(x)) <= n - 1
    BY <1>40, <2>1, FS_Subset
  <2>3. Cardinality(A(x)) \in Nat /\ Place(r, S, x) = Cardinality(A(x)) + 1
    BY <1>3
  <2>4. QED
    BY <1>1, <2>2, <2>3
<1>5. ASSUME NEW x \in S, NEW y \in S, r[x].rank < r[y].rank
      PROVE  Place(r, S, x) < Place(r, S, y)
  <2>1. Cardinality(A(x) \cup {x}) = Cardinality(A(x)) + 1
    BY <1>3, <1>40, FS_AddElement
  <2>2. Cardinality(A(x) \cup {x}) <= Cardinality(A(y))
    BY <1>3, <1>5, <1>50, FS_Subset
  <2>3. /\ Cardinality(A(x)) \in Nat /\ Place(r, S, x) = Cardinality(A(x)) + 1
        /\ Cardinality(A(y)) \in Nat /\ Place(r, S, y) = Cardinality(A(y)) + 1
    BY <1>3
  <2>4. QED
    BY <2>1, <2>2, <2>3
<1>6. ASSUME NEW x \in S, NEW y \in S, Place(r, S, x) = Place(r, S, y)
      PROVE  x = y
  <2>1. SUFFICES ASSUME x # y PROVE FALSE
    OBVIOUS
  <2>2. r[x].rank < r[y].rank \/ r[y].rank < r[x].rank
    BY <2>1
  <2>3. Place(r, S, x) \in 1 .. n /\ Place(r, S, y) \in 1 .. n
    BY <1>4
  <2>4. Place(r, S, x) < Place(r, S, y) \/ Place(r, S, y) < Place(r, S, x)
    BY <1>5, <2>2
  <2>5. QED
    BY <1>1, <1>6, <2>3, <2>4
<1>7. f \in [S -> 1 .. n]
  BY <1>4
<1>8. \A x, y \in S : f[x] = f[y] => x = y
  BY <1>6
<1>9. \A x \in S : f[x] = Place(r, S, x)
  OBVIOUS
<1> HIDE DEF f
<1>10. f \in Injection(S, 1 .. n)
  BY <1>7, <1>8 DEF Injection, IsInjective
<1>11. IsFiniteSet(1 .. n) /\ Cardinality(1 .. n) = n
  BY <1>1, FS_Interval
<1>12. f \in Surjection(S, 1 .. n)
  BY <1>10, <1>11, FS_Injection DEF n
<1>13. \A k \in 1 .. n : \E x \in S : Place(r, S, x) = k
  BY <1>9, <1>4, <1>12 DEF Surjection
<1>14. QED
  BY <1>4, <1>13 DEF n

\* The rows of a department are finitely many, and as many as there can be at most.
LEMMA RowsFinite ==
  ASSUME NEW r, NEW d, IsFiniteSet(DOMAIN r)
  PROVE  /\ IsFiniteSet(RowsOf(r, d)) /\ Cardinality(RowsOf(r, d)) \in Nat
         /\ Cardinality(RowsOf(r, d)) <= Cardinality(DOMAIN r)
         /\ Cardinality(DOMAIN r) \in Nat
BY FS_Subset, FS_CardinalityType DEF RowsOf

\* A list whose ranks are dense is apart, and its ranks are not NULL.
LEMMA DenseRows ==
  ASSUME NEW r, NEW d, IsFiniteSet(DOMAIN r), Dense(r, d)
  PROVE  /\ \A x, y \in RowsOf(r, d) : r[x].rank = r[y].rank => x = y
         /\ \A x \in RowsOf(r, d) : r[x].rank \in 1 .. Cardinality(RowsOf(r, d))
                                    /\ r[x].rank \in Nat \ {0}
<1>1. IsFiniteSet(RowsOf(r, d)) /\ Cardinality(RowsOf(r, d)) \in Nat
  BY RowsFinite
<1>2. {r[x].rank : x \in RowsOf(r, d)} = 1 .. Cardinality(RowsOf(r, d))
  BY DEF Dense
<1> DEFINE S == RowsOf(r, d)
<1>3. /\ \A x, y \in S : r[x].rank = r[y].rank => x = y
      /\ \A x \in S : r[x].rank \in 1 .. Cardinality(S)
  BY <1>1, <1>2, DenseApart
<1>4. QED
  BY <1>1, <1>3

-----------------------------------------------------------------------------
\* The two tables of ordered rows: positions with a rank, skills with a sequence.
Table(X, R) ==
  \/ X = Positions /\ R = StoreRole
  \/ X = Skills /\ R = StoreSkill

\* Rows with a rank each, no two the same.
Apart(r, S) ==
  /\ \A x \in S : r[x].rank # 0
  /\ \A x, y \in S : r[x].rank = r[y].rank => x = y

\* A position is no skill record: it has no field pos.
LEMMA RoleIsNoSkill == StoreRole # StoreSkill
<1>1. SUFFICES ASSUME StoreRole = StoreSkill PROVE FALSE
  OBVIOUS
<1> DEFINE y == [state |-> "none", dept |-> Top, rank |-> 0]
<1>2. y \in StoreRole
  BY StructureAssumption, FS_CardinalityType DEF StoreRole, RowState, AnyDept
<1>3. y \in StoreSkill
  BY <1>1, <1>2
<1>4. QED
  BY <1>3 DEF StoreSkill

\* Rows in the same state, skills of the same position.
Alike(R, y, z) == y.state = z.state /\ (R = StoreSkill => y.pos = z.pos)

\* Being alike is reflexive and transitive.
LEMMA AlikeRows ==
  ASSUME NEW R
  PROVE  /\ \A y : Alike(R, y, y)
         /\ \A x, y, z : Alike(R, x, y) /\ Alike(R, y, z) => Alike(R, x, z)
BY DEF Alike

\* A row that takes another rank.
LEMMA RowRanked ==
  ASSUME NEW X, NEW R, Table(X, R), NEW y \in R, NEW n \in 0 .. Cardinality(X),
         NEW z, z = [y EXCEPT !.rank = n]
  PROVE  /\ z \in R /\ Alike(R, z, y) /\ z.dept = y.dept /\ z.rank = n
<1>1. CASE X = Positions /\ R = StoreRole
  <2>1. R # StoreSkill
    BY <1>1, RoleIsNoSkill
  <2>2. QED
    BY <1>1, <2>1 DEF StoreRole, Alike
<1>2. CASE X = Skills /\ R = StoreSkill
  BY <1>2 DEF StoreSkill, Alike
<1>3. QED
  BY <1>1, <1>2 DEF Table

\* A row that goes to another department.
LEMMA RowMoved ==
  ASSUME NEW X, NEW R, Table(X, R), NEW y \in R, NEW d \in AnyDept,
         NEW z, z = [y EXCEPT !.dept = d]
  PROVE  /\ z \in R /\ Alike(R, z, y) /\ z.dept = d /\ z.rank = y.rank
<1>1. CASE X = Positions /\ R = StoreRole
  <2>1. R # StoreSkill
    BY <1>1, RoleIsNoSkill
  <2>2. QED
    BY <1>1, <2>1 DEF StoreRole, Alike
<1>2. CASE X = Skills /\ R = StoreSkill
  BY <1>2 DEF StoreSkill, Alike
<1>3. QED
  BY <1>1, <1>2 DEF Table

\* The rows of a table are finitely many, their ranks numbers.
LEMMA TableFinite ==
  ASSUME NEW X, NEW R, Table(X, R)
  PROVE  /\ IsFiniteSet(X) /\ Cardinality(X) \in Nat
         /\ \A y \in R : y.rank \in Nat
<1>1. CASE X = Positions /\ R = StoreRole
  BY <1>1, StructureAssumption, FS_CardinalityType DEF StoreRole
<1>2. CASE X = Skills /\ R = StoreSkill
  BY <1>2, StructureAssumption, FS_CardinalityType DEF StoreSkill
<1>3. QED
  BY <1>1, <1>2 DEF Table

\* The rows S numbered in their order: the others stay as they are.
LEMMA ApplyRows ==
  ASSUME NEW X, NEW R, Table(X, R), NEW r \in [X -> R], NEW S \in SUBSET X,
         Apart(r, S),
         NEW q, q = ApplyOrder(r, S)
  PROVE  /\ q \in [X -> R]
         /\ \A x \in X : /\ Alike(R, q[x], r[x]) /\ q[x].dept = r[x].dept
         /\ \A x \in X \ S : q[x] = r[x]
         /\ {q[x].rank : x \in S} = 1 .. Cardinality(S)
<1>1. IsFiniteSet(X) /\ Cardinality(X) \in Nat /\ \A x \in S : r[x].rank \in Nat \ {0}
  BY TableFinite DEF Apart
<1>2. IsFiniteSet(S) /\ Cardinality(S) <= Cardinality(X) /\ Cardinality(S) \in Nat
  BY <1>1, FS_Subset, FS_CardinalityType
<1>3. /\ \A x \in S : Place(r, S, x) \in 1 .. Cardinality(S)
      /\ \A k \in 1 .. Cardinality(S) : \E x \in S : Place(r, S, x) = k
  BY <1>1, <1>2, NumbersFill DEF Apart
<1>4. \A x \in S : Place(r, S, x) \in 0 .. Cardinality(X)
  BY <1>1, <1>2, <1>3
<1>5. q = [x \in X |-> IF x \in S THEN [r[x] EXCEPT !.rank = Place(r, S, x)] ELSE r[x]]
  BY DEF ApplyOrder
<1>6. ASSUME NEW x \in S
      PROVE  /\ q[x] \in R /\ Alike(R, q[x], r[x]) /\ q[x].dept = r[x].dept
             /\ q[x].rank = Place(r, S, x)
  <2>1. PICK n \in 0 .. Cardinality(X) : n = Place(r, S, x)
    BY <1>4
  <2>2. q[x] = [r[x] EXCEPT !.rank = n]
    BY <1>5, <2>1
  <2>3. r[x] \in R
    OBVIOUS
  <2>4. PICK y \in R : y = r[x]
    BY <2>3
  <2>5. q[x] = [y EXCEPT !.rank = n]
    BY <2>2, <2>4
  <2>6. /\ q[x] \in R /\ Alike(R, q[x], y) /\ q[x].dept = y.dept /\ q[x].rank = n
    BY <2>5, RowRanked
  <2>7. QED
    BY <2>1, <2>4, <2>6
<1>7. \A x \in X \ S : q[x] = r[x]
  BY <1>5
<1>8. q \in [X -> R]
  <2>1. \A x \in X : q[x] \in R
    BY <1>6, <1>7
  <2>2. q = [x \in X |-> q[x]]
    BY <1>5
  <2>3. QED
    BY <2>1, <2>2
<1>9. {q[x].rank : x \in S} = 1 .. Cardinality(S)
  BY <1>3, <1>6
<1>10. QED
  BY <1>6, <1>7, <1>8, <1>9, AlikeRows

\* A row placed among the others of a department: their ranks stay dense.
LEMMA PlacedRows ==
  ASSUME NEW X, NEW R, Table(X, R), NEW r \in [X -> R], NEW x \in X, r[x].state = "live",
         NEW d \in AnyDept, NEW at \in Nat \ {0},
         Apart(r, RowsOf(r, d) \ {x}), NEW q, q = Placed(r, d, x, at)
  PROVE  /\ q \in [X -> R] /\ q[x].dept = d
         /\ \A y \in X : Alike(R, q[y], r[y])
         /\ \A y \in X \ {x} : q[y].dept = r[y].dept
         /\ \A y \in X \ {x} : y \notin RowsOf(r, d) => q[y] = r[y]
         /\ RowsOf(q, d) = RowsOf(r, d) \cup {x} /\ Dense(q, d)
<1>0. PICK S : S = RowsOf(r, d) \ {x}
  OBVIOUS
<1> DEFINE m == Cardinality(S)
<1> DEFINE i == IF at > m THEN m + 1 ELSE at
<1> DEFINE n(y) == IF Place(r, S, y) < i THEN Place(r, S, y) ELSE Place(r, S, y) + 1
<1>1. IsFiniteSet(X) /\ Cardinality(X) \in Nat /\ S \subseteq X /\ x \notin S
  BY <1>0, TableFinite DEF RowsOf
<1>2. /\ IsFiniteSet(S) /\ m \in Nat /\ \A y \in S : r[y].rank \in Nat \ {0}
      /\ m + 1 <= Cardinality(X) /\ Cardinality(S \cup {x}) = m + 1
  <2>1. IsFiniteSet(S) /\ m \in Nat
    BY <1>1, FS_Subset, FS_CardinalityType
  <2>2. Cardinality(S \cup {x}) = m + 1
    BY <1>1, <2>1, FS_AddElement
  <2>3. Cardinality(S \cup {x}) <= Cardinality(X)
    BY <1>1, FS_Subset
  <2>4. \A y \in S : r[y].rank \in Nat \ {0}
    BY <1>0, <1>1, TableFinite DEF Apart
  <2>5. QED
    BY <2>1, <2>2, <2>3, <2>4
<1>3. /\ \A y \in S : Place(r, S, y) \in 1 .. m
      /\ \A k \in 1 .. m : \E y \in S : Place(r, S, y) = k
  <2>1. /\ IsFiniteSet(S) /\ \A y \in S : r[y].rank \in Nat \ {0}
        /\ \A y, z \in S : r[y].rank = r[z].rank => y = z
    BY <1>0, <1>2 DEF Apart
  <2> HIDE DEF i, n, m
  <2>2. /\ \A y \in S : Place(r, S, y) \in 1 .. Cardinality(S)
        /\ \A k \in 1 .. Cardinality(S) : \E y \in S : Place(r, S, y) = k
    BY <2>1, NumbersFill
  <2>3. QED
    BY <2>2 DEF m
<1>4. q = [y \in X |-> IF y = x THEN [r[y] EXCEPT !.dept = d, !.rank = i]
                       ELSE IF y \notin S THEN r[y] ELSE [r[y] EXCEPT !.rank = n(y)]]
  BY <1>0 DEF Placed
<1> HIDE DEF m
<1>5. i \in 1 .. (m + 1) /\ i \in 0 .. Cardinality(X)
  BY <1>1, <1>2
<1>6. /\ \A y \in S : n(y) \in 1 .. (m + 1) /\ n(y) # i /\ n(y) \in 0 .. Cardinality(X)
      /\ \A k \in 1 .. (m + 1) : k # i => \E y \in S : n(y) = k
  <2>1. ASSUME NEW y \in S
        PROVE  n(y) \in 1 .. (m + 1) /\ n(y) # i /\ n(y) \in 0 .. Cardinality(X)
    <3>1. Place(r, S, y) \in 1 .. m
      BY <1>3
    <3> HIDE DEF i
    <3>2. QED
      BY <1>1, <1>2, <1>5, <3>1
  <2>2. ASSUME NEW k \in 1 .. (m + 1), k < i PROVE \E y \in S : n(y) = k
    <3>1. k \in 1 .. m
      BY <1>2, <1>5, <2>2
    <3>2. PICK y \in S : Place(r, S, y) = k
      BY <1>3, <3>1
    <3>3. QED
      BY <2>2, <3>2
  <2>3. ASSUME NEW k \in 1 .. (m + 1), k > i PROVE \E y \in S : n(y) = k
    <3>1. k - 1 \in 1 .. m /\ ~(k - 1 < i)
      BY <1>2, <1>5, <2>3
    <3>2. PICK y \in S : Place(r, S, y) = k - 1
      BY <1>3, <3>1
    <3>3. n(y) = k
      BY <3>1, <3>2
    <3>4. QED
      BY <3>3
  <2>4. \A k \in 1 .. (m + 1) : k # i => k < i \/ k > i
    BY <1>2, <1>5
  <2>5. QED
    BY <2>1, <2>2, <2>3, <2>4
<1> HIDE DEF i, n
<1>7. /\ q[x] \in R /\ Alike(R, q[x], r[x]) /\ q[x].dept = d /\ q[x].rank = i
  <2>1. PICK y \in R : y = r[x]
    OBVIOUS
  <2>2. q[x] = [y EXCEPT !.dept = d, !.rank = i]
    BY <1>4, <2>1
  <2>3. /\ q[x] \in R /\ Alike(R, q[x], y) /\ q[x].dept = d /\ q[x].rank = i
    <3>1. PICK k \in 0 .. Cardinality(X) : k = i
      BY <1>5
    <3>2. PICK z : z = [y EXCEPT !.dept = d]
      OBVIOUS
    <3>3. /\ z \in R /\ Alike(R, z, y) /\ z.dept = d
      BY <3>2, RowMoved
    <3>4. q[x] = [z EXCEPT !.rank = k]
      BY <2>2, <3>1, <3>2
    <3>5. /\ q[x] \in R /\ Alike(R, q[x], z) /\ q[x].dept = z.dept /\ q[x].rank = k
      BY <3>3, <3>4, RowRanked
    <3>6. QED
      BY <3>1, <3>3, <3>5, AlikeRows
  <2>4. QED
    BY <2>1, <2>3
<1>8. ASSUME NEW y \in S
      PROVE  /\ q[y] \in R /\ Alike(R, q[y], r[y]) /\ q[y].dept = r[y].dept
             /\ q[y].rank = n(y)
  <2>1. PICK k \in 0 .. Cardinality(X) : k = n(y)
    BY <1>6
  <2>2. PICK z \in R : z = r[y]
    BY <1>1
  <2>3. q[y] = [z EXCEPT !.rank = k]
    BY <1>1, <1>4, <2>1, <2>2
  <2>4. /\ q[y] \in R /\ Alike(R, q[y], z) /\ q[y].dept = z.dept /\ q[y].rank = k
    BY <2>3, RowRanked
  <2>5. QED
    BY <2>1, <2>2, <2>4
<1>9. \A y \in X \ (S \cup {x}) : q[y] = r[y]
  BY <1>4
<1>10. q \in [X -> R]
  <2>1. \A y \in X : q[y] \in R
    BY <1>7, <1>8, <1>9
  <2>2. q = [y \in X |-> q[y]]
    BY <1>4
  <2>3. QED
    BY <2>1, <2>2
<1>11. RowsOf(q, d) = S \cup {x}
  BY <1>0, <1>1, <1>7, <1>8, <1>9, <1>10 DEF RowsOf, Alike
<1>12. Dense(q, d)
  <2>1. {q[y].rank : y \in S \cup {x}} = 1 .. (m + 1)
    BY <1>5, <1>6, <1>7, <1>8
  <2>2. QED
    BY <1>2, <1>11, <2>1 DEF Dense
<1>13. QED
  BY <1>0, <1>7, <1>8, <1>9, <1>10, <1>11, <1>12, AlikeRows

-----------------------------------------------------------------------------
\* The rows of a department, one of them left aside, are ranked 1, 2, ...
DenseBut(r, e, x) ==
  {r[y].rank : y \in RowsOf(r, e) \ {x}} = 1 .. Cardinality(RowsOf(r, e) \ {x})

\* Rows that are the same, with the same ranks, are as dense.
LEMMA SameRows ==
  ASSUME NEW S, NEW q, NEW r, \A y \in S : q[y].rank = r[y].rank,
         {r[y].rank : y \in S} = 1 .. Cardinality(S)
  PROVE  {q[y].rank : y \in S} = 1 .. Cardinality(S)
<1>1. {q[y].rank : y \in S} = {r[y].rank : y \in S}
  OBVIOUS
<1>2. QED
  BY <1>1

\* A row placed in a department, in no list before or left out of its old one.
LEMMA PlacedDense ==
  ASSUME NEW X, NEW R, Table(X, R), NEW r \in [X -> R], NEW x \in X, r[x].state = "live",
         NEW d \in AnyDept, NEW at \in Nat \ {0},
         Apart(r, RowsOf(r, d) \ {x}),
         \A e \in AnyDept \ {d} : DenseBut(r, e, x),
         NEW q, q = Placed(r, d, x, at)
  PROVE  /\ q \in [X -> R] /\ q[x].dept = d
         /\ \A y \in X : Alike(R, q[y], r[y])
         /\ \A y \in X \ {x} : q[y].dept = r[y].dept
         /\ \A y \in X \ {x} : y \notin RowsOf(r, d) => q[y] = r[y]
         /\ \A y \in RowsOf(q, d) : q[y].rank # 0
         /\ \A e \in AnyDept : Dense(q, e)
<1>2. /\ q \in [X -> R] /\ q[x].dept = d
      /\ \A y \in X : Alike(R, q[y], r[y])
      /\ \A y \in X \ {x} : q[y].dept = r[y].dept
      /\ \A y \in X \ {x} : y \notin RowsOf(r, d) => q[y] = r[y]
      /\ RowsOf(q, d) = RowsOf(r, d) \cup {x} /\ Dense(q, d)
  BY PlacedRows
<1>3. ASSUME NEW e \in AnyDept \ {d} PROVE Dense(q, e)
  <2>1. PICK T : T = RowsOf(r, e) \ {x}
    OBVIOUS
  <2>2. RowsOf(q, e) = T
    BY <1>2, <1>3, <2>1 DEF RowsOf, Alike
  <2>3. \A y \in T : q[y].rank = r[y].rank
    BY <1>2, <1>3, <2>1 DEF RowsOf
  <2>4. {r[y].rank : y \in T} = 1 .. Cardinality(T)
    BY <2>1, <1>3 DEF DenseBut
  <2>5. {q[y].rank : y \in T} = 1 .. Cardinality(T)
    BY <2>3, <2>4, SameRows
  <2>6. QED
    BY <2>2, <2>5 DEF Dense
<1>4. \A y \in RowsOf(q, d) : q[y].rank # 0
  <2>1. IsFiniteSet(DOMAIN q)
    BY <1>2, TableFinite
  <2>2. \A y \in RowsOf(q, d) : q[y].rank \in Nat \ {0}
    BY <1>2, <2>1, DenseRows
  <2>3. QED
    BY <2>2
<1>5. QED
  BY <1>2, <1>3, <1>4

\* A row taken out of its list: the others close the gap.
LEMMA WithoutDense ==
  ASSUME NEW X, NEW R, Table(X, R), NEW r \in [X -> R], NEW x \in X, r[x].state = "live",
         \A e \in AnyDept : Dense(r, e), r[x].dept \in AnyDept,
         NEW q, q = Without(r, x)
  PROVE  /\ q \in [X -> R]
         /\ \A y \in X : Alike(R, q[y], r[y]) /\ q[y].dept = r[y].dept
         /\ \A e \in AnyDept : DenseBut(q, e, x)
         /\ \A y \in X \ {x} : r[y].rank # 0 => q[y].rank # 0
<1>1. PICK d \in AnyDept : d = r[x].dept
  OBVIOUS
<1>2. PICK S \in SUBSET X : S = RowsOf(r, d) \ {x}
  BY DEF RowsOf
<1>3. PICK w : w = [r EXCEPT ![x].rank = 0]
  OBVIOUS
<1>4. IsFiniteSet(X) /\ Cardinality(X) \in Nat
  BY TableFinite
<1>5. /\ w[x] \in R /\ Alike(R, w[x], r[x]) /\ w[x].dept = r[x].dept /\ w[x].rank = 0
  <2>1. PICK y \in R : y = r[x]
    OBVIOUS
  <2>2. w[x] = [y EXCEPT !.rank = 0]
    BY <1>3, <2>1
  <2>3. 0 \in 0 .. Cardinality(X)
    BY <1>4
  <2>4. /\ w[x] \in R /\ Alike(R, w[x], y) /\ w[x].dept = y.dept /\ w[x].rank = 0
    BY <2>2, <2>3, RowRanked
  <2>5. QED
    BY <2>1, <2>4
<1>6. w \in [X -> R] /\ \A y \in X \ {x} : w[y] = r[y]
  <2>1. \A y \in X \ {x} : w[y] = r[y]
    BY <1>3
  <2>2. \A y \in X : w[y] \in R
    BY <1>5, <2>1
  <2>3. w = [y \in X |-> w[y]]
    BY <1>3
  <2>4. QED
    BY <2>1, <2>2, <2>3
<1>7. /\ \A y, z \in RowsOf(r, d) : r[y].rank = r[z].rank => y = z
      /\ \A y \in RowsOf(r, d) : r[y].rank \in Nat \ {0}
  <2>1. IsFiniteSet(DOMAIN r) /\ Dense(r, d)
    BY <1>4
  <2>2. QED
    BY <2>1, DenseRows
<1>8. Apart(w, S)
  BY <1>2, <1>6, <1>7 DEF Apart
<1>9. q = ApplyOrder(w, S)
  BY <1>1, <1>2, <1>3 DEF Without
<1>10. /\ q \in [X -> R]
       /\ \A y \in X : /\ Alike(R, q[y], w[y]) /\ q[y].dept = w[y].dept
       /\ \A y \in X \ S : q[y] = w[y]
       /\ {q[y].rank : y \in S} = 1 .. Cardinality(S)
  BY <1>6, <1>8, <1>9, ApplyRows
<1>11. \A y \in X : Alike(R, q[y], r[y]) /\ q[y].dept = r[y].dept
  BY <1>5, <1>6, <1>10, AlikeRows
<1>12. ASSUME NEW e \in AnyDept PROVE DenseBut(q, e, x)
  <2>1. PICK T : T = RowsOf(r, e) \ {x}
    OBVIOUS
  <2>2. RowsOf(q, e) \ {x} = T
    BY <1>10, <1>11, <2>1 DEF RowsOf, Alike
  <2>3. {q[y].rank : y \in T} = 1 .. Cardinality(T)
    <3>1. CASE e = d
      BY <1>2, <1>10, <2>1, <3>1
    <3>2. CASE e # d
      <4>1. T = RowsOf(r, e) /\ \A y \in T : y \in X \ S /\ y # x
        BY <1>1, <1>2, <2>1, <3>2 DEF RowsOf
      <4>2. \A y \in T : q[y].rank = r[y].rank
        BY <1>6, <1>10, <4>1
      <4>3. {r[y].rank : y \in T} = 1 .. Cardinality(T)
        BY <4>1 DEF Dense
      <4>4. QED
        BY <4>2, <4>3, SameRows
    <3>3. QED
      BY <3>1, <3>2
  <2>4. QED
    BY <2>2, <2>3 DEF DenseBut
<1>13. ASSUME NEW y \in X \ {x}, r[y].rank # 0 PROVE q[y].rank # 0
  <2>1. CASE y \notin S
    BY <1>6, <1>10, <1>13, <2>1
  <2>2. CASE y \in S
    <3>1. q[y].rank \in 1 .. Cardinality(S)
      BY <1>10, <2>2
    <3>2. Cardinality(S) \in Nat
      BY <1>4, FS_Subset, FS_CardinalityType
    <3>3. QED
      BY <3>1, <3>2
  <2>3. QED
    BY <2>1, <2>2
<1>14. QED
  BY <1>10, <1>11, <1>12, <1>13

\* A list that is dense but for a row is apart and ranked but for that row.
LEMMA DenseButRows ==
  ASSUME NEW r, NEW e, NEW x, IsFiniteSet(DOMAIN r), DenseBut(r, e, x)
  PROVE  Apart(r, RowsOf(r, e) \ {x})
<1>1. PICK S : S = RowsOf(r, e) \ {x}
  OBVIOUS
<1>2. IsFiniteSet(S) /\ Cardinality(S) \in Nat
  BY <1>1, RowsFinite, FS_Subset, FS_CardinalityType
<1>3. {r[y].rank : y \in S} = 1 .. Cardinality(S)
  BY <1>1 DEF DenseBut
<1>4. /\ \A y, z \in S : r[y].rank = r[z].rank => y = z
      /\ \A y \in S : r[y].rank \in 1 .. Cardinality(S)
  BY <1>2, <1>3, DenseApart
<1>5. QED
  BY <1>1, <1>2, <1>4 DEF Apart

\* A row moved to another department: both lists are dense after.
LEMMA MovedDense ==
  ASSUME NEW X, NEW R, Table(X, R), NEW r \in [X -> R], NEW x \in X, r[x].state = "live",
         \A e \in AnyDept : Dense(r, e), r[x].dept \in AnyDept,
         NEW d \in AnyDept, NEW at \in Nat \ {0},
         NEW q, q = MovedTo(r, x, d, at)
  PROVE  /\ q \in [X -> R] /\ q[x].dept = d
         /\ \A y \in X : Alike(R, q[y], r[y])
         /\ \A y \in X \ {x} : q[y].dept = r[y].dept
         /\ \A e \in AnyDept : Dense(q, e)
<1>1. PICK w : w = Without(r, x)
  OBVIOUS
<1>2. /\ w \in [X -> R]
      /\ \A y \in X : Alike(R, w[y], r[y]) /\ w[y].dept = r[y].dept
      /\ \A e \in AnyDept : DenseBut(w, e, x)
  BY <1>1, WithoutDense
<1>3. q = Placed(w, d, x, at)
  BY <1>1 DEF MovedTo
<1>4. IsFiniteSet(DOMAIN w) /\ DenseBut(w, d, x)
  BY <1>2, TableFinite
<1>5. Apart(w, RowsOf(w, d) \ {x})
  BY <1>4, DenseButRows
<1>6. \A e \in AnyDept \ {d} : DenseBut(w, e, x)
  BY <1>2
<1>7. w[x].state = "live"
  BY <1>2 DEF Alike
<1>8. /\ q \in [X -> R] /\ q[x].dept = d
      /\ \A y \in X : Alike(R, q[y], w[y])
      /\ \A y \in X \ {x} : q[y].dept = w[y].dept
      /\ \A e \in AnyDept : Dense(q, e)
  BY <1>2, <1>3, <1>5, <1>6, <1>7, PlacedDense
<1>9. QED
  BY <1>2, <1>8, AlikeRows

\* A row that takes another place of its department.
LEMMA ReplacedDense ==
  ASSUME NEW X, NEW R, Table(X, R), NEW r \in [X -> R], NEW x \in X, r[x].state = "live",
         \A e \in AnyDept : Dense(r, e),
         NEW d \in AnyDept, d = r[x].dept, NEW at \in Nat \ {0},
         NEW q, q = Placed(r, d, x, at)
  PROVE  /\ q \in [X -> R] /\ q[x].dept = d
         /\ \A y \in X : Alike(R, q[y], r[y])
         /\ \A y \in X \ {x} : q[y].dept = r[y].dept
         /\ \A e \in AnyDept : Dense(q, e)
<1>1. /\ \A y, z \in RowsOf(r, d) : r[y].rank = r[z].rank => y = z
      /\ \A y \in RowsOf(r, d) : r[y].rank \in Nat \ {0}
  <2>1. IsFiniteSet(DOMAIN r) /\ Dense(r, d)
    BY TableFinite
  <2>2. QED
    BY <2>1, DenseRows
<1>2. Apart(r, RowsOf(r, d) \ {x})
  BY <1>1 DEF Apart
<1>3. ASSUME NEW e \in AnyDept \ {d} PROVE DenseBut(r, e, x)
  <2>1. RowsOf(r, e) \ {x} = RowsOf(r, e)
    BY DEF RowsOf
  <2>2. QED
    BY <2>1 DEF Dense, DenseBut
<1>4. QED
  BY <1>2, <1>3, PlacedDense

\* A row placed anew, in its department or in another.
LEMMA PutDense ==
  ASSUME NEW X, NEW R, Table(X, R), NEW r \in [X -> R], NEW x \in X, r[x].state = "live",
         \A e \in AnyDept : Dense(r, e), r[x].dept \in AnyDept,
         NEW d \in AnyDept, NEW at \in Nat \ {0}, NEW q,
         q = IF d = r[x].dept THEN Placed(r, d, x, at) ELSE MovedTo(r, x, d, at)
  PROVE  /\ q \in [X -> R] /\ q[x].dept = d
         /\ \A y \in X : Alike(R, q[y], r[y])
         /\ \A y \in X \ {x} : q[y].dept = r[y].dept
         /\ \A e \in AnyDept : Dense(q, e)
<1>1. CASE d = r[x].dept
  <2>1. q = Placed(r, d, x, at)
    BY <1>1
  <2>2. QED
    BY <1>1, <2>1, ReplacedDense
<1>2. CASE d # r[x].dept
  <2>1. q = MovedTo(r, x, d, at)
    BY <1>2
  <2>2. QED
    BY <2>1, MovedDense
<1>3. QED
  BY <1>1, <1>2

\* A new row takes its place among the rows of a department.
LEMMA AddedDense ==
  ASSUME NEW X, NEW R, Table(X, R), NEW r \in [X -> R], NEW x \in X, r[x].state # "live",
         \A e \in AnyDept : Dense(r, e),
         NEW w \in [X -> R], w[x].state = "live", \A z \in X \ {x} : w[z] = r[z],
         NEW d \in AnyDept, NEW at \in Nat \ {0}, NEW q, q = Placed(w, d, x, at)
  PROVE  /\ q \in [X -> R] /\ q[x].dept = d /\ Alike(R, q[x], w[x])
         /\ \A z \in X \ {x} : Alike(R, q[z], r[z]) /\ q[z].dept = r[z].dept
         /\ \A e \in AnyDept : Dense(q, e)
<1>3. \A e \in AnyDept : RowsOf(w, e) \ {x} = RowsOf(r, e)
  BY DEF RowsOf
<1>4. ASSUME NEW e \in AnyDept PROVE DenseBut(w, e, x)
  <2>1. PICK T : T = RowsOf(r, e)
    OBVIOUS
  <2>2. \A z \in T : w[z].rank = r[z].rank
    BY <2>1 DEF RowsOf
  <2>3. {r[z].rank : z \in T} = 1 .. Cardinality(T)
    BY <2>1 DEF Dense
  <2>4. {w[z].rank : z \in T} = 1 .. Cardinality(T)
    BY <2>2, <2>3, SameRows
  <2>5. QED
    BY <1>3, <2>1, <2>4 DEF DenseBut
<1>5. IsFiniteSet(DOMAIN w) /\ DenseBut(w, d, x)
  BY <1>4, TableFinite
<1>6. Apart(w, RowsOf(w, d) \ {x})
  BY <1>5, DenseButRows
<1>7. \A e \in AnyDept \ {d} : DenseBut(w, e, x)
  BY <1>4
<1>9. /\ q \in [X -> R] /\ q[x].dept = d
      /\ \A z \in X : Alike(R, q[z], w[z])
      /\ \A z \in X \ {x} : q[z].dept = w[z].dept
      /\ \A e \in AnyDept : Dense(q, e)
  BY <1>6, <1>7, PlacedDense
<1>10. QED
  BY <1>9

\* A row taken out of its list and marked as gone.
Removed(r, x) == [Without(r, x) EXCEPT ![x].state = "gone"]

\* A row deleted from its list, which closes the gap.
LEMMA RemovedDense ==
  ASSUME NEW X, NEW R, Table(X, R), NEW r \in [X -> R], NEW x \in X, r[x].state = "live",
         \A e \in AnyDept : Dense(r, e), r[x].dept \in AnyDept,
         NEW q, q = Removed(r, x)
  PROVE  /\ q \in [X -> R] /\ q[x].state = "gone"
         /\ \A y \in X \ {x} : Alike(R, q[y], r[y]) /\ q[y].dept = r[y].dept
         /\ \A e \in AnyDept : Dense(q, e)
<1>1. PICK w : w = Without(r, x)
  OBVIOUS
<1>2. /\ w \in [X -> R]
      /\ \A y \in X : Alike(R, w[y], r[y]) /\ w[y].dept = r[y].dept
      /\ \A e \in AnyDept : DenseBut(w, e, x)
  BY <1>1, WithoutDense
<1>3. q = [w EXCEPT ![x].state = "gone"]
  BY <1>1 DEF Removed
<1>4. q[x] \in R /\ q[x].state = "gone" /\ \A y \in X \ {x} : q[y] = w[y]
  <2>1. PICK y \in R : y = w[x]
    BY <1>2
  <2>2. q[x] = [y EXCEPT !.state = "gone"] /\ \A z \in X \ {x} : q[z] = w[z]
    BY <1>2, <1>3, <2>1
  <2>3. [y EXCEPT !.state = "gone"] \in R /\ [y EXCEPT !.state = "gone"].state = "gone"
    <3>1. CASE X = Positions /\ R = StoreRole
      BY <3>1 DEF StoreRole, RowState
    <3>2. CASE X = Skills /\ R = StoreSkill
      BY <3>2 DEF StoreSkill, RowState
    <3>3. QED
      BY <3>1, <3>2 DEF Table
  <2>4. QED
    BY <2>2, <2>3
<1>5. q \in [X -> R]
  <2>1. \A y \in X : q[y] \in R
    BY <1>2, <1>4
  <2>2. q = [y \in X |-> q[y]]
    BY <1>2, <1>3
  <2>3. QED
    BY <2>1, <2>2
<1>6. ASSUME NEW e \in AnyDept PROVE Dense(q, e)
  <2>1. PICK T : T = RowsOf(w, e) \ {x}
    OBVIOUS
  <2>2. RowsOf(q, e) = T
    BY <1>2, <1>4, <1>5, <2>1 DEF RowsOf, Alike
  <2>3. \A y \in T : q[y].rank = w[y].rank
    BY <1>2, <1>4, <2>1 DEF RowsOf
  <2>4. {w[y].rank : y \in T} = 1 .. Cardinality(T)
    BY <1>2, <2>1 DEF DenseBut
  <2>5. {q[y].rank : y \in T} = 1 .. Cardinality(T)
    BY <2>3, <2>4, SameRows
  <2>6. QED
    BY <2>2, <2>5 DEF Dense
<1>7. QED
  BY <1>2, <1>4, <1>5, <1>6

\* A list retired with its department; the other lists are as dense as before.
LEMMA RetiredDense ==
  ASSUME NEW X, NEW R, Table(X, R), NEW r \in [X -> R], \A e \in AnyDept : Dense(r, e),
         NEW d \in AnyDept, NEW q, q = Retired(r, d)
  PROVE  /\ q \in [X -> R]
         /\ \A y \in RowsOf(r, d) : q[y].state = "gone"
         /\ \A y \in X : y \notin RowsOf(r, d) => q[y] = r[y]
         /\ \A e \in AnyDept : Dense(q, e)
<1>1. q = [x \in X |-> IF x \in RowsOf(r, d)
                       THEN [r[x] EXCEPT !.state = "gone", !.rank = 0] ELSE r[x]]
  BY DEF Retired
<1>2. Cardinality(X) \in Nat
  BY TableFinite
<1>3. ASSUME NEW y \in RowsOf(r, d) PROVE q[y] \in R /\ q[y].state = "gone"
  <2>1. PICK z \in R : z = r[y]
    BY DEF RowsOf
  <2>2. PICK w : w = [z EXCEPT !.state = "gone"]
    OBVIOUS
  <2>3. w \in R /\ w.state = "gone"
    <3>1. CASE X = Positions /\ R = StoreRole
      BY <2>2, <3>1 DEF StoreRole, RowState
    <3>2. CASE X = Skills /\ R = StoreSkill
      BY <2>2, <3>2 DEF StoreSkill, RowState
    <3>3. QED
      BY <3>1, <3>2 DEF Table
  <2>4. q[y] = [w EXCEPT !.rank = 0]
    BY <1>1, <2>1, <2>2 DEF RowsOf
  <2>5. 0 \in 0 .. Cardinality(X)
    BY <1>2
  <2>6. q[y] \in R /\ Alike(R, q[y], w)
    BY <2>3, <2>4, <2>5, RowRanked
  <2>7. QED
    BY <2>3, <2>6 DEF Alike
<1>4. \A y \in X : y \notin RowsOf(r, d) => q[y] = r[y]
  BY <1>1
<1>5. q \in [X -> R]
  <2>1. \A y \in X : q[y] \in R
    BY <1>3, <1>4
  <2>2. q = [y \in X |-> q[y]]
    BY <1>1
  <2>3. QED
    BY <2>1, <2>2
<1>6. Dense(q, d)
  <2>1. RowsOf(q, d) = {}
    BY <1>3, <1>4, <1>5 DEF RowsOf
  <2>2. {q[y].rank : y \in {}} = 1 .. Cardinality({})
    BY FS_EmptySet
  <2>3. QED
    BY <2>1, <2>2 DEF Dense
<1>7. ASSUME NEW e \in AnyDept \ {d} PROVE Dense(q, e)
  <2>1. PICK T : T = RowsOf(r, e)
    OBVIOUS
  <2>2. RowsOf(q, e) = T /\ \A y \in T : q[y].rank = r[y].rank
    BY <1>3, <1>4, <1>5, <2>1 DEF RowsOf
  <2>3. {r[y].rank : y \in T} = 1 .. Cardinality(T)
    BY <2>1 DEF Dense
  <2>4. {q[y].rank : y \in T} = 1 .. Cardinality(T)
    BY <2>2, <2>3, SameRows
  <2>5. QED
    BY <2>2, <2>4 DEF Dense
<1>8. QED
  BY <1>3, <1>4, <1>5, <1>6, <1>7

\* The rows q are the rows r with a copy in department c of each row of S.
Copied(q, r, f, S, c) ==
  /\ \A y \in S : q[f[y]].state = "live" /\ q[f[y]].dept = c /\ q[f[y]].rank = r[y].rank
  /\ \A x \in DOMAIN r : x \notin {f[y] : y \in S} => q[x] = r[x]

\* The copies of a list are as dense as the list.
LEMMA CopiedDense ==
  ASSUME NEW X, NEW R, Table(X, R), NEW r \in [X -> R], \A e \in AnyDept : Dense(r, e),
         NEW d \in AnyDept, NEW c \in AnyDept, RowsOf(r, c) = {},
         NEW f \in [RowsOf(r, d) -> {x \in X : r[x].state = "none"}], IsInjective(f),
         NEW q \in [X -> R], Copied(q, r, f, RowsOf(r, d), c)
  PROVE  \A e \in AnyDept : Dense(q, e)
<1>1. PICK S : S = RowsOf(r, d)
  OBVIOUS
<1> DEFINE T == {f[y] : y \in S}
<1>2. IsFiniteSet(S)
  BY <1>1, TableFinite, RowsFinite
<1>3. /\ \A y \in S : f[y] \in X /\ r[f[y]].state = "none"
      /\ \A y, z \in S : f[y] = f[z] => y = z
      /\ T \subseteq X
  BY <1>1 DEF IsInjective
<1>4. Cardinality(T) = Cardinality(S)
  <2>1. f \in [S -> T] /\ \A t \in T : \E y \in S : f[y] = t
    BY <1>1
  <2>2. f \in Bijection(S, T)
    BY <1>3, <2>1 DEF Bijection, Injection, Surjection, IsInjective
  <2>3. QED
    BY <1>2, <2>2, FS_Bijection DEF ExistsBijection
<1>45. /\ \A y \in S : q[f[y]].state = "live" /\ q[f[y]].dept = c /\ q[f[y]].rank = r[y].rank
       /\ \A x \in X : x \notin T => q[x] = r[x]
  BY <1>1 DEF Copied
<1>5. RowsOf(q, c) = T
  BY <1>1, <1>3, <1>45 DEF RowsOf
<1>6. Dense(q, c)
  <2>1. {r[y].rank : y \in S} = 1 .. Cardinality(S)
    BY <1>1 DEF Dense
  <2>2. {q[t].rank : t \in T} = {q[f[y]].rank : y \in S}
    OBVIOUS
  <2>3. {q[f[y]].rank : y \in S} = {r[y].rank : y \in S}
    BY <1>45
  <2>4. {q[t].rank : t \in T} = 1 .. Cardinality(T)
    BY <1>4, <2>1, <2>2, <2>3
  <2>5. QED
    BY <1>5, <2>4 DEF Dense
<1>7. ASSUME NEW e \in AnyDept \ {c} PROVE Dense(q, e)
  <2>1. PICK U : U = RowsOf(r, e)
    OBVIOUS
  <2>2. \A x \in X \ T : q[x] = r[x]
    BY <1>45
  <2>3. \A x \in T : /\ r[x].state = "none" /\ q[x].dept = c
    BY <1>3, <1>45
  <2> HIDE DEF T
  <2>4. RowsOf(q, e) = U /\ \A y \in U : q[y].rank = r[y].rank
    BY <1>3, <2>1, <2>2, <2>3 DEF RowsOf
  <2>5. {r[y].rank : y \in U} = 1 .. Cardinality(U)
    BY <2>1 DEF Dense
  <2>6. {q[y].rank : y \in U} = {r[y].rank : y \in U}
    BY <2>4
  <2>7. QED
    BY <2>4, <2>5, <2>6 DEF Dense
<1>8. QED
  BY <1>6, <1>7

-----------------------------------------------------------------------------
\* Every list is dense, those of departments that are not live are empty.
LEMMA DenseEverywhere ==
  ASSUME StructureInd
  PROVE  \A e \in AnyDept : Dense(position, e) /\ Dense(skill, e)
<1> USE DEF StructureInd
<1>1. ASSUME NEW e \in AnyDept \ LiveDepts
      PROVE  RowsOf(position, e) = {} /\ RowsOf(skill, e) = {}
  <2>1. \A p \in Positions : position[p].state = "live" => position[p].dept # e
    BY DEF PositionsHavePlaces, LivePositions
  <2>2. \A k \in Skills : skill[k].state = "live" => skill[k].dept # e
    BY DEF SkillsHavePlaces, LiveSkills
  <2>3. QED
    BY <2>1, <2>2 DEF RowsOf, StructureTypeOK
<1>2. \A q : {q[x].rank : x \in {}} = 1 .. Cardinality({})
  BY FS_EmptySet
<1>3. \A e \in AnyDept \ LiveDepts : Dense(position, e) /\ Dense(skill, e)
  BY <1>1, <1>2 DEF Dense
<1>4. QED
  BY <1>3 DEF RanksAreDense

\* An edit of the positions that moves or deletes only what nobody holds.
LEMMA PositionsEdited ==
  ASSUME StructureInd, Edit, UNCHANGED <<dept, skill>>,
         NEW q \in [Positions -> StoreRole], position' = q,
         \A e \in AnyDept : Dense(q, e),
         \A p \in Positions :
           \/ q[p].state = position[p].state /\ q[p].dept = position[p].dept
           \/ /\ position[p].state = "live" => Holders(p) = {} /\ PositionSkills(p) = {}
              /\ q[p].state = "live" => q[p].dept \in LiveDepts \ {Top}
  PROVE  StructureInd'
<1> USE DEF StructureInd
<1>1. StructureTypeOK'
  <2>1. changes' \in 0 .. MaxChanges /\ person' = person /\ overtaken' = overtaken
    BY StructureAssumption DEF StructureTypeOK, Edit
  <2>2. overtaken' \in BOOLEAN
    BY <2>1 DEF StructureTypeOK
  <2>3. QED
    BY <2>1, <2>2 DEF StructureTypeOK
<1>2. TreeIsSound' /\ LiveDepts' = LiveDepts /\ Employed' = Employed /\ LiveSkills' = LiveSkills
  BY DEF TreeIsSound, LiveDepts, Employed, LiveSkills, Edit
<1>3. RanksAreDense'
  <2>1. \A e \in AnyDept : Dense(position', e) /\ Dense(skill', e)
    BY DenseEverywhere
  <2>2. QED
    BY <2>1 DEF RanksAreDense, Dense, LiveDepts
<1>4. PositionsHavePlaces'
  BY <1>2 DEF PositionsHavePlaces, LivePositions
<1>5. ASSUME NEW p \in LivePositions, p \in LivePositions => Holders(p) # {} \/ PositionSkills(p) # {}
      PROVE  p \in LivePositions' /\ q[p].dept = position[p].dept
  BY <1>5 DEF LivePositions
<1>6. SkillsHavePlaces'
  <2>1. SUFFICES ASSUME NEW k \in LiveSkills
                 PROVE  /\ skill[k].dept \in LiveDepts
                        /\ skill[k].pos # Nowhere =>
                             skill[k].pos \in LivePositions' /\ q[skill[k].pos].dept = skill[k].dept
    BY <1>2 DEF SkillsHavePlaces
  <2>2. /\ skill[k].dept \in LiveDepts
        /\ skill[k].pos # Nowhere =>
             skill[k].pos \in LivePositions /\ position[skill[k].pos].dept = skill[k].dept
    BY DEF SkillsHavePlaces
  <2>3. ASSUME NEW p \in LivePositions, p = skill[k].pos
        PROVE  p \in LivePositions' /\ q[p].dept = position[p].dept
    <3>1. k \in PositionSkills(p)
      BY <2>3 DEF PositionSkills
    <3>2. QED
      BY <1>5, <3>1
  <2>4. QED
    BY <2>2, <2>3
<1>7. PlacesExist'
  <2>1. SUFFICES ASSUME ~ overtaken, NEW e \in Employed PROVE InLivePlace(e)'
    BY <1>2 DEF PlacesExist, Edit
  <2>2. InLivePlace(e)
    BY <2>1 DEF PlacesExist
  <2>3. person' = person
    BY DEF Edit
  <2>4. ASSUME NEW p \in LivePositions, p = person[e].pos
        PROVE  p \in LivePositions' /\ q[p].dept = position[p].dept
    <3>1. e \in Holders(p)
      BY <2>4 DEF Holders
    <3>2. QED
      BY <1>5, <3>1
  <2>5. QED
    BY <1>2, <2>2, <2>3, <2>4 DEF InLivePlace
<1>8. QED
  BY <1>1, <1>2, <1>3, <1>4, <1>6, <1>7

\* An edit of the skills, each in a live department and a position of it, if any.
LEMMA SkillsEdited ==
  ASSUME StructureInd, Edit, UNCHANGED <<dept, position>>,
         NEW q \in [Skills -> StoreSkill], skill' = q,
         \A e \in AnyDept : Dense(q, e),
         \A k \in Skills : q[k].state = "live" =>
           /\ q[k].dept \in LiveDepts
           /\ q[k].pos # Nowhere =>
                q[k].pos \in LivePositions /\ position[q[k].pos].dept = q[k].dept
  PROVE  StructureInd'
<1> USE DEF StructureInd
<1>1. StructureTypeOK'
  <2>1. changes' \in 0 .. MaxChanges /\ person' = person /\ overtaken' = overtaken
    BY StructureAssumption DEF StructureTypeOK, Edit
  <2>2. overtaken' \in BOOLEAN
    BY <2>1 DEF StructureTypeOK
  <2>3. QED
    BY <2>1, <2>2 DEF StructureTypeOK
<1>2. /\ TreeIsSound' /\ LiveDepts' = LiveDepts /\ Employed' = Employed
      /\ LivePositions' = LivePositions
  BY DEF TreeIsSound, LiveDepts, Employed, LivePositions, Edit
<1>3. RanksAreDense'
  <2>1. \A e \in AnyDept : Dense(position', e) /\ Dense(skill', e)
    BY DenseEverywhere
  <2>2. QED
    BY <2>1 DEF RanksAreDense, Dense, LiveDepts
<1>4. PositionsHavePlaces'
  BY <1>2 DEF PositionsHavePlaces
<1>5. SkillsHavePlaces'
  BY <1>2 DEF SkillsHavePlaces, LiveSkills
<1>6. PlacesExist'
  <2>1. SUFFICES ASSUME ~ overtaken, NEW e \in Employed PROVE InLivePlace(e)'
    BY <1>2 DEF PlacesExist, Edit
  <2>2. InLivePlace(e) /\ person' = person
    BY <2>1 DEF PlacesExist, Edit
  <2>3. QED
    BY <1>2, <2>2 DEF InLivePlace
<1>7. QED
  BY <1>1, <1>2, <1>3, <1>4, <1>5, <1>6

\* Whoever is settled stands in a place that exists.
LEMMA Settled ==
  ASSUME StructureInd, NEW e \in Employees, NEW seat \in Seats \cup {<<Nowhere, Nowhere>>},
         Settle(e, seat)
  PROVE  StructureInd'
<1> USE DEF StructureInd
<1>1. /\ seat[1] \in (LiveDepts \ {Top}) \cup {Nowhere}
      /\ seat[2] \in Positions \cup {Nowhere}
      /\ seat[2] # Nowhere => seat[2] \in LivePositions /\ position[seat[2]].dept = seat[1]
  <2>1. CASE seat = <<Nowhere, Nowhere>>
    BY <2>1
  <2>2. CASE seat \in {<<position[p].dept, p>> : p \in {q \in LivePositions : position[q].rank # 0}}
    <3>1. PICK p \in LivePositions : seat = <<position[p].dept, p>>
      BY <2>2
    <3>2. seat[1] = position[p].dept /\ seat[2] = p
      BY <3>1
    <3>3. p \in Positions /\ position[p].dept \in LiveDepts \ {Top}
      BY DEF PositionsHavePlaces, LivePositions
    <3>4. QED
      BY <3>2, <3>3
  <2>3. CASE seat \in {<<d, Nowhere>> : d \in LiveDepts \ {Top}}
    BY <2>3
  <2>4. QED
    BY <2>1, <2>2, <2>3 DEF Seats
<1>2. PICK s1, s2 : s1 = seat[1] /\ s2 = seat[2]
  OBVIOUS
<1>3. /\ s1 \in AnyDept \cup {Nowhere} /\ s2 \in Positions \cup {Nowhere}
      /\ s1 \in (LiveDepts \ {Top}) \cup {Nowhere}
      /\ s2 # Nowhere => s2 \in LivePositions /\ position[s2].dept = s1
  BY <1>1, <1>2 DEF LiveDepts
<1>4. /\ person' = [person EXCEPT ![e].state = "works", ![e].dept = s1, ![e].pos = s2]
      /\ UNCHANGED <<dept, position, skill, changes, overtaken>>
  BY <1>2 DEF Settle
<1>5. /\ person'[e].state = "works" /\ person'[e].dept = s1 /\ person'[e].pos = s2
      /\ \A f \in Employees \ {e} : person'[f] = person[f]
  BY <1>4 DEF StructureTypeOK
<1>6. StructureTypeOK'
  <2>1. person' \in [Employees -> [state : {"away", "works", "left", "returning"},
                                   dept : AnyDept \cup {Nowhere},
                                   pos : Positions \cup {Nowhere}, learnt : SUBSET Skills]]
    <3> DEFINE T == [state : {"away", "works", "left", "returning"},
                     dept : AnyDept \cup {Nowhere},
                     pos : Positions \cup {Nowhere}, learnt : SUBSET Skills]
    <3>1. PICK r \in T : r = person[e]
      BY DEF StructureTypeOK
    <3>2. person'[e] = [r EXCEPT !.state = "works", !.dept = s1, !.pos = s2]
      BY <1>4, <3>1 DEF StructureTypeOK
    <3>3. [r EXCEPT !.state = "works", !.dept = s1, !.pos = s2] \in T
      BY <1>3
    <3> HIDE DEF T
    <3>4. \A f \in Employees : person'[f] \in T
      BY <1>5, <3>2, <3>3, ZenonT(30) DEF StructureTypeOK, T
    <3>5. person' = [f \in Employees |-> person'[f]]
      BY <1>4 DEF StructureTypeOK
    <3>6. person' \in [Employees -> T]
      BY <3>4, <3>5
    <3>7. QED
      BY <3>6 DEF T
  <2>2. UNCHANGED <<dept, position, skill, changes, overtaken>>
    BY <1>4
  <2>3. QED
    BY <2>1, <2>2 DEF StructureTypeOK
<1>7. /\ TreeIsSound' /\ LiveDepts' = LiveDepts /\ LivePositions' = LivePositions
      /\ LiveSkills' = LiveSkills
  BY <1>4 DEF TreeIsSound, LiveDepts, LivePositions, LiveSkills
<1>8. RanksAreDense' /\ PositionsHavePlaces' /\ SkillsHavePlaces'
  BY <1>4, <1>7 DEF RanksAreDense, Dense, PositionsHavePlaces, SkillsHavePlaces
<1>9. PlacesExist'
  <2>1. SUFFICES ASSUME ~ overtaken, NEW f \in Employed' PROVE InLivePlace(f)'
    BY <1>4 DEF PlacesExist
  <2>2. CASE f = e
    BY <1>3, <1>4, <1>5, <1>7, <2>2 DEF InLivePlace
  <2>3. CASE f # e
    <3>1. f \in Employed /\ person'[f] = person[f]
      BY <1>5, <2>3 DEF Employed
    <3>2. InLivePlace(f)
      BY <2>1, <3>1 DEF PlacesExist
    <3>3. QED
      <4>1. position' = position
        BY <1>4
      <4>2. QED
        BY <1>7, <3>1, <3>2, <4>1 DEF InLivePlace
  <2>4. QED
    BY <2>2, <2>3
<1>10. QED
  BY <1>6, <1>7, <1>8, <1>9

\* A step of a person who does not stand anywhere by it.
LEMMA PersonKept ==
  ASSUME StructureInd, NEW e \in Employees, NEW r, person' = [person EXCEPT ![e] = r],
         r \in [state : {"away", "works", "left", "returning"},
                dept : AnyDept \cup {Nowhere},
                pos : Positions \cup {Nowhere}, learnt : SUBSET Skills],
         UNCHANGED <<dept, position, skill, changes>>,
         overtaken' \in BOOLEAN, overtaken => overtaken',
         r.state = "works" /\ ~ overtaken' =>
           \/ person[e].state = "works" /\ r.dept = person[e].dept /\ r.pos = person[e].pos
           \/ InLivePlace(e) /\ r.dept = person[e].dept /\ r.pos = person[e].pos
  PROVE  StructureInd'
<1> USE DEF StructureInd
<1>1. person'[e] = r /\ \A f \in Employees \ {e} : person'[f] = person[f]
  BY DEF StructureTypeOK
<1>2. StructureTypeOK'
  <2>1. person' \in [Employees -> [state : {"away", "works", "left", "returning"},
                                   dept : AnyDept \cup {Nowhere},
                                   pos : Positions \cup {Nowhere}, learnt : SUBSET Skills]]
    BY DEF StructureTypeOK
  <2>2. QED
    BY <2>1 DEF StructureTypeOK
<1>3. /\ TreeIsSound' /\ LiveDepts' = LiveDepts /\ LivePositions' = LivePositions
      /\ LiveSkills' = LiveSkills
  BY DEF TreeIsSound, LiveDepts, LivePositions, LiveSkills
<1>4. RanksAreDense' /\ PositionsHavePlaces' /\ SkillsHavePlaces'
  BY <1>3 DEF RanksAreDense, Dense, PositionsHavePlaces, SkillsHavePlaces
<1>5. PlacesExist'
  <2>1. SUFFICES ASSUME ~ overtaken', NEW f \in Employed' PROVE InLivePlace(f)'
    BY DEF PlacesExist
  <2>2. ~ overtaken
    BY <2>1
  <2>3. InLivePlace(f) /\ person'[f].dept = person[f].dept /\ person'[f].pos = person[f].pos
    <3>1. CASE f = e
      BY <1>1, <2>1, <2>2, <3>1 DEF Employed, PlacesExist
    <3>2. CASE f # e
      <4>1. f \in Employed /\ person'[f] = person[f]
        BY <1>1, <3>2 DEF Employed
      <4>2. QED
        BY <2>2, <4>1 DEF PlacesExist
    <3>3. QED
      BY <3>1, <3>2
  <2>4. QED
    BY <1>3, <2>3 DEF InLivePlace
<1>6. QED
  BY <1>2, <1>3, <1>4, <1>5

\* Hiring settles a person in a seat, or nowhere.
LEMMA HireKeeps == ASSUME StructureInd, NEW e \in Employees, Hire(e) PROVE StructureInd'
BY Settled DEF Hire

\* A transfer settles a person in a seat of another department.
LEMMA TransferKeeps == ASSUME StructureInd, NEW e \in Employees, Transfer(e) PROVE StructureInd'
BY Settled DEF Transfer

\* A promotion settles a person in another seat.
LEMMA PromoteKeeps == ASSUME StructureInd, NEW e \in Employees, Promote(e) PROVE StructureInd'
BY Settled DEF Promote

\* A skill learnt moves nobody.
LEMMA AchieveKeeps ==
  ASSUME StructureInd, NEW e \in Employees, NEW k \in Skills, Achieve(e, k)
  PROVE  StructureInd'
<1> DEFINE T == [state : {"away", "works", "left", "returning"}, dept : AnyDept \cup {Nowhere},
                 pos : Positions \cup {Nowhere}, learnt : SUBSET Skills]
<1>1. person \in [Employees -> T]
  BY DEF StructureInd, StructureTypeOK
<1>2. PICK r \in T : r = person[e]
  BY <1>1
<1>3. PICK n : n = [r EXCEPT !.learnt = @ \cup {k}]
  OBVIOUS
<1>4. person' = [person EXCEPT ![e] = n]
  BY <1>1, <1>2, <1>3 DEF Achieve
<1>5. n \in T /\ n.state = r.state /\ n.dept = r.dept /\ n.pos = r.pos
  BY <1>3
<1>6. UNCHANGED <<dept, position, skill, changes, overtaken>> /\ r.state = "works"
  BY <1>2 DEF Achieve, Employed
<1>7. overtaken' \in BOOLEAN /\ (overtaken => overtaken')
  BY <1>6 DEF StructureInd, StructureTypeOK
<1>8. QED
  BY <1>2, <1>4, <1>5, <1>6, <1>7, PersonKept

\* Whoever leaves keeps the place on the profile, and stands nowhere.
LEMMA LeaveKeeps == ASSUME StructureInd, NEW e \in Employees, Leave(e) PROVE StructureInd'
<1> DEFINE T == [state : {"away", "works", "left", "returning"}, dept : AnyDept \cup {Nowhere},
                 pos : Positions \cup {Nowhere}, learnt : SUBSET Skills]
<1>1. person \in [Employees -> T]
  BY DEF StructureInd, StructureTypeOK
<1>2. PICK r \in T : r = person[e]
  BY <1>1
<1>3. PICK n : n = [r EXCEPT !.state = "left"]
  OBVIOUS
<1>4. person' = [person EXCEPT ![e] = n]
  BY <1>1, <1>2, <1>3 DEF Leave
<1>5. n \in T /\ n.state = "left"
  BY <1>3
<1>6. UNCHANGED <<dept, position, skill, changes, overtaken>>
  BY DEF Leave
<1>7. overtaken' \in BOOLEAN /\ (overtaken => overtaken')
  BY <1>6 DEF StructureInd, StructureTypeOK
<1>8. QED
  BY <1>4, <1>5, <1>6, <1>7, PersonKept

\* A person about to return has a place on the profile that existed when it was read.
LEMMA RestoreKeeps == ASSUME StructureInd, NEW e \in Employees, RestoreEmployee(e) PROVE StructureInd'
<1> DEFINE T == [state : {"away", "works", "left", "returning"}, dept : AnyDept \cup {Nowhere},
                 pos : Positions \cup {Nowhere}, learnt : SUBSET Skills]
<1>1. person \in [Employees -> T] /\ position \in [Positions -> StoreRole]
  BY DEF StructureInd, StructureTypeOK
<1>2. PICK r \in T : r = person[e]
  BY <1>1
<1>3. PICK d, p : d = Reconciled(e)[1] /\ p = Reconciled(e)[2]
  OBVIOUS
<1>4. p \in Positions \cup {Nowhere} /\ d \in AnyDept \cup {Nowhere}
  BY <1>3 DEF Reconciled, LiveDepts, LivePositions
<1>5. PICK n : n = [r EXCEPT !.state = "returning", !.dept = d, !.pos = p]
  OBVIOUS
<1>6. person' = [person EXCEPT ![e] = n]
  BY <1>1, <1>2, <1>3, <1>5 DEF RestoreEmployee
<1>7. n \in T /\ n.state = "returning"
  BY <1>4, <1>5
<1>8. UNCHANGED <<dept, position, skill, changes, overtaken>>
  BY DEF RestoreEmployee
<1>9. overtaken' \in BOOLEAN /\ (overtaken => overtaken')
  BY <1>8 DEF StructureInd, StructureTypeOK
<1>10. QED
  BY <1>6, <1>7, <1>8, <1>9, PersonKept

\* Whoever is back stands in a place that exists, or an edit overtook the restore.
LEMMA SaveRestoredKeeps ==
  ASSUME StructureInd, NEW e \in Employees, SaveRestored(e)
  PROVE  StructureInd'
<1> DEFINE T == [state : {"away", "works", "left", "returning"}, dept : AnyDept \cup {Nowhere},
                 pos : Positions \cup {Nowhere}, learnt : SUBSET Skills]
<1>1. person \in [Employees -> T]
  BY DEF StructureInd, StructureTypeOK
<1>2. PICK r \in T : r = person[e]
  BY <1>1
<1>3. PICK n : n = [r EXCEPT !.state = "works"]
  OBVIOUS
<1>4. person' = [person EXCEPT ![e] = n]
  BY <1>1, <1>2, <1>3 DEF SaveRestored
<1>5. n \in T /\ n.state = "works" /\ n.dept = r.dept /\ n.pos = r.pos
  BY <1>3
<1>6. UNCHANGED <<dept, position, skill, changes>>
  BY DEF SaveRestored
<1>7. overtaken' = (overtaken \/ ~ InLivePlace(e)) /\ overtaken \in BOOLEAN
  BY DEF SaveRestored, StructureInd, StructureTypeOK
<1>8. overtaken' \in BOOLEAN /\ (overtaken => overtaken') /\ (~ overtaken' => InLivePlace(e))
  BY <1>7
<1>9. QED
  BY <1>2, <1>4, <1>5, <1>6, <1>8, PersonKept

-----------------------------------------------------------------------------
\* A position created is placed in a live department.
LEMMA CreatePositionKeeps ==
  ASSUME StructureInd, NEW p \in Positions, NEW d \in Departments, NEW at \in Nat \ {0},
         CreatePosition(p, d, at)
  PROVE  StructureInd'
<1>1. PICK w : w = [position EXCEPT ![p] = [state |-> "live", dept |-> d, rank |-> 0]]
  OBVIOUS
<1>2. PICK q : q = position'
  OBVIOUS
<1>3. Table(Positions, StoreRole) /\ position \in [Positions -> StoreRole] /\ d \in AnyDept
  BY DEF Table, StructureInd, StructureTypeOK, AnyDept
<1>4. w \in [Positions -> StoreRole] /\ w[p].state = "live"
      /\ \A z \in Positions \ {p} : w[z] = position[z]
  <2>1. [state |-> "live", dept |-> d, rank |-> 0] \in StoreRole
    BY <1>3, TableFinite DEF StoreRole, RowState
  <2>2. QED
    BY <1>1, <1>3, <2>1
<1>5. position[p].state # "live" /\ d \in LiveDepts \ {Top} /\ q = Placed(w, d, p, at)
  BY <1>1, <1>2 DEF CreatePosition
<1>6. \A e \in AnyDept : Dense(position, e)
  BY DenseEverywhere
<1>7. /\ q \in [Positions -> StoreRole] /\ q[p].dept = d
      /\ \A z \in Positions \ {p} : Alike(StoreRole, q[z], position[z]) /\ q[z].dept = position[z].dept
      /\ \A e \in AnyDept : Dense(q, e)
  BY <1>3, <1>4, <1>5, <1>6, AddedDense
<1>8. \A z \in Positions :
        \/ q[z].state = position[z].state /\ q[z].dept = position[z].dept
        \/ /\ position[z].state = "live" => Holders(z) = {} /\ PositionSkills(z) = {}
           /\ q[z].state = "live" => q[z].dept \in LiveDepts \ {Top}
  BY <1>5, <1>7 DEF Alike
<1>9. Edit /\ UNCHANGED <<dept, skill>>
  BY DEF CreatePosition
<1>10. QED
  BY <1>2, <1>7, <1>8, <1>9, PositionsEdited

\* A position is re-ranked in its department or moves with nobody and no skill in it.
LEMMA UpdatePositionKeeps ==
  ASSUME StructureInd, NEW p \in Positions, NEW d \in Departments, NEW at \in Nat \ {0},
         UpdatePosition(p, d, at)
  PROVE  StructureInd'
<1>1. PICK q : q = position'
  OBVIOUS
<1>2. Table(Positions, StoreRole) /\ position \in [Positions -> StoreRole] /\ d \in AnyDept
  BY DEF Table, StructureInd, StructureTypeOK, AnyDept
<1>3. position[p].state = "live" /\ position[p].dept \in AnyDept
  BY DEF UpdatePosition, StructureInd, PositionsHavePlaces, LivePositions, LiveDepts
<1>4. \A e \in AnyDept : Dense(position, e)
  BY DenseEverywhere
<1>5. /\ q \in [Positions -> StoreRole] /\ q[p].dept = d
      /\ \A z \in Positions : Alike(StoreRole, q[z], position[z])
      /\ \A z \in Positions \ {p} : q[z].dept = position[z].dept
      /\ \A e \in AnyDept : Dense(q, e)
  <2>1. q = IF d = position[p].dept THEN Placed(position, d, p, at)
            ELSE MovedTo(position, p, d, at)
    BY <1>1 DEF UpdatePosition
  <2>2. QED
    BY <1>2, <1>3, <1>4, <2>1, PutDense
<1>6. /\ d \in LiveDepts \ {Top}
      /\ d = position[p].dept \/ (Holders(p) = {} /\ PositionSkills(p) = {})
  BY DEF UpdatePosition
<1>7. \A z \in Positions :
        \/ q[z].state = position[z].state /\ q[z].dept = position[z].dept
        \/ /\ position[z].state = "live" => Holders(z) = {} /\ PositionSkills(z) = {}
           /\ q[z].state = "live" => q[z].dept \in LiveDepts \ {Top}
  BY <1>5, <1>6 DEF Alike
<1>8. Edit /\ UNCHANGED <<dept, skill>>
  BY DEF UpdatePosition
<1>9. QED
  BY <1>1, <1>5, <1>7, <1>8, PositionsEdited

\* A position goes with nobody and no skill in it.
LEMMA DeletePositionKeeps ==
  ASSUME StructureInd, NEW p \in Positions, DeletePosition(p)
  PROVE  StructureInd'
<1>1. PICK q : q = position'
  OBVIOUS
<1>2. Table(Positions, StoreRole) /\ position \in [Positions -> StoreRole]
  BY DEF Table, StructureInd, StructureTypeOK
<1>3. position[p].state = "live" /\ position[p].dept \in AnyDept
  BY DEF DeletePosition, StructureInd, PositionsHavePlaces, LivePositions, LiveDepts
<1>4. \A e \in AnyDept : Dense(position, e)
  BY DenseEverywhere
<1>5. q = Removed(position, p)
  BY <1>1 DEF Removed, DeletePosition
<1>6. /\ q \in [Positions -> StoreRole] /\ q[p].state = "gone"
      /\ \A z \in Positions \ {p} : Alike(StoreRole, q[z], position[z]) /\ q[z].dept = position[z].dept
      /\ \A e \in AnyDept : Dense(q, e)
  BY <1>2, <1>3, <1>4, <1>5, RemovedDense
<1>7. Holders(p) = {} /\ PositionSkills(p) = {}
  BY DEF DeletePosition
<1>8. \A z \in Positions :
        \/ q[z].state = position[z].state /\ q[z].dept = position[z].dept
        \/ /\ position[z].state = "live" => Holders(z) = {} /\ PositionSkills(z) = {}
           /\ q[z].state = "live" => q[z].dept \in LiveDepts \ {Top}
  BY <1>6, <1>7 DEF Alike
<1>9. Edit /\ UNCHANGED <<dept, skill>>
  BY DEF DeletePosition
<1>10. QED
  BY <1>1, <1>6, <1>8, <1>9, PositionsEdited

-----------------------------------------------------------------------------
\* What a skill may name: nothing, or a position of its department.
LEMMA SkillSeat ==
  ASSUME StructureInd, NEW d, NEW p \in SkillPositions(d)
  PROVE  /\ p \in Positions \cup {Nowhere}
         /\ p # Nowhere => p \in LivePositions /\ position[p].dept = d
BY DEF SkillPositions, RowsOf, LivePositions, StructureInd, StructureTypeOK

\* A live skill stands where it did before.
LEMMA SkillStands ==
  ASSUME StructureInd, NEW k \in Skills, skill[k].state = "live"
  PROVE  /\ skill[k].dept \in LiveDepts /\ skill[k].dept \in AnyDept
         /\ skill[k].pos # Nowhere =>
              skill[k].pos \in LivePositions /\ position[skill[k].pos].dept = skill[k].dept
BY DEF StructureInd, SkillsHavePlaces, LiveSkills, LiveDepts

\* A skill created is placed in a live department, at no position or one of its own.
LEMMA CreateSkillKeeps ==
  ASSUME StructureInd, NEW k \in Skills, NEW d \in Departments, NEW p, NEW at \in Nat \ {0},
         CreateSkill(k, d, p, at)
  PROVE  StructureInd'
<1>1. PICK w : w = [skill EXCEPT ![k] = [state |-> "live", dept |-> d, pos |-> p, rank |-> 0]]
  OBVIOUS
<1>2. PICK q : q = skill'
  OBVIOUS
<1>3. Table(Skills, StoreSkill) /\ skill \in [Skills -> StoreSkill] /\ d \in AnyDept
  BY DEF Table, StructureInd, StructureTypeOK, AnyDept
<1>4. p \in SkillPositions(d)
  BY DEF CreateSkill
<1>5. /\ p \in Positions \cup {Nowhere}
      /\ p # Nowhere => p \in LivePositions /\ position[p].dept = d
  BY <1>4, SkillSeat
<1>6. w \in [Skills -> StoreSkill] /\ w[k].state = "live" /\ w[k].pos = p
      /\ \A z \in Skills \ {k} : w[z] = skill[z]
  <2>1. [state |-> "live", dept |-> d, pos |-> p, rank |-> 0] \in StoreSkill
    BY <1>3, <1>5, TableFinite DEF StoreSkill, RowState
  <2>2. QED
    BY <1>1, <1>3, <2>1
<1>7. skill[k].state # "live" /\ d \in LiveDepts /\ q = Placed(w, d, k, at)
  BY <1>1, <1>2 DEF CreateSkill
<1>8. \A e \in AnyDept : Dense(skill, e)
  BY DenseEverywhere
<1>9. /\ q \in [Skills -> StoreSkill] /\ q[k].dept = d /\ Alike(StoreSkill, q[k], w[k])
      /\ \A z \in Skills \ {k} : Alike(StoreSkill, q[z], skill[z]) /\ q[z].dept = skill[z].dept
      /\ \A e \in AnyDept : Dense(q, e)
  BY <1>3, <1>6, <1>7, <1>8, AddedDense
<1>10. ASSUME NEW z \in Skills, q[z].state = "live"
       PROVE  /\ q[z].dept \in LiveDepts
              /\ q[z].pos # Nowhere =>
                   q[z].pos \in LivePositions /\ position[q[z].pos].dept = q[z].dept
  <2>1. CASE z = k
    BY <1>5, <1>6, <1>7, <1>9, <2>1 DEF Alike
  <2>2. CASE z # k
    <3>1. skill[z].state = "live" /\ q[z].pos = skill[z].pos /\ q[z].dept = skill[z].dept
      BY <1>9, <1>10, <2>2 DEF Alike
    <3>2. QED
      BY <3>1, SkillStands
  <2>3. QED
    BY <2>1, <2>2
<1>11. Edit /\ UNCHANGED <<dept, position>>
  BY DEF CreateSkill
<1>12. QED
  BY <1>2, <1>9, <1>10, <1>11, SkillsEdited

\* A skill changed is placed in a live department, at no position or one of its own.
LEMMA UpdateSkillKeeps ==
  ASSUME StructureInd, NEW k \in Skills, NEW d \in Departments, NEW p, NEW at \in Nat \ {0},
         UpdateSkill(k, d, p, at)
  PROVE  StructureInd'
<1>1. PICK w : w = IF d = skill[k].dept THEN Placed(skill, d, k, at) ELSE MovedTo(skill, k, d, at)
  OBVIOUS
<1>2. PICK q : q = skill'
  OBVIOUS
<1>3. Table(Skills, StoreSkill) /\ skill \in [Skills -> StoreSkill] /\ d \in AnyDept
  BY DEF Table, StructureInd, StructureTypeOK, AnyDept
<1>4. p \in SkillPositions(d) /\ d \in LiveDepts /\ skill[k].state = "live"
  BY DEF UpdateSkill, LiveSkills
<1>5. /\ p \in Positions \cup {Nowhere}
      /\ p # Nowhere => p \in LivePositions /\ position[p].dept = d
  BY <1>4, SkillSeat
<1>6. \A e \in AnyDept : Dense(skill, e)
  BY DenseEverywhere
<1>7. skill[k].dept \in AnyDept
  BY <1>4, SkillStands
<1>8. /\ w \in [Skills -> StoreSkill] /\ w[k].dept = d
      /\ \A z \in Skills : Alike(StoreSkill, w[z], skill[z])
      /\ \A z \in Skills \ {k} : w[z].dept = skill[z].dept
      /\ \A e \in AnyDept : Dense(w, e)
  BY <1>1, <1>3, <1>4, <1>6, <1>7, PutDense
<1>9. q = [w EXCEPT ![k].pos = p]
  BY <1>1, <1>2 DEF UpdateSkill
<1>10. /\ q[k] \in StoreSkill /\ q[k].state = w[k].state /\ q[k].dept = d /\ q[k].pos = p
       /\ q[k].rank = w[k].rank /\ \A z \in Skills \ {k} : q[z] = w[z]
  <2>1. PICK r \in StoreSkill : r = w[k]
    BY <1>8
  <2>2. q[k] = [r EXCEPT !.pos = p] /\ \A z \in Skills \ {k} : q[z] = w[z]
    BY <1>8, <1>9, <2>1
  <2>3. /\ [r EXCEPT !.pos = p] \in StoreSkill /\ [r EXCEPT !.pos = p].state = r.state
        /\ [r EXCEPT !.pos = p].dept = r.dept /\ [r EXCEPT !.pos = p].pos = p
        /\ [r EXCEPT !.pos = p].rank = r.rank
    BY <1>5 DEF StoreSkill
  <2>4. QED
    BY <1>8, <2>1, <2>2, <2>3
<1>11. q \in [Skills -> StoreSkill]
  <2>1. \A z \in Skills : q[z] \in StoreSkill
    BY <1>8, <1>10
  <2>2. q = [z \in Skills |-> q[z]]
    BY <1>8, <1>9
  <2>3. QED
    BY <2>1, <2>2
<1>12. \A e \in AnyDept : Dense(q, e)
  <2>1. \A z \in Skills : q[z].state = w[z].state /\ q[z].dept = w[z].dept /\ q[z].rank = w[z].rank
    BY <1>8, <1>10
  <2>2. ASSUME NEW e \in AnyDept PROVE Dense(q, e)
    <3>1. PICK T : T = RowsOf(w, e)
      OBVIOUS
    <3>2. RowsOf(q, e) = T /\ \A z \in T : q[z].rank = w[z].rank
      BY <1>8, <1>11, <2>1, <3>1 DEF RowsOf
    <3>3. {w[z].rank : z \in T} = 1 .. Cardinality(T)
      BY <1>8, <3>1 DEF Dense
    <3>4. {q[z].rank : z \in T} = 1 .. Cardinality(T)
      BY <3>2, <3>3, SameRows
    <3>5. QED
      BY <3>2, <3>4 DEF Dense
  <2>3. QED
    BY <2>2
<1>13. ASSUME NEW z \in Skills, q[z].state = "live"
       PROVE  /\ q[z].dept \in LiveDepts
              /\ q[z].pos # Nowhere =>
                   q[z].pos \in LivePositions /\ position[q[z].pos].dept = q[z].dept
  <2>1. CASE z = k
    BY <1>4, <1>5, <1>10, <2>1
  <2>2. CASE z # k
    <3>1. skill[z].state = "live" /\ q[z].pos = skill[z].pos /\ q[z].dept = skill[z].dept
      BY <1>8, <1>10, <1>13, <2>2 DEF Alike
    <3>2. QED
      BY <3>1, SkillStands
  <2>3. QED
    BY <2>1, <2>2
<1>14. Edit /\ UNCHANGED <<dept, position>>
  BY DEF UpdateSkill
<1>15. QED
  BY <1>2, <1>11, <1>12, <1>13, <1>14, SkillsEdited

\* A skill deleted leaves the others where they were.
LEMMA DeleteSkillKeeps ==
  ASSUME StructureInd, NEW k \in Skills, DeleteSkill(k)
  PROVE  StructureInd'
<1>1. PICK q : q = skill'
  OBVIOUS
<1>2. Table(Skills, StoreSkill) /\ skill \in [Skills -> StoreSkill]
  BY DEF Table, StructureInd, StructureTypeOK
<1>3. skill[k].state = "live"
  BY DEF DeleteSkill, LiveSkills
<1>4. skill[k].dept \in AnyDept /\ \A e \in AnyDept : Dense(skill, e)
  BY <1>3, SkillStands, DenseEverywhere
<1>5. q = Removed(skill, k)
  BY <1>1 DEF Removed, DeleteSkill
<1>6. /\ q \in [Skills -> StoreSkill] /\ q[k].state = "gone"
      /\ \A z \in Skills \ {k} : Alike(StoreSkill, q[z], skill[z]) /\ q[z].dept = skill[z].dept
      /\ \A e \in AnyDept : Dense(q, e)
  BY <1>2, <1>3, <1>4, <1>5, RemovedDense
<1>7. ASSUME NEW z \in Skills, q[z].state = "live"
      PROVE  /\ q[z].dept \in LiveDepts
             /\ q[z].pos # Nowhere =>
                  q[z].pos \in LivePositions /\ position[q[z].pos].dept = q[z].dept
  <2>1. skill[z].state = "live" /\ q[z].pos = skill[z].pos /\ q[z].dept = skill[z].dept
    BY <1>6, <1>7 DEF Alike
  <2>2. QED
    BY <2>1, SkillStands
<1>8. Edit /\ UNCHANGED <<dept, position>>
  BY DEF DeleteSkill
<1>9. QED
  BY <1>1, <1>6, <1>7, <1>8, SkillsEdited

-----------------------------------------------------------------------------
\* An edit of the departments alone that deletes none and keeps the tree.
LEMMA DepartmentsEdited ==
  ASSUME StructureInd, Edit, UNCHANGED <<position, skill>>,
         dept' \in [AnyDept -> StoreDepartment], LiveDepts \subseteq LiveDepts', TreeIsSound'
  PROVE  StructureInd'
<1> USE DEF StructureInd
<1>1. StructureTypeOK'
  <2>1. changes' \in 0 .. MaxChanges /\ person' = person /\ overtaken' = overtaken
    BY StructureAssumption DEF StructureTypeOK, Edit
  <2>2. overtaken' \in BOOLEAN
    BY <2>1 DEF StructureTypeOK
  <2>3. QED
    BY <2>1, <2>2 DEF StructureTypeOK
<1>2. /\ LivePositions' = LivePositions /\ LiveSkills' = LiveSkills /\ Employed' = Employed
      /\ person' = person /\ position' = position /\ skill' = skill /\ overtaken' = overtaken
  BY DEF LivePositions, LiveSkills, Employed, Edit
<1>3. RanksAreDense'
  <2>1. \A e \in AnyDept : Dense(position', e) /\ Dense(skill', e)
    BY <1>2, DenseEverywhere
  <2>2. LiveDepts' \subseteq AnyDept
    BY DEF LiveDepts
  <2>3. QED
    BY <2>1, <2>2 DEF RanksAreDense, Dense
<1>4. PositionsHavePlaces' /\ SkillsHavePlaces'
  BY <1>2 DEF PositionsHavePlaces, SkillsHavePlaces
<1>5. PlacesExist'
  <2>1. SUFFICES ASSUME ~ overtaken, NEW e \in Employed PROVE InLivePlace(e)'
    BY <1>2 DEF PlacesExist
  <2>2. InLivePlace(e)
    BY <2>1 DEF PlacesExist
  <2>3. QED
    BY <1>2, <2>2 DEF InLivePlace
<1>6. QED
  BY <1>1, <1>3, <1>4, <1>5

\* A department created hangs below a live one of a smaller tier.
LEMMA CreateDepartmentKeeps ==
  ASSUME StructureInd, NEW d \in Departments, NEW up \in AnyDept, NEW tier \in 2 .. 4,
         CreateDepartment(d, up, tier)
  PROVE  StructureInd'
<1> USE DEF CreateDepartment
<1>1. dept \in [AnyDept -> StoreDepartment] /\ d \in AnyDept /\ dept[d].state = "none"
      /\ up \in LiveDepts /\ dept[up].tier < tier
  BY DEF StructureInd, StructureTypeOK, AnyDept, TierFits
<1>2. PICK r : r = [state |-> "live", parent |-> up, tier |-> tier]
  OBVIOUS
<1>3. r \in StoreDepartment /\ r.state = "live" /\ r.parent = up /\ r.tier = tier
  BY <1>2 DEF StoreDepartment, RowState
<1>4. dept' = [dept EXCEPT ![d] = r]
  BY <1>2
<1>5. /\ dept' \in [AnyDept -> StoreDepartment] /\ dept'[d] = r
      /\ \A c \in AnyDept \ {d} : dept'[c] = dept[c]
  BY <1>1, <1>3, <1>4
<1>6. LiveDepts' = LiveDepts \cup {d} /\ d \notin LiveDepts
  BY <1>1, <1>3, <1>5 DEF LiveDepts
<1>7. TreeIsSound'
  <2>1. SUFFICES ASSUME NEW c \in LiveDepts' \ {Top}
                 PROVE  /\ dept'[c].parent \in LiveDepts' /\ dept'[c].tier \in 2..4
                        /\ dept'[dept'[c].parent].tier < dept'[c].tier
    BY DEF TreeIsSound
  <2>2. CASE c = d
    BY <1>1, <1>3, <1>5, <1>6, <2>2 DEF LiveDepts
  <2>3. CASE c # d
    <3>1. /\ c \in LiveDepts /\ dept[c].parent \in LiveDepts /\ dept[c].tier \in 2..4
          /\ dept[dept[c].parent].tier < dept[c].tier
      BY <1>6, <2>3 DEF StructureInd, TreeIsSound
    <3>2. dept'[c] = dept[c] /\ dept'[dept[c].parent] = dept[dept[c].parent]
      BY <1>5, <1>6, <3>1 DEF LiveDepts
    <3>3. QED
      BY <1>6, <3>1, <3>2
  <2>4. QED
    BY <2>2, <2>3
<1>8. QED
  BY <1>5, <1>6, <1>7, DepartmentsEdited

\* A department updated stays as it is or hangs below a live one, its children below it.
LEMMA UpdateDepartmentKeeps ==
  ASSUME StructureInd, NEW d \in AnyDept, NEW up \in AnyDept \cup {Nowhere}, NEW tier \in 1 .. 4,
         UpdateDepartment(d, up, tier)
  PROVE  StructureInd'
<1> USE DEF UpdateDepartment
<1>1. dept \in [AnyDept -> StoreDepartment] /\ d \in LiveDepts
  BY DEF StructureInd, StructureTypeOK
<1>2. PICK o \in StoreDepartment : o = dept[d]
  BY <1>1
<1>3. PICK r : r = [o EXCEPT !.parent = up, !.tier = tier]
  OBVIOUS
<1>4. r \in StoreDepartment /\ r.state = o.state /\ r.parent = up /\ r.tier = tier
  <2>1. tier \in 0 .. 4
    OBVIOUS
  <2>2. QED
    BY <1>3, <2>1 DEF StoreDepartment
<1>5. dept' = [dept EXCEPT ![d] = r]
  BY <1>1, <1>2, <1>3
<1>6. /\ dept' \in [AnyDept -> StoreDepartment] /\ dept'[d] = r
      /\ \A c \in AnyDept \ {d} : dept'[c] = dept[c]
  BY <1>1, <1>4, <1>5
<1>7. LiveDepts' = LiveDepts
  BY <1>2, <1>4, <1>6 DEF LiveDepts
<1>8. /\ dept[d].parent = up /\ dept[d].tier = tier
      \/ /\ d # Top /\ up \in LiveDepts /\ tier \in 2 .. 4 /\ dept[up].tier < tier
         /\ d # up
         /\ \A c \in LiveDepts : dept[c].parent = d => dept[c].tier > tier
  BY DEF TierFits, Above, Parents
<1>9. TreeIsSound'
  <2>1. SUFFICES ASSUME NEW c \in LiveDepts \ {Top}
                 PROVE  /\ dept'[c].parent \in LiveDepts /\ dept'[c].tier \in 2..4
                        /\ dept'[dept'[c].parent].tier < dept'[c].tier
    BY <1>7 DEF TreeIsSound
  <2>2. /\ c \in AnyDept /\ dept[c].parent \in LiveDepts /\ dept[c].parent \in AnyDept
        /\ dept[c].tier \in 2..4 /\ dept[dept[c].parent].tier < dept[c].tier
    BY DEF StructureInd, TreeIsSound, LiveDepts
  <2>3. CASE dept[d].parent = up /\ dept[d].tier = tier
    <3>1. \A b \in AnyDept : dept'[b].parent = dept[b].parent /\ dept'[b].tier = dept[b].tier
      BY <1>4, <1>6, <2>3
    <3>2. QED
      BY <2>2, <3>1
  <2>4. CASE /\ d # Top /\ up \in LiveDepts /\ tier \in 2 .. 4 /\ dept[up].tier < tier
             /\ d # up
             /\ \A b \in LiveDepts : dept[b].parent = d => dept[b].tier > tier
    <3>1. CASE c = d
      <4>1. dept'[c].parent = up /\ dept'[c].tier = tier /\ dept'[up] = dept[up]
        BY <1>4, <1>6, <2>4, <3>1 DEF LiveDepts
      <4>2. QED
        BY <2>4, <4>1
    <3>2. CASE c # d
      <4>1. dept'[c] = dept[c]
        BY <1>6, <2>2, <3>2
      <4>2. CASE dept[c].parent = d
        BY <1>4, <1>6, <2>2, <2>4, <4>1, <4>2
      <4>3. CASE dept[c].parent # d
        BY <1>6, <2>2, <4>1, <4>3
      <4>4. QED
        BY <4>2, <4>3
    <3>3. QED
      BY <3>1, <3>2
  <2>5. QED
    BY <1>8, <2>3, <2>4
<1>10. QED
  BY <1>6, <1>7, <1>9, DepartmentsEdited

\* A department deleted has no children and nobody in it; its rows go with it.
LEMMA DeleteDepartmentKeeps ==
  ASSUME StructureInd, NEW d \in Departments, DeleteDepartment(d)
  PROVE  StructureInd'
<1> USE DEF DeleteDepartment
<1>1. /\ dept \in [AnyDept -> StoreDepartment] /\ d \in AnyDept /\ d \in LiveDepts \ {Top}
      /\ position \in [Positions -> StoreRole] /\ skill \in [Skills -> StoreSkill]
  BY DEF StructureInd, StructureTypeOK, LiveDepts
<1>2. PICK r : r = [dept[d] EXCEPT !.state = "gone"]
  OBVIOUS
<1>3. r \in StoreDepartment /\ r.state = "gone"
  <2>1. PICK o \in StoreDepartment : o = dept[d]
    BY <1>1
  <2>2. r = [o EXCEPT !.state = "gone"]
    BY <1>2, <2>1
  <2>3. QED
    BY <2>2 DEF StoreDepartment, RowState
<1>4. /\ dept' \in [AnyDept -> StoreDepartment] /\ dept'[d] = r
      /\ \A c \in AnyDept \ {d} : dept'[c] = dept[c]
  <2>1. dept' = [dept EXCEPT ![d] = r]
    BY <1>1, <1>2
  <2>2. QED
    BY <1>1, <1>3, <2>1
<1>5. LiveDepts' = LiveDepts \ {d}
  BY <1>1, <1>3, <1>4 DEF LiveDepts
<1>6. PICK ps, ks : ps = position' /\ ks = skill'
  OBVIOUS
<1>7. \A e \in AnyDept : Dense(position, e) /\ Dense(skill, e)
  BY DenseEverywhere
<1>8. /\ ps \in [Positions -> StoreRole]
      /\ \A p \in RowsOf(position, d) : ps[p].state = "gone"
      /\ \A p \in Positions : p \notin RowsOf(position, d) => ps[p] = position[p]
      /\ \A e \in AnyDept : Dense(ps, e)
  <2>1. Table(Positions, StoreRole) /\ \A e \in AnyDept : Dense(position, e)
    BY <1>7 DEF Table
  <2>2. ps = Retired(position, d)
    BY <1>6
  <2>3. QED
    BY <1>1, <2>1, <2>2, RetiredDense
<1>9. /\ ks \in [Skills -> StoreSkill]
      /\ \A k \in RowsOf(skill, d) : ks[k].state = "gone"
      /\ \A k \in Skills : k \notin RowsOf(skill, d) => ks[k] = skill[k]
      /\ \A e \in AnyDept : Dense(ks, e)
  <2>1. Table(Skills, StoreSkill) /\ \A e \in AnyDept : Dense(skill, e)
    BY <1>7 DEF Table
  <2>2. ks = Retired(skill, d)
    BY <1>6
  <2>3. QED
    BY <1>1, <2>1, <2>2, RetiredDense
<1>10. StructureTypeOK'
  <2>1. changes' \in 0 .. MaxChanges /\ person' = person /\ overtaken' = overtaken
    BY StructureAssumption DEF StructureInd, StructureTypeOK, Edit
  <2>2. overtaken' \in BOOLEAN
    BY <2>1 DEF StructureInd, StructureTypeOK
  <2>3. position' \in [Positions -> StoreRole] /\ skill' \in [Skills -> StoreSkill]
    BY <1>6, <1>8, <1>9
  <2>4. QED
    BY <1>4, <2>1, <2>2, <2>3 DEF StructureInd, StructureTypeOK
<1>11. TreeIsSound'
  <2>1. SUFFICES ASSUME NEW c \in LiveDepts \ {Top, d}
                 PROVE  /\ dept'[c].parent \in LiveDepts' /\ dept'[c].tier \in 2..4
                        /\ dept'[dept'[c].parent].tier < dept'[c].tier
    BY <1>5 DEF TreeIsSound
  <2>2. /\ dept[c].parent \in LiveDepts /\ dept[c].tier \in 2..4 /\ dept[c].parent # d
        /\ dept[dept[c].parent].tier < dept[c].tier
    BY DEF StructureInd, TreeIsSound
  <2>3. dept'[c] = dept[c] /\ dept'[dept[c].parent] = dept[dept[c].parent]
    BY <1>4, <2>2 DEF LiveDepts
  <2>4. QED
    BY <1>5, <2>2, <2>3
<1>12. RanksAreDense'
  <2>1. \A e \in AnyDept : Dense(position', e) /\ Dense(skill', e)
    BY <1>6, <1>8, <1>9
  <2>2. LiveDepts' \subseteq AnyDept
    BY DEF LiveDepts
  <2>3. QED
    BY <2>1, <2>2 DEF RanksAreDense, Dense
<1>13. ASSUME NEW p \in Positions
       PROVE  /\ p \in LivePositions' => /\ p \in LivePositions /\ position[p].dept # d
                                         /\ position'[p] = position[p]
              /\ p \in LivePositions /\ position[p].dept # d =>
                   p \in LivePositions' /\ position'[p] = position[p]
  BY <1>1, <1>6, <1>8 DEF LivePositions, RowsOf
<1>14. PositionsHavePlaces'
  <2>1. SUFFICES ASSUME NEW p \in LivePositions' PROVE position'[p].dept \in LiveDepts' \ {Top}
    BY DEF PositionsHavePlaces
  <2>2. p \in Positions
    BY DEF LivePositions
  <2>3. QED
    BY <1>5, <1>13, <2>2 DEF StructureInd, PositionsHavePlaces
<1>15. SkillsHavePlaces'
  <2>1. SUFFICES ASSUME NEW k \in LiveSkills'
                 PROVE  /\ skill'[k].dept \in LiveDepts'
                        /\ skill'[k].pos # Nowhere =>
                             /\ skill'[k].pos \in LivePositions'
                             /\ position'[skill'[k].pos].dept = skill'[k].dept
    BY DEF SkillsHavePlaces
  <2>2. k \in LiveSkills /\ skill[k].dept # d /\ skill'[k] = skill[k]
    BY <1>1, <1>6, <1>9 DEF LiveSkills, RowsOf
  <2>3. /\ skill[k].dept \in LiveDepts
        /\ skill[k].pos # Nowhere =>
             skill[k].pos \in LivePositions /\ position[skill[k].pos].dept = skill[k].dept
    BY <2>2 DEF StructureInd, SkillsHavePlaces
  <2>4. ASSUME NEW p \in LivePositions, p = skill[k].pos
        PROVE  p \in LivePositions' /\ position'[p].dept = skill[k].dept
    <3>1. p \in Positions /\ position[p].dept = skill[k].dept
      BY <2>3, <2>4, StructureAssumption DEF LivePositions
    <3>2. QED
      BY <1>13, <2>2, <3>1
  <2>5. QED
    BY <1>5, <2>2, <2>3, <2>4
<1>16. PlacesExist'
  <2>1. Employed' = Employed /\ person' = person /\ overtaken' = overtaken
    BY DEF Employed, Edit
  <2>2. SUFFICES ASSUME ~ overtaken, NEW e \in Employed PROVE InLivePlace(e)'
    BY <2>1 DEF PlacesExist
  <2>3. InLivePlace(e)
    BY <2>2 DEF StructureInd, PlacesExist
  <2>4. person[e].dept # d /\ person[e].pos \notin RowsOf(position, d)
    OBVIOUS
  <2>5. person[e].dept \in (LiveDepts' \ {Top}) \cup {Nowhere}
    BY <1>5, <2>3, <2>4 DEF InLivePlace
  <2>6. ASSUME NEW p \in LivePositions, p = person[e].pos
        PROVE  p \in LivePositions' /\ position'[p].dept = person[e].dept
    <3>1. p \in Positions /\ position[p].dept = person[e].dept
      BY <2>3, <2>6, StructureAssumption DEF LivePositions, InLivePlace
    <3>2. QED
      BY <1>13, <2>4, <3>1
  <2>7. QED
    BY <2>1, <2>3, <2>5, <2>6 DEF InLivePlace
<1>17. QED
  BY <1>10, <1>11, <1>12, <1>14, <1>15, <1>16 DEF StructureInd

\* A department copied with its positions and skills: the copies keep their places.
LEMMA DuplicateDepartmentKeeps ==
  ASSUME StructureInd, NEW d \in Departments, NEW c \in Departments, DuplicateDepartment(d, c)
  PROVE  StructureInd'
<1>1. /\ dept \in [AnyDept -> StoreDepartment] /\ d \in AnyDept /\ c \in AnyDept
      /\ position \in [Positions -> StoreRole] /\ skill \in [Skills -> StoreSkill]
      /\ d \in LiveDepts \ {Top} /\ dept[c].state = "none" /\ c # Top /\ c # d
      /\ c \notin LiveDepts /\ Edit
  BY StructureAssumption
     DEF DuplicateDepartment, StructureInd, StructureTypeOK, AnyDept, LiveDepts
<1> DEFINE S == RowsOf(position, d)
<1> DEFINE K == RowsOf(skill, d)
<1>2. PICK ps \in [S -> {p \in Positions : position[p].state = "none"}],
           ks \in [K -> {k \in Skills : skill[k].state = "none"}] :
       /\ IsInjective(ps) /\ IsInjective(ks)
       /\ dept' = [dept EXCEPT ![c] = [dept[d] EXCEPT !.state = "live"]]
       /\ position' = [p \in Positions |->
            IF \E q \in DOMAIN ps : ps[q] = p
            THEN [position[CHOOSE q \in DOMAIN ps : ps[q] = p] EXCEPT !.dept = c]
            ELSE position[p]]
       /\ skill' = [k \in Skills |->
            IF \E j \in DOMAIN ks : ks[j] = k
            THEN LET i == CHOOSE j \in DOMAIN ks : ks[j] = k
                 IN  [skill[i] EXCEPT !.dept = c,
                        !.pos = IF @ \in DOMAIN ps THEN ps[@] ELSE Nowhere]
            ELSE skill[k]]
  BY DEF DuplicateDepartment
<1>3. /\ S \subseteq Positions /\ \A p \in S : position[p].state = "live" /\ position[p].dept = d
      /\ K \subseteq Skills /\ \A k \in K : skill[k].state = "live" /\ skill[k].dept = d
  BY <1>1 DEF RowsOf
<1>4. PICK r : r = [dept[d] EXCEPT !.state = "live"]
  OBVIOUS
<1>5. r \in StoreDepartment /\ r.state = "live" /\ r.parent = dept[d].parent /\ r.tier = dept[d].tier
  <2>1. PICK o \in StoreDepartment : o = dept[d]
    BY <1>1
  <2>2. r = [o EXCEPT !.state = "live"]
    BY <1>4, <2>1
  <2>3. QED
    BY <2>1, <2>2 DEF StoreDepartment, RowState
<1>6. /\ dept' \in [AnyDept -> StoreDepartment] /\ dept'[c] = r
      /\ \A e \in AnyDept \ {c} : dept'[e] = dept[e]
  <2>1. dept' = [dept EXCEPT ![c] = r]
    BY <1>2, <1>4
  <2>2. QED
    BY <1>1, <1>5, <2>1
<1>7. LiveDepts' = LiveDepts \cup {c}
  BY <1>1, <1>5, <1>6 DEF LiveDepts
<1>8. PICK P, L : P = position' /\ L = skill'
  OBVIOUS
<1> HIDE DEF S, K
<1>9. /\ \A p \in S : /\ ps[p] \in Positions /\ position[ps[p]].state = "none"
      /\ \A k \in K : /\ ks[k] \in Skills /\ skill[ks[k]].state = "none"
      /\ \A p, q \in S : ps[p] = ps[q] => p = q
      /\ \A j, k \in K : ks[j] = ks[k] => j = k
      /\ DOMAIN ps = S /\ DOMAIN ks = K
  BY <1>2 DEF IsInjective
<1>10. /\ \A p \in S : P[ps[p]] = [position[p] EXCEPT !.dept = c]
       /\ \A x \in Positions : x \notin {ps[p] : p \in S} => P[x] = position[x]
       /\ P = [x \in Positions |-> P[x]]
  <2>1. P = [p \in Positions |->
               IF \E q \in S : ps[q] = p
               THEN [position[CHOOSE q \in S : ps[q] = p] EXCEPT !.dept = c]
               ELSE position[p]]
    BY <1>2, <1>8, <1>9
  <2>2. ASSUME NEW p \in S PROVE P[ps[p]] = [position[p] EXCEPT !.dept = c]
    <3>1. (CHOOSE q \in S : ps[q] = ps[p]) = p
      BY <1>9
    <3>2. P[ps[p]] = [position[CHOOSE q \in S : ps[q] = ps[p]] EXCEPT !.dept = c]
      BY <1>9, <2>1
    <3>3. QED
      BY <3>1, <3>2
  <2>3. \A x \in Positions : x \notin {ps[p] : p \in S} => P[x] = position[x]
    BY <2>1
  <2>4. P = [x \in Positions |-> P[x]]
    BY <2>1
  <2>5. QED
    BY <2>2, <2>3, <2>4
<1>11. /\ \A p \in S : /\ P[ps[p]] \in StoreRole /\ P[ps[p]].state = "live"
                       /\ P[ps[p]].dept = c /\ P[ps[p]].rank = position[p].rank
       /\ P \in [Positions -> StoreRole]
  <2>1. ASSUME NEW p \in S
        PROVE  /\ P[ps[p]] \in StoreRole /\ P[ps[p]].state = "live"
               /\ P[ps[p]].dept = c /\ P[ps[p]].rank = position[p].rank
    <3>1. PICK y \in StoreRole : y = position[p]
      BY <1>1, <1>3
    <3>2. P[ps[p]] = [y EXCEPT !.dept = c] /\ y.state = "live"
      BY <1>3, <1>10, <3>1
    <3>3. QED
      BY <1>1, <3>1, <3>2 DEF StoreRole
  <2>2. ASSUME NEW x \in Positions PROVE P[x] \in StoreRole
    <3>1. CASE x \in {ps[p] : p \in S}
      BY <2>1, <3>1
    <3>2. CASE x \notin {ps[p] : p \in S}
      BY <1>1, <1>10, <3>2
    <3>3. QED
      BY <3>1, <3>2
  <2>3. P \in [Positions -> StoreRole]
    BY <1>10, <2>2
  <2>4. QED
    BY <2>1, <2>3
<1> DEFINE Seat(k) == IF skill[k].pos \in S THEN ps[skill[k].pos] ELSE Nowhere
<1>12. /\ \A k \in K : L[ks[k]] = [[skill[k] EXCEPT !.dept = c] EXCEPT !.pos = Seat(k)]
       /\ \A x \in Skills : x \notin {ks[k] : k \in K} => L[x] = skill[x]
       /\ L = [x \in Skills |-> L[x]]
  <2>1. L = [k \in Skills |->
               IF \E j \in K : ks[j] = k
               THEN LET i == CHOOSE j \in K : ks[j] = k
                    IN  [skill[i] EXCEPT !.dept = c, !.pos = IF @ \in S THEN ps[@] ELSE Nowhere]
               ELSE skill[k]]
    BY <1>2, <1>8, <1>9
  <2>2. ASSUME NEW k \in K
        PROVE  L[ks[k]] = [[skill[k] EXCEPT !.dept = c] EXCEPT !.pos = Seat(k)]
    <3>1. (CHOOSE j \in K : ks[j] = ks[k]) = k
      BY <1>9
    <3>2. PICK i : i = CHOOSE j \in K : ks[j] = ks[k]
      OBVIOUS
    <3>3. L[ks[k]] = [skill[i] EXCEPT !.dept = c, !.pos = IF @ \in S THEN ps[@] ELSE Nowhere]
      BY <1>9, <2>1, <3>2
    <3>4. i = k
      BY <3>1, <3>2
    <3>5. L[ks[k]] = [skill[k] EXCEPT !.dept = c, !.pos = IF @ \in S THEN ps[@] ELSE Nowhere]
      BY <3>3, <3>4
    <3>6. QED
      BY <1>1, <1>3, <3>5 DEF StoreSkill
  <2>3. \A x \in Skills : x \notin {ks[k] : k \in K} => L[x] = skill[x]
    BY <2>1
  <2>4. L = [x \in Skills |-> L[x]]
    BY <2>1
  <2>5. QED
    BY <2>2, <2>3, <2>4
<1>13. /\ \A k \in K : /\ L[ks[k]] \in StoreSkill /\ L[ks[k]].state = "live"
                       /\ L[ks[k]].dept = c /\ L[ks[k]].rank = skill[k].rank
                       /\ L[ks[k]].pos = Seat(k)
       /\ L \in [Skills -> StoreSkill]
  <2>1. ASSUME NEW k \in K
        PROVE  /\ L[ks[k]] \in StoreSkill /\ L[ks[k]].state = "live"
               /\ L[ks[k]].dept = c /\ L[ks[k]].rank = skill[k].rank
               /\ L[ks[k]].pos = Seat(k)
    <3>1. PICK y \in StoreSkill : y = skill[k]
      BY <1>1, <1>3
    <3>2. PICK s : s = Seat(k)
      OBVIOUS
    <3>3. s \in Positions \cup {Nowhere}
      BY <1>9, <3>2
    <3> HIDE DEF Seat
    <3>4. L[ks[k]] = [[y EXCEPT !.dept = c] EXCEPT !.pos = s] /\ y.state = "live"
      BY <1>3, <1>12, <3>1, <3>2
    <3>5. QED
      BY <1>1, <3>1, <3>2, <3>3, <3>4 DEF StoreSkill
  <2> HIDE DEF Seat
  <2>2. ASSUME NEW x \in Skills PROVE L[x] \in StoreSkill
    <3>1. CASE x \in {ks[k] : k \in K}
      BY <2>1, <3>1
    <3>2. CASE x \notin {ks[k] : k \in K}
      BY <1>1, <1>12, <3>2
    <3>3. QED
      BY <3>1, <3>2
  <2>3. L \in [Skills -> StoreSkill]
    BY <1>12, <2>2
  <2>4. QED
    BY <2>1, <2>3
<1>14. \A e \in AnyDept : Dense(P, e) /\ Dense(L, e)
  <2>1. /\ \A e \in AnyDept : Dense(position, e) /\ Dense(skill, e)
        /\ Table(Positions, StoreRole) /\ Table(Skills, StoreSkill)
    BY DenseEverywhere DEF Table
  <2>2. RowsOf(position, c) = {} /\ RowsOf(skill, c) = {}
    <3>1. \A p \in Positions : position[p].state = "live" => position[p].dept # c
      BY <1>1 DEF StructureInd, PositionsHavePlaces, LivePositions
    <3>2. \A k \in Skills : skill[k].state = "live" => skill[k].dept # c
      BY <1>1 DEF StructureInd, SkillsHavePlaces, LiveSkills
    <3>3. QED
      BY <1>1, <3>1, <3>2 DEF RowsOf
  <2>3. \A e \in AnyDept : Dense(P, e)
    <3>1. ps \in [RowsOf(position, d) -> {p \in Positions : position[p].state = "none"}]
      BY <1>2 DEF S
    <3>2. Copied(P, position, ps, RowsOf(position, d), c)
      <4>1. Copied(P, position, ps, S, c)
        BY <1>1, <1>10, <1>11 DEF Copied
      <4>2. QED
        BY <4>1 DEF S
    <3>3. QED
      BY <1>1, <1>2, <1>11, <2>1, <2>2, <3>1, <3>2, CopiedDense
  <2>4. \A e \in AnyDept : Dense(L, e)
    <3>1. ks \in [RowsOf(skill, d) -> {k \in Skills : skill[k].state = "none"}]
      BY <1>2 DEF K
    <3>2. Copied(L, skill, ks, RowsOf(skill, d), c)
      <4> HIDE DEF Seat
      <4>1. Copied(L, skill, ks, K, c)
        BY <1>1, <1>12, <1>13 DEF Copied
      <4>2. QED
        BY <4>1 DEF K
    <3>3. QED
      BY <1>1, <1>2, <1>13, <2>1, <2>2, <3>1, <3>2, CopiedDense
  <2>5. QED
    BY <2>3, <2>4
<1>15. \A p \in LivePositions : p \in LivePositions' /\ P[p] = position[p] /\ p \in Positions
  <2>1. \A p \in LivePositions : p \in Positions /\ p \notin {ps[q] : q \in S}
    BY <1>9 DEF LivePositions
  <2>2. QED
    BY <1>8, <1>10, <2>1 DEF LivePositions
<1>16. StructureTypeOK'
  <2>1. changes' \in 0 .. MaxChanges /\ person' = person /\ overtaken' = overtaken
    BY <1>1, StructureAssumption DEF StructureInd, StructureTypeOK, Edit
  <2>2. overtaken' \in BOOLEAN
    BY <2>1 DEF StructureInd, StructureTypeOK
  <2>3. position' \in [Positions -> StoreRole] /\ skill' \in [Skills -> StoreSkill]
    BY <1>8, <1>11, <1>13
  <2>4. QED
    BY <1>6, <2>1, <2>2, <2>3 DEF StructureInd, StructureTypeOK
<1>17. TreeIsSound'
  <2>1. SUFFICES ASSUME NEW e \in LiveDepts' \ {Top}
                 PROVE  /\ dept'[e].parent \in LiveDepts' /\ dept'[e].tier \in 2..4
                        /\ dept'[dept'[e].parent].tier < dept'[e].tier
    BY DEF TreeIsSound
  <2>2. PICK o \in LiveDepts \ {Top} : dept'[e].parent = dept[o].parent /\ dept'[e].tier = dept[o].tier
    <3>1. CASE e = c
      BY <1>1, <1>5, <1>6, <3>1
    <3>2. CASE e # c
      <4>1. e \in LiveDepts /\ e \in AnyDept
        BY <1>7, <3>2 DEF LiveDepts
      <4>2. QED
        BY <1>6, <3>2, <4>1
    <3>3. QED
      BY <3>1, <3>2
  <2>3. /\ dept[o].parent \in LiveDepts /\ dept[o].tier \in 2..4
        /\ dept[dept[o].parent].tier < dept[o].tier
    BY DEF StructureInd, TreeIsSound
  <2>4. dept'[dept[o].parent] = dept[dept[o].parent]
    BY <1>1, <1>6, <2>3 DEF LiveDepts
  <2>5. QED
    BY <1>7, <2>2, <2>3, <2>4
<1>18. RanksAreDense'
  <2>1. \A e \in AnyDept : Dense(position', e) /\ Dense(skill', e)
    BY <1>8, <1>14
  <2>2. LiveDepts' \subseteq AnyDept
    BY DEF LiveDepts
  <2>3. QED
    BY <2>1, <2>2 DEF RanksAreDense, Dense
<1>19. PositionsHavePlaces'
  <2>1. SUFFICES ASSUME NEW x \in Positions, P[x].state = "live" PROVE P[x].dept \in LiveDepts' \ {Top}
    BY <1>8 DEF PositionsHavePlaces, LivePositions
  <2>2. CASE x \in {ps[p] : p \in S}
    BY <1>1, <1>7, <1>11, <2>2
  <2>3. CASE x \notin {ps[p] : p \in S}
    <3>1. P[x] = position[x] /\ x \in LivePositions
      BY <1>10, <2>1, <2>3 DEF LivePositions
    <3>2. QED
      BY <1>7, <3>1 DEF StructureInd, PositionsHavePlaces
  <2>4. QED
    BY <2>2, <2>3
<1>20. SkillsHavePlaces'
  <2>1. SUFFICES ASSUME NEW x \in Skills, L[x].state = "live"
                 PROVE  /\ L[x].dept \in LiveDepts'
                        /\ L[x].pos # Nowhere =>
                             L[x].pos \in LivePositions' /\ P[L[x].pos].dept = L[x].dept
    BY <1>8 DEF SkillsHavePlaces, LiveSkills
  <2>2. CASE x \in {ks[k] : k \in K}
    <3>1. PICK k \in K : x = ks[k]
      BY <2>2
    <3>2. L[x].dept = c /\ L[x].pos = Seat(k)
      BY <1>13, <3>1
    <3>3. CASE skill[k].pos \in S
      <4>1. PICK p \in S : p = skill[k].pos
        BY <3>3
      <4>2. L[x].pos = ps[p]
        BY <3>2, <4>1
      <4>3. ps[p] \in Positions /\ P[ps[p]].state = "live" /\ P[ps[p]].dept = c
        BY <1>9, <1>11
      <4>4. ps[p] \in LivePositions'
        BY <1>8, <4>3 DEF LivePositions
      <4>5. QED
        BY <1>7, <3>2, <4>2, <4>3, <4>4
    <3>4. CASE skill[k].pos \notin S
      <4>1. L[x].pos = Nowhere
        BY <3>2, <3>4
      <4>2. QED
        BY <1>7, <3>2, <4>1
    <3>5. QED
      BY <3>3, <3>4
  <2>3. CASE x \notin {ks[k] : k \in K}
    <3>1. L[x] = skill[x] /\ skill[x].state = "live"
      BY <1>12, <2>1, <2>3
    <3>2. /\ skill[x].dept \in LiveDepts
          /\ skill[x].pos # Nowhere =>
               skill[x].pos \in LivePositions /\ position[skill[x].pos].dept = skill[x].dept
      BY <3>1, SkillStands
    <3>3. QED
      BY <1>7, <1>15, <3>1, <3>2
  <2>4. QED
    BY <2>2, <2>3
<1>21. PlacesExist'
  <2>1. Employed' = Employed /\ person' = person /\ overtaken' = overtaken
    BY <1>1 DEF Employed, Edit
  <2>2. SUFFICES ASSUME ~ overtaken, NEW e \in Employed PROVE InLivePlace(e)'
    BY <2>1 DEF PlacesExist
  <2>3. InLivePlace(e)
    BY <2>2 DEF StructureInd, PlacesExist
  <2>4. \A p \in LivePositions : p \in LivePositions' /\ position'[p] = position[p]
    BY <1>8, <1>15
  <2>5. QED
    BY <1>7, <2>1, <2>3, <2>4 DEF InLivePlace
<1>22. QED
  BY <1>16, <1>17, <1>18, <1>19, <1>20, <1>21 DEF StructureInd

-----------------------------------------------------------------------------
\* The lowest positions of a department have rank 1, and there is one if there are any.
LEMMA EntryFirst ==
  ASSUME StructureInd, NEW d \in AnyDept
  PROVE  /\ \A p \in EntryOf(d) : position[p].rank = 1 /\ p \in LivePositions /\ position[p].dept = d
         /\ PositionsOf(d) # {} => EntryOf(d) # {}
<1>1. position \in [Positions -> StoreRole] /\ IsFiniteSet(Positions) /\ DOMAIN position = Positions
  BY StructureAssumption DEF StructureInd, StructureTypeOK
<1>2. PICK S : S = RowsOf(position, d)
  OBVIOUS
<1>3. \A p \in S : position[p].rank \in Nat \ {0}
  BY <1>1, <1>2, DenseEverywhere, DenseRows
<1>4. PositionsOf(d) = S
  BY <1>2, <1>3 DEF PositionsOf
<1>5. ASSUME NEW q \in S PROVE \E p \in S : position[p].rank = 1
  <2>1. {position[p].rank : p \in S} = 1 .. Cardinality(S)
    BY <1>2, DenseEverywhere DEF Dense
  <2>2. Cardinality(S) \in Nat
    BY <1>1, <1>2, RowsFinite
  <2>3. position[q].rank \in 1 .. Cardinality(S)
    BY <2>1
  <2>4. 1 \in 1 .. Cardinality(S)
    BY <2>2, <2>3
  <2>5. QED
    BY <2>1, <2>4
<1>6. ASSUME NEW p \in EntryOf(d)
      PROVE  position[p].rank = 1 /\ p \in LivePositions /\ position[p].dept = d
  <2>1. p \in S /\ \A q \in S : position[p].rank <= position[q].rank
    BY <1>4 DEF EntryOf
  <2>2. PICK q \in S : position[q].rank = 1
    BY <1>5, <2>1
  <2>3. position[p].rank <= 1 /\ position[p].rank \in Nat \ {0}
    BY <1>3, <2>1, <2>2
  <2>4. p \in LivePositions /\ position[p].dept = d
    BY <1>1, <1>2, <2>1 DEF RowsOf, LivePositions
  <2>5. QED
    BY <2>3, <2>4
<1>7. PositionsOf(d) # {} => EntryOf(d) # {}
  <2>1. SUFFICES ASSUME NEW q \in S PROVE EntryOf(d) # {}
    BY <1>4
  <2>2. PICK p \in S : position[p].rank = 1
    BY <1>5
  <2>3. \A u \in S : position[p].rank <= position[u].rank
    BY <1>3, <2>2
  <2>4. QED
    BY <1>4, <2>3 DEF EntryOf
<1>8. QED
  BY <1>6, <1>7

\* Whoever has no next position in the department is at its top.
LEMMA NothingAbove ==
  ASSUME StructureInd, NEW e \in Employed, ~ overtaken, CurrentLive(e),
         {p \in PositionsOf(person[e].dept) : position[p].rank = position[person[e].pos].rank + 1} = {}
  PROVE  AtTop(e)
<1>1. PICK d, c : d = person[e].dept /\ c = person[e].pos
  OBVIOUS
<1>2. /\ c \in LivePositions /\ position[c].dept = d /\ d \in AnyDept
      /\ position[c].rank # 0 /\ c \in Positions
  <2>1. InLivePlace(e)
    BY DEF StructureInd, PlacesExist
  <2>2. c \in LivePositions /\ c \in Positions /\ position[c].rank # 0
    BY <1>1 DEF CurrentLive, LivePositions
  <2>3. c # Nowhere /\ position[c].dept = d
    BY <1>1, <2>1, <2>2, StructureAssumption DEF InLivePlace
  <2>4. position[c].dept \in LiveDepts
    BY <2>2 DEF StructureInd, PositionsHavePlaces
  <2>5. QED
    BY <2>2, <2>3, <2>4 DEF LiveDepts
<1>3. /\ position \in [Positions -> StoreRole] /\ IsFiniteSet(Positions)
      /\ DOMAIN position = Positions
  BY StructureAssumption DEF StructureInd, StructureTypeOK
<1>4. PICK S : S = RowsOf(position, d)
  OBVIOUS
<1>5. \A p \in S : position[p].rank \in Nat \ {0}
  BY <1>2, <1>3, <1>4, DenseEverywhere, DenseRows
<1>6. PositionsOf(d) = S /\ c \in S
  BY <1>2, <1>3, <1>4, <1>5 DEF PositionsOf, RowsOf, LivePositions
<1>7. {position[p].rank : p \in S} = 1 .. Cardinality(S) /\ Cardinality(S) \in Nat
  BY <1>2, <1>3, <1>4, DenseEverywhere, RowsFinite DEF Dense
<1>8. ASSUME NEW p \in S PROVE position[p].rank <= position[c].rank
  <2>1. SUFFICES ASSUME position[p].rank > position[c].rank PROVE FALSE
    BY <1>5, <1>6
  <2>2. position[c].rank + 1 \in 1 .. Cardinality(S)
    <3>1. position[p].rank \in 1 .. Cardinality(S) /\ position[c].rank \in 1 .. Cardinality(S)
      BY <1>6, <1>7
    <3>2. QED
      BY <1>7, <2>1, <3>1
  <2>3. PICK u \in S : position[u].rank = position[c].rank + 1
    BY <1>7, <2>2
  <2>4. QED
    BY <1>1, <1>6, <2>3
<1>9. QED
  BY <1>1, <1>6, <1>8 DEF AtTop

\* What the app offers is what a promotion by path accepts.
LEMMA OfferHolds == StructureInd => OfferedStepIsAccepted
<1>1. SUFFICES ASSUME StructureInd, ~ overtaken, NEW e \in Employed, NEW seat \in NextTarget(e)
               PROVE  IF seat[2] # Nowhere THEN PositionAdjacent(e, seat[2])
                      ELSE DepartmentAdjacent(e, seat[1])
  BY DEF OfferedStepIsAccepted
<1>2. PICK here, cur, up : /\ here = person[e].dept /\ cur = person[e].pos
                           /\ up = dept[here].parent
  OBVIOUS
<1>3. here # Nowhere
  BY <1>2 DEF NextTarget
<1>4. here \in LiveDepts \ {Top} /\ InLivePlace(e) /\ here \in AnyDept
  BY <1>1, <1>2, <1>3 DEF StructureInd, PlacesExist, InLivePlace, LiveDepts
<1>5. /\ up \in LiveDepts /\ up \in AnyDept /\ up # here /\ up # Nowhere
      /\ IsAncestor(up, here)
  <2>1. up \in LiveDepts /\ dept[here].tier \in 2..4 /\ dept[up].tier < dept[here].tier
    BY <1>1, <1>2, <1>4 DEF StructureInd, TreeIsSound
  <2>2. up # here
    BY <2>1
  <2>3. up \in AnyDept /\ up # Nowhere
    BY <2>1, StructureAssumption DEF LiveDepts, AnyDept
  <2>4. up \in Above(here)
    BY <1>2, <1>3, <1>4 DEF Above, Parents
  <2>5. QED
    BY <1>3, <2>1, <2>2, <2>3, <2>4 DEF IsAncestor
<1> DEFINE ups == {p \in PositionsOf(here) : position[p].rank = position[cur].rank + 1}
<1> DEFINE inside == IF CurrentLive(e) THEN ups ELSE EntryOf(here)
<1>6. CASE inside # {}
  <2>1. PICK p \in inside : seat = <<here, p>>
    BY <1>2, <1>3, <1>6 DEF NextTarget
  <2>2. p \in PositionsOf(here)
    BY DEF EntryOf
  <2>3. p \in Positions /\ position[p].dept = here
    BY <1>1, <2>2 DEF PositionsOf, RowsOf, StructureInd, StructureTypeOK
  <2>4. seat[2] = p /\ p # Nowhere
    BY <2>1, <2>3, StructureAssumption
  <2>5. CASE CurrentLive(e)
    <3>1. position[p].rank = position[cur].rank + 1
      BY <2>5
    <3>2. QED
      BY <1>2, <2>3, <2>4, <2>5, <3>1 DEF PositionAdjacent
  <2>6. CASE ~ CurrentLive(e)
    <3>1. position[p].rank = 1
      BY <1>1, <1>4, <2>6, EntryFirst
    <3>2. QED
      BY <1>2, <2>3, <2>4, <2>6, <3>1 DEF PositionAdjacent
  <2>7. QED
    BY <2>5, <2>6
<1>7. CASE inside = {}
  <2>1. IF CurrentLive(e) THEN AtTop(e) ELSE PositionsOf(here) = {}
    <3>1. CASE CurrentLive(e)
      BY <1>1, <1>2, <1>7, <3>1, NothingAbove
    <3>2. CASE ~ CurrentLive(e)
      BY <1>1, <1>4, <1>7, <3>2, EntryFirst
    <3>3. QED
      BY <3>1, <3>2
  <2>2. /\ up # Top
        /\ IF PositionsOf(up) = {} THEN seat = <<up, Nowhere>>
           ELSE \E p \in EntryOf(up) : seat = <<up, p>>
    BY <1>2, <1>3, <1>7 DEF NextTarget
  <2>3. CASE PositionsOf(up) = {}
    <3>1. seat[1] = up /\ seat[2] = Nowhere
      BY <2>2, <2>3
    <3>2. DepartmentAdjacent(e, up)
      BY <1>2, <1>5, <2>1, <2>2 DEF DepartmentAdjacent
    <3>3. QED
      BY <3>1, <3>2
  <2>4. CASE PositionsOf(up) # {}
    <3>1. PICK p \in EntryOf(up) : seat = <<up, p>>
      BY <2>2, <2>4
    <3>2. position[p].rank = 1 /\ p \in LivePositions /\ position[p].dept = up
      BY <1>1, <1>5, EntryFirst
    <3>3. seat[2] = p /\ p # Nowhere
      BY <3>1, <3>2, StructureAssumption DEF LivePositions
    <3>4. QED
      BY <1>2, <1>5, <2>1, <3>2, <3>3 DEF PositionAdjacent
  <2>5. QED
    BY <2>3, <2>4
<1>8. QED
  BY <1>6, <1>7

-----------------------------------------------------------------------------
\* At first there is the system department alone, and nobody works.
LEMMA StructureInitInd == StructureInit => StructureInd
<1> SUFFICES ASSUME StructureInit PROVE StructureInd
  OBVIOUS
<1> USE DEF StructureInit
<1>1. StructureTypeOK
  <2>1. dept \in [AnyDept -> StoreDepartment]
    BY DEF StoreDepartment, RowState, AnyDept
  <2>2. Cardinality(Positions) \in Nat /\ Cardinality(Skills) \in Nat /\ MaxChanges \in Nat
    BY StructureAssumption, FS_CardinalityType
  <2>3. position \in [Positions -> StoreRole] /\ skill \in [Skills -> StoreSkill]
    BY <2>2 DEF StoreRole, StoreSkill, RowState
  <2>4. person \in [Employees -> [state : {"away", "works", "left", "returning"},
                                  dept : AnyDept \cup {Nowhere},
                                  pos : Positions \cup {Nowhere}, learnt : SUBSET Skills]]
    OBVIOUS
  <2>5. changes \in 0 .. MaxChanges
    BY <2>2
  <2>6. overtaken \in BOOLEAN
    OBVIOUS
  <2>7. QED
    BY <2>1, <2>3, <2>4, <2>5, <2>6 DEF StructureTypeOK
<1>2. LivePositions = {} /\ LiveSkills = {} /\ Employed = {} /\ LiveDepts \subseteq {Top}
  BY DEF LivePositions, LiveSkills, Employed, LiveDepts
<1>3. RanksAreDense
  <2>1. \A d : RowsOf(position, d) = {} /\ RowsOf(skill, d) = {}
    BY DEF RowsOf
  <2>2. \A q : {q[x].rank : x \in {}} = 1 .. Cardinality({})
    BY FS_EmptySet
  <2>3. QED
    BY <2>1, <2>2 DEF RanksAreDense, Dense
<1>4. TreeIsSound /\ PositionsHavePlaces /\ SkillsHavePlaces /\ PlacesExist
  BY <1>2 DEF TreeIsSound, PositionsHavePlaces, SkillsHavePlaces, PlacesExist
<1>5. QED
  BY <1>1, <1>3, <1>4 DEF StructureInd

\* Every edit and every step of a person keeps the structure sound.
LEMMA StructureStep == StructureInd /\ [StructureNext]_structureVars => StructureInd'
<1> SUFFICES ASSUME StructureInd, [StructureNext]_structureVars PROVE StructureInd'
  OBVIOUS
<1>0. 1..(Cardinality(Positions) + 1) \subseteq Nat \ {0}
      /\ 1..(Cardinality(Skills) + 1) \subseteq Nat \ {0}
  BY StructureAssumption, FS_CardinalityType
<1>1. ASSUME NEW d \in Departments, NEW up \in AnyDept, NEW tier \in 2..4,
             CreateDepartment(d, up, tier)
      PROVE  StructureInd'
  BY <1>1, CreateDepartmentKeeps
<1>2. ASSUME NEW d \in AnyDept, NEW up \in AnyDept \cup {Nowhere}, NEW tier \in 1..4,
             UpdateDepartment(d, up, tier)
      PROVE  StructureInd'
  BY <1>2, UpdateDepartmentKeeps
<1>3. ASSUME NEW d \in Departments, DeleteDepartment(d) PROVE StructureInd'
  BY <1>3, DeleteDepartmentKeeps
<1>4. ASSUME NEW d \in Departments, NEW c \in Departments, DuplicateDepartment(d, c)
      PROVE  StructureInd'
  BY <1>4, DuplicateDepartmentKeeps
<1>5. ASSUME NEW p \in Positions, NEW d \in Departments, NEW at \in 1..(Cardinality(Positions) + 1),
             CreatePosition(p, d, at) \/ UpdatePosition(p, d, at)
      PROVE  StructureInd'
  BY <1>0, <1>5, CreatePositionKeeps, UpdatePositionKeeps
<1>6. ASSUME NEW p \in Positions, DeletePosition(p) PROVE StructureInd'
  BY <1>6, DeletePositionKeeps
<1>7. ASSUME NEW k \in Skills, NEW d \in Departments, NEW p \in Positions \cup {Nowhere},
             NEW at \in 1..(Cardinality(Skills) + 1),
             CreateSkill(k, d, p, at) \/ UpdateSkill(k, d, p, at)
      PROVE  StructureInd'
  BY <1>0, <1>7, CreateSkillKeeps, UpdateSkillKeeps
<1>8. ASSUME NEW k \in Skills, DeleteSkill(k) PROVE StructureInd'
  BY <1>8, DeleteSkillKeeps
<1>9. ASSUME NEW e \in Employees, Hire(e) \/ Transfer(e) \/ Promote(e) \/ Leave(e)
                                   \/ RestoreEmployee(e) \/ SaveRestored(e)
      PROVE  StructureInd'
  BY <1>9, HireKeeps, TransferKeeps, PromoteKeeps, LeaveKeeps, RestoreKeeps, SaveRestoredKeeps
<1>10. ASSUME NEW e \in Employees, NEW k \in Skills, Achieve(e, k) PROVE StructureInd'
  BY <1>10, AchieveKeeps
<1>11. ASSUME UNCHANGED structureVars PROVE StructureInd'
  <2>1. /\ dept' = dept /\ position' = position /\ skill' = skill /\ person' = person
        /\ changes' = changes /\ overtaken' = overtaken
    BY <1>11 DEF structureVars
  <2>2. StructureTypeOK' /\ TreeIsSound'
    BY <2>1 DEF StructureInd, StructureTypeOK, TreeIsSound, LiveDepts
  <2>3. RanksAreDense'
    BY <2>1 DEF StructureInd, RanksAreDense, Dense, LiveDepts
  <2>4. PositionsHavePlaces' /\ SkillsHavePlaces'
    BY <2>1 DEF StructureInd, PositionsHavePlaces, SkillsHavePlaces, LiveDepts, LivePositions, LiveSkills
  <2>5. PlacesExist'
    BY <2>1 DEF StructureInd, PlacesExist, InLivePlace, LiveDepts, LivePositions, Employed
  <2>6. QED
    BY <2>2, <2>3, <2>4, <2>5 DEF StructureInd
<1>12. QED
  BY <1>1, <1>2, <1>3, <1>4, <1>5, <1>6, <1>7, <1>8, <1>9, <1>10, <1>11 DEF StructureNext

(***************************************************************************)
(* The career structure keeps its promise, for every store: a sound tree,  *)
(* dense ranks, skills and people in places that exist, and a next step    *)
(* that promote accepts without force (career-structure.service.ts,        *)
(* career-progress.service.ts).                                            *)
(***************************************************************************)
THEOREM StructureKept == StructureSpec => []CareerStructurePromise
<1>1. StructureInd => CareerStructurePromise
  BY OfferHolds DEF CareerStructurePromise
<1>2. QED
  BY <1>1, StructureInitInd, StructureStep, PTL DEF StructureSpec

-----------------------------------------------------------------------------
(* Kpi.  What is inductive: an edit that nothing overtook since its check  *)
(* is still of the task as it is.                                          *)

\* The rate of a task fits its column, and no progress is no rate.
LEMMA RateFits ==
  ASSUME NEW a \in Int, NEW t \in Int
  PROVE  /\ KpiCompletionRate(a, t) \in Int
         /\ KpiCompletionRate(a, t) \in -KpiRateMax .. KpiRateMax
         /\ KpiCompletionRate(0, t) = 0
<1>1. CASE t <= 0
  BY <1>1 DEF KpiCompletionRate, KpiRateMax
<1>2. CASE t > 0
  <2>1. (100 * a) \div t \in Int
    BY <1>2
  <2>2. (100 * 0) \div t = 0
    BY <1>2
  <2> QED
    BY <1>2, <2>1, <2>2 DEF KpiCompletionRate, KpiRateMax
<1> QED
  BY <1>1, <1>2

\* What a desk carries.
LEMMA KpiDeskTyped ==
  ASSUME KpiTypeOK, NEW w \in KpiDesks
  PROVE  /\ kpiDesk[w] \in KpiDeskState
         /\ kpiDesk[w].at \in {"save", "drop"} =>
              /\ kpiDesk[w].id \in Tasks /\ kpiDesk[w].row \in KpiTask
              /\ kpiDesk[w].owner \in BOOLEAN /\ kpiDesk[w].row.sheet \in Sheets
         /\ kpiDesk[w].at \in {"set", "remove", "paste"} => kpiDesk[w].id \in Sheets
         /\ kpiDesk[w].at = "set" => kpiDesk[w].row \in EmployeeKpi
         /\ kpiDesk[w].at \in {"copy", "paste"} =>
              /\ kpiDesk[w].rows \in [Tasks -> KpiTask \cup {NoKpi}]
              /\ kpiDesk[w].owner \in BOOLEAN
         /\ kpiDesk[w].at = "decide" =>
              kpiDesk[w].id \in KpiAsks /\ kpiDesk[w].status \in {"APPROVED", "REJECTED"}
<1>1. kpiDesk[w] \in KpiDeskState
  BY DEF KpiTypeOK
<1> QED
  BY <1>1 DEF KpiDeskState, KpiTask

\* The rows of the tables.
LEMMA KpiRowsTyped ==
  ASSUME KpiTypeOK
  PROVE  /\ \A t \in Tasks : kpiTasks[t] # NoKpi =>
              /\ kpiTasks[t] \in KpiTask /\ kpiTasks[t].sheet \in Sheets
              /\ kpiTasks[t].actual \in Int /\ kpiTasks[t].target \in Int
         /\ \A k \in Sheets : sheets[k] # NoKpi =>
              /\ sheets[k] \in EmployeeKpi /\ sheets[k].own \in BOOLEAN
              /\ sheets[k].status \in KpiStatus
         /\ \A r \in KpiAsks : kpiAsks[r] # NoKpi =>
              /\ kpiAsks[r] \in KpiApprovalRequest /\ kpiAsks[r].sheet \in Sheets
         /\ NoKpi \notin EmployeeKpi /\ NoKpi \notin KpiTask
         /\ NoKpi \notin KpiApprovalRequest
<1>1. \A t \in Tasks : kpiTasks[t] # NoKpi =>
        /\ kpiTasks[t] \in KpiTask /\ kpiTasks[t].sheet \in Sheets
        /\ kpiTasks[t].actual \in Int /\ kpiTasks[t].target \in Int
  BY KpiAssumption DEF KpiTypeOK, KpiTask
<1>2. \A k \in Sheets : sheets[k] # NoKpi =>
        /\ sheets[k] \in EmployeeKpi /\ sheets[k].own \in BOOLEAN
        /\ sheets[k].status \in KpiStatus
  BY DEF KpiTypeOK, EmployeeKpi
<1>3. \A r \in KpiAsks : kpiAsks[r] # NoKpi =>
        /\ kpiAsks[r] \in KpiApprovalRequest /\ kpiAsks[r].sheet \in Sheets
  BY DEF KpiTypeOK, KpiApprovalRequest
<1> QED
  BY <1>1, <1>2, <1>3, KpiAssumption

\* A task of a sheet, new or with other progress or hidden, is a task.
LEMMA TaskRows ==
  /\ \A k \in Sheets, target \in KpiTargets, actual \in KpiActuals :
       NewTask(k, target, actual) \in KpiTask /\ RateMatches(NewTask(k, target, actual))
       /\ NewTask(k, target, actual).sheet = k
  /\ \A row \in KpiTask : \A rate \in Int, actual \in KpiActuals, k \in Sheets :
       /\ [row EXCEPT !.actual = actual, !.rate = rate] \in KpiTask
       /\ [row EXCEPT !.hidden = TRUE] \in KpiTask
       /\ [row EXCEPT !.sheet = k, !.actual = 0, !.rate = 0] \in KpiTask
       /\ [row EXCEPT !.sheet = k, !.actual = 0, !.rate = 0].sheet = k
       /\ RateMatches([row EXCEPT !.sheet = k, !.actual = 0, !.rate = 0])
       /\ RateMatches(row) => RateMatches([row EXCEPT !.hidden = TRUE])
       /\ TermsOf([row EXCEPT !.actual = actual, !.rate = rate]) = TermsOf(row)
  /\ \A row \in KpiTask, actual \in KpiActuals : RateMatches(row) =>
       RateMatches([row EXCEPT !.actual = actual,
                      !.rate = IF row.target > 0 THEN KpiCompletionRate(actual, row.target)
                               ELSE @])
<1>1. \A t \in KpiTargets, a \in KpiActuals :
        /\ t \in Int /\ a \in Int /\ KpiCompletionRate(a, t) \in Int
        /\ KpiCompletionRate(a, t) \in -KpiRateMax .. KpiRateMax
        /\ KpiCompletionRate(0, t) = 0
        /\ t <= 0 => KpiCompletionRate(a, t) = 0
  BY RateFits, KpiAssumption DEF KpiCompletionRate
<1>2. 0 \in KpiActuals /\ 0 \in -KpiRateMax .. KpiRateMax
  BY KpiAssumption DEF KpiRateMax
<1>3. ASSUME NEW k \in Sheets, NEW target \in KpiTargets, NEW actual \in KpiActuals
      PROVE  NewTask(k, target, actual) \in KpiTask /\ RateMatches(NewTask(k, target, actual))
             /\ NewTask(k, target, actual).sheet = k
  BY <1>1 DEF NewTask, KpiTask, RateMatches
<1>4. ASSUME NEW row \in KpiTask, NEW rate \in Int, NEW actual \in KpiActuals, NEW k \in Sheets
      PROVE  /\ [row EXCEPT !.actual = actual, !.rate = rate] \in KpiTask
             /\ [row EXCEPT !.hidden = TRUE] \in KpiTask
             /\ [row EXCEPT !.sheet = k, !.actual = 0, !.rate = 0] \in KpiTask
             /\ [row EXCEPT !.sheet = k, !.actual = 0, !.rate = 0].sheet = k
             /\ RateMatches([row EXCEPT !.sheet = k, !.actual = 0, !.rate = 0])
             /\ RateMatches(row) => RateMatches([row EXCEPT !.hidden = TRUE])
             /\ TermsOf([row EXCEPT !.actual = actual, !.rate = rate]) = TermsOf(row)
  BY <1>1, <1>2 DEF KpiTask, RateMatches, TermsOf
<1>5. ASSUME NEW row \in KpiTask, NEW actual \in KpiActuals, RateMatches(row)
      PROVE  RateMatches([row EXCEPT !.actual = actual,
                            !.rate = IF row.target > 0 THEN KpiCompletionRate(actual, row.target)
                                     ELSE @])
  <2>1. row.target \in KpiTargets /\ row.actual \in KpiActuals
    BY DEF KpiTask
  <2>2. CASE row.target > 0
    BY <1>1, <2>1, <2>2 DEF KpiTask, RateMatches
  <2>3. CASE ~(row.target > 0)
    <3>1. row.target <= 0
      BY <1>1, <2>1, <2>3
    <3>2. row.rate = 0 /\ KpiCompletionRate(actual, row.target) = 0
      BY <1>1, <1>5, <2>1, <3>1 DEF RateMatches
    <3> QED
      BY <1>2, <2>3, <3>2 DEF KpiTask, RateMatches
  <2> QED
    BY <2>2, <2>3
<1> QED
  BY <1>3, <1>4, <1>5

\* What a step must show: no sheet and no request goes, whatever is in the tables
\* is sound, and a desk is idle, is as it was or carries what is sound.
LEMMA KpiKept ==
  ASSUME KpiInd, KpiTypeOK', AppliesWhenApproved',
         \A k \in Sheets : sheets[k] # NoKpi => sheets'[k] # NoKpi,
         \A r \in KpiAsks : kpiAsks[r] # NoKpi => kpiAsks'[r] # NoKpi,
         \A r \in KpiAsks : kpiAsks'[r] # NoKpi => sheets'[kpiAsks'[r].sheet] # NoKpi,
         \A t \in Tasks : kpiTasks'[t] # NoKpi =>
           RateMatches(kpiTasks'[t]) /\ sheets'[kpiTasks'[t].sheet] # NoKpi,
         \A w \in KpiDesks :
           \/ kpiDesk'[w] = IdleKpiDesk
           \/ DeskRelies(kpiDesk[w])' /\ EditKeeps(kpiDesk[w])'
           \/ /\ kpiDesk'[w] = kpiDesk[w]
              /\ w \notin kpiCrossed' =>
                   /\ w \notin kpiCrossed
                   /\ kpiDesk[w].at \in {"save", "drop"} =>
                        /\ kpiTasks'[kpiDesk[w].id] = kpiTasks[kpiDesk[w].id]
                        /\ sheets'[kpiDesk[w].row.sheet].status
                             = sheets[kpiDesk[w].row.sheet].status
  PROVE  KpiInd'
<1> USE DEF KpiInd
<1>1. RatesMatchProgress'
  BY DEF RatesMatchProgress, LiveTasks, RateMatches
<1>2. ASSUME NEW w \in KpiDesks
      PROVE  DeskRelies(kpiDesk[w])'
  <2>1. CASE kpiDesk'[w] = IdleKpiDesk
    BY <2>1 DEF IdleKpiDesk, DeskRelies
  <2>2. CASE kpiDesk'[w] = kpiDesk[w]
    <3>1. DeskRelies(kpiDesk[w])
      BY DEF KpiRowsInHand
    <3> QED
      BY <2>2, <3>1, KpiDeskTyped DEF DeskRelies, RateMatches
  <2> QED
    BY <2>1, <2>2
<1>3. KpiRowsInHand'
  BY <1>2 DEF KpiRowsInHand, LiveTasks
<1>4. ASSUME NEW w \in KpiDesks, w \notin kpiCrossed'
      PROVE  EditKeeps(kpiDesk[w])'
  <2>1. CASE kpiDesk'[w] = IdleKpiDesk
    BY <2>1 DEF IdleKpiDesk, EditKeeps
  <2>2. CASE /\ kpiDesk'[w] = kpiDesk[w] /\ w \notin kpiCrossed
             /\ kpiDesk[w].at \in {"save", "drop"} =>
                  /\ kpiTasks'[kpiDesk[w].id] = kpiTasks[kpiDesk[w].id]
                  /\ sheets'[kpiDesk[w].row.sheet].status = sheets[kpiDesk[w].row.sheet].status
    <3>1. EditKeeps(kpiDesk[w])
      BY <2>2 DEF EditsKeepTerms
    <3> QED
      BY <2>2, <3>1 DEF EditKeeps
  <2> QED
    BY <1>4, <2>1, <2>2
<1>5. EditsKeepTerms'
  BY <1>4 DEF EditsKeepTerms
<1> QED
  BY <1>1, <1>3, <1>5

\* A request begins: it has a desk, and what it carries is sound.
LEMMA KpiBegins ==
  ASSUME KpiInd, NEW w \in KpiDesks, NEW o \in KpiDeskState, KpiBegin(w, o),
         DeskRelies(o), EditKeeps(o)
  PROVE  KpiInd'
<1>1. /\ sheets' = sheets /\ kpiTasks' = kpiTasks /\ kpiAsks' = kpiAsks
      /\ kpiStaff' = kpiStaff /\ kpiCrossed' = kpiCrossed \ {w}
      /\ kpiDesk' = [kpiDesk EXCEPT ![w] = o]
  BY DEF KpiBegin
<1>2. KpiTypeOK'
  BY <1>1 DEF KpiInd, KpiTypeOK
<1>3. AppliesWhenApproved'
  BY <1>1 DEF KpiInd, AppliesWhenApproved, PendingAsks
<1>4. kpiDesk'[w] = o /\ \A v \in KpiDesks : v # w => kpiDesk'[v] = kpiDesk[v]
  BY <1>1 DEF KpiInd, KpiTypeOK
<1>5. DeskRelies(kpiDesk[w])' /\ EditKeeps(kpiDesk[w])'
  BY <1>1, <1>4 DEF DeskRelies, EditKeeps, RateMatches, TermsOf
<1>6. \A t \in Tasks : kpiTasks'[t] # NoKpi =>
        RateMatches(kpiTasks'[t]) /\ sheets'[kpiTasks'[t].sheet] # NoKpi
  BY <1>1 DEF KpiInd, RatesMatchProgress, KpiRowsInHand, LiveTasks, RateMatches
<1>7. \A r \in KpiAsks : kpiAsks'[r] # NoKpi => sheets'[kpiAsks'[r].sheet] # NoKpi
  BY <1>1 DEF KpiInd, KpiRowsInHand
<1> QED
  BY <1>1, <1>2, <1>3, <1>4, <1>5, <1>6, <1>7, KpiKept

\* The requests that check first and write later begin soundly.
LEMMA CreateKpiTaskKeeps ==
  ASSUME KpiInd, NEW w \in KpiDesks, NEW k \in Sheets, NEW t \in Tasks,
         NEW target \in KpiTargets, NEW actual \in KpiActuals, NEW owner \in BOOLEAN,
         CreateKpiTask(w, k, t, target, actual, owner)
  PROVE  KpiInd'
<1> DEFINE o == [at |-> "save", id |-> t, row |-> NewTask(k, target, actual), owner |-> owner]
<1>1. sheets[k] # NoKpi /\ kpiTasks[t] = NoKpi /\ KpiBegin(w, o)
  BY DEF CreateKpiTask, KpiWriteAccess, LiveSheets
<1>2. o.row \in KpiTask /\ RateMatches(o.row) /\ o.row.sheet = k
  BY TaskRows
<1>3. o \in KpiDeskState
  BY <1>2 DEF KpiDeskState
<1>4. DeskRelies(o) /\ EditKeeps(o)
  BY <1>1, <1>2 DEF DeskRelies, EditKeeps
<1> HIDE DEF o
<1> QED
  BY <1>1, <1>3, <1>4, KpiBegins

LEMMA UpdateKpiTaskKeeps ==
  ASSUME KpiInd, NEW w \in KpiDesks, NEW t \in Tasks, NEW actual \in KpiActuals,
         NEW owner \in BOOLEAN, UpdateKpiTaskProgress(w, t, actual, owner)
  PROVE  KpiInd'
<1> DEFINE row == kpiTasks[t]
           rate == IF row.target > 0 THEN KpiCompletionRate(actual, row.target) ELSE row.rate
           new == [row EXCEPT !.actual = actual, !.rate = rate]
           o == [at |-> "save", id |-> t, owner |-> owner, row |-> new]
<1>1. row # NoKpi /\ KpiBegin(w, o)
  BY DEF UpdateKpiTaskProgress
<1>2. row \in KpiTask /\ RateMatches(row) /\ row.sheet \in Sheets /\ sheets[row.sheet] # NoKpi
      /\ row.target \in Int /\ actual \in Int /\ row.rate \in Int
  BY <1>1, KpiRowsTyped, KpiAssumption
     DEF KpiInd, RatesMatchProgress, KpiRowsInHand, LiveTasks, KpiTask
<1>3. rate \in Int
  BY <1>2, RateFits
<1>4. RateMatches(new)
  BY <1>2, TaskRows
<1>5. new \in KpiTask /\ TermsOf(new) = TermsOf(row)
  BY <1>2, <1>3, TaskRows, ZenonT(30)
<1>6. new.sheet = row.sheet
  BY <1>2 DEF KpiTask
<1> HIDE DEF new, row, rate
<1>7. o \in KpiDeskState
  BY <1>5 DEF KpiDeskState
<1>8. DeskRelies(o) /\ EditKeeps(o)
  BY <1>1, <1>2, <1>4, <1>5, <1>6 DEF DeskRelies, EditKeeps, row
<1> HIDE DEF o
<1> QED
  BY <1>1, <1>7, <1>8, KpiBegins

LEMMA HideKpiTaskKeeps ==
  ASSUME KpiInd, NEW w \in KpiDesks, NEW t \in Tasks, NEW owner \in BOOLEAN,
         HideKpiTask(w, t, owner)
  PROVE  KpiInd'
<1> DEFINE row == kpiTasks[t]
           new == [row EXCEPT !.hidden = TRUE]
           o == [at |-> "save", id |-> t, owner |-> owner, row |-> new]
<1>1. row # NoKpi /\ KpiBegin(w, o) /\ (owner \/ sheets[row.sheet].status = "DRAFT")
  BY DEF HideKpiTask, KpiWriteAccess
<1>2. row \in KpiTask /\ RateMatches(row) /\ row.sheet \in Sheets /\ sheets[row.sheet] # NoKpi
  BY <1>1, KpiRowsTyped DEF KpiInd, RatesMatchProgress, KpiRowsInHand, LiveTasks
<1>3. new \in KpiTask /\ RateMatches(new)
  BY <1>2, TaskRows, KpiAssumption
<1>4. new.sheet = row.sheet
  BY <1>2 DEF KpiTask
<1> HIDE DEF new, row
<1>5. o \in KpiDeskState
  BY <1>3 DEF KpiDeskState
<1>6. DeskRelies(o) /\ EditKeeps(o)
  BY <1>1, <1>2, <1>3, <1>4 DEF DeskRelies, EditKeeps, row
<1> HIDE DEF o
<1> QED
  BY <1>1, <1>5, <1>6, KpiBegins

LEMMA DeleteKpiTaskKeeps ==
  ASSUME KpiInd, NEW w \in KpiDesks, NEW t \in Tasks, NEW owner \in BOOLEAN,
         DeleteKpiTask(w, t, owner)
  PROVE  KpiInd'
<1> DEFINE row == kpiTasks[t]
           o == [at |-> "drop", id |-> t, row |-> row, owner |-> owner]
<1>1. row # NoKpi /\ KpiBegin(w, o) /\ (owner \/ sheets[row.sheet].status = "DRAFT")
  BY DEF DeleteKpiTask, KpiWriteAccess
<1>2. row \in KpiTask /\ RateMatches(row) /\ row.sheet \in Sheets /\ sheets[row.sheet] # NoKpi
  BY <1>1, KpiRowsTyped DEF KpiInd, RatesMatchProgress, KpiRowsInHand, LiveTasks
<1> HIDE DEF row
<1>3. o \in KpiDeskState
  BY <1>2 DEF KpiDeskState
<1>4. DeskRelies(o) /\ EditKeeps(o)
  BY <1>1, <1>2 DEF DeskRelies, EditKeeps, row
<1> HIDE DEF o
<1> QED
  BY <1>1, <1>3, <1>4, KpiBegins

LEMMA SheetRequestsKeep ==
  ASSUME KpiInd, NEW w \in KpiDesks
  PROVE  /\ \A k \in Sheets, owner \in BOOLEAN : DeleteEmployeeKpi(w, k, owner) => KpiInd'
         /\ \A k \in Sheets, status \in KpiChoices :
              UpdateEmployeeKpiStatus(w, k, status) => KpiInd'
         /\ \A r \in KpiAsks, status \in {"APPROVED", "REJECTED"} :
              HandleKpiApprovalRequest(w, r, status) => KpiInd'
<1>1. ASSUME NEW k \in Sheets, NEW owner \in BOOLEAN, DeleteEmployeeKpi(w, k, owner)
      PROVE  KpiInd'
  <2> DEFINE o == [at |-> "remove", id |-> k, owner |-> owner]
  <2>1. sheets[k] # NoKpi /\ KpiBegin(w, o)
    BY <1>1 DEF DeleteEmployeeKpi, KpiWriteAccess, LiveSheets
  <2>2. o \in KpiDeskState /\ DeskRelies(o) /\ EditKeeps(o)
    BY <2>1 DEF KpiDeskState, DeskRelies, EditKeeps
  <2> HIDE DEF o
  <2> QED
    BY <2>1, <2>2, KpiBegins
<1>2. ASSUME NEW k \in Sheets, NEW status \in KpiChoices, UpdateEmployeeKpiStatus(w, k, status)
      PROVE  KpiInd'
  <2> DEFINE row == [sheets[k] EXCEPT !.status = status, !.own = FALSE]
             o == [at |-> "set", id |-> k, owner |-> TRUE, row |-> row]
  <2>1. sheets[k] # NoKpi /\ KpiBegin(w, o)
    BY <1>2 DEF UpdateEmployeeKpiStatus, LiveSheets
  <2>2. row \in EmployeeKpi /\ ~row.own
    BY <2>1, KpiRowsTyped, KpiAssumption DEF KpiInd, EmployeeKpi
  <2> HIDE DEF row
  <2>3. o \in KpiDeskState /\ DeskRelies(o) /\ EditKeeps(o)
    BY <2>1, <2>2 DEF KpiDeskState, DeskRelies, EditKeeps
  <2> HIDE DEF o
  <2> QED
    BY <2>1, <2>3, KpiBegins
<1>3. ASSUME NEW r \in KpiAsks, NEW status \in {"APPROVED", "REJECTED"},
             HandleKpiApprovalRequest(w, r, status)
      PROVE  KpiInd'
  <2> DEFINE o == [at |-> "decide", id |-> r, status |-> status, owner |-> TRUE]
  <2>1. kpiAsks[r] # NoKpi /\ KpiBegin(w, o)
    BY <1>3 DEF HandleKpiApprovalRequest
  <2>2. o \in KpiDeskState /\ DeskRelies(o) /\ EditKeeps(o)
    BY <2>1 DEF KpiDeskState, DeskRelies, EditKeeps
  <2> HIDE DEF o
  <2> QED
    BY <2>1, <2>2, KpiBegins
<1> QED
  BY <1>1, <1>2, <1>3

\* A write of a task overtakes the other edits of it.
LEMMA TaskWritesKeep ==
  ASSUME KpiInd, NEW w \in KpiDesks, SaveKpiTask(w) \/ DropKpiTask(w)
  PROVE  KpiInd'
<1> DEFINE t == kpiDesk[w].id
<1>1. /\ kpiDesk[w].at \in {"save", "drop"} /\ sheets' = sheets /\ kpiAsks' = kpiAsks
      /\ kpiDesk' = [kpiDesk EXCEPT ![w] = IdleKpiDesk] /\ kpiStaff' = kpiStaff
      /\ kpiCrossed' = kpiCrossed \cup EditsOf(t)
      /\ \/ kpiTasks' = [kpiTasks EXCEPT ![t] = kpiDesk[w].row]
         \/ kpiTasks' = [kpiTasks EXCEPT ![t] = NoKpi]
  BY DEF SaveKpiTask, DropKpiTask, KpiEnd
<1>2. t \in Tasks /\ kpiDesk[w].row \in KpiTask
  BY <1>1, KpiDeskTyped DEF KpiInd
<1>3. RateMatches(kpiDesk[w].row) /\ sheets[kpiDesk[w].row.sheet] # NoKpi
  BY <1>1 DEF KpiInd, KpiRowsInHand, DeskRelies
<1>4. \A s \in Tasks : kpiTasks'[s] = kpiTasks[s] \/ s = t
  BY <1>1, <1>2 DEF KpiInd, KpiTypeOK
<1>5. kpiTasks'[t] \in {kpiDesk[w].row, NoKpi}
  BY <1>1, <1>2 DEF KpiInd, KpiTypeOK
<1>6. IdleKpiDesk \in KpiDeskState /\ EditsOf(t) \subseteq KpiDesks
  BY DEF IdleKpiDesk, KpiDeskState, EditsOf
<1>7. KpiTypeOK'
  BY <1>1, <1>2, <1>6 DEF KpiInd, KpiTypeOK
<1>8. AppliesWhenApproved'
  BY <1>1 DEF KpiInd, AppliesWhenApproved, PendingAsks
<1>9. ASSUME NEW s \in Tasks, kpiTasks'[s] # NoKpi
      PROVE  RateMatches(kpiTasks'[s]) /\ sheets'[kpiTasks'[s].sheet] # NoKpi
  <2>1. CASE s = t
    BY <1>1, <1>3, <1>5, <1>9, <2>1
  <2>2. CASE kpiTasks'[s] = kpiTasks[s]
    BY <1>1, <1>9, <2>2 DEF KpiInd, RatesMatchProgress, KpiRowsInHand, LiveTasks
  <2> QED
    BY <1>4, <2>1, <2>2
<1>10. ASSUME NEW v \in KpiDesks
       PROVE  \/ kpiDesk'[v] = IdleKpiDesk
              \/ /\ kpiDesk'[v] = kpiDesk[v]
                 /\ v \notin kpiCrossed' =>
                      /\ v \notin kpiCrossed
                      /\ kpiDesk[v].at \in {"save", "drop"} =>
                           /\ kpiTasks'[kpiDesk[v].id] = kpiTasks[kpiDesk[v].id]
                           /\ sheets'[kpiDesk[v].row.sheet].status
                                = sheets[kpiDesk[v].row.sheet].status
  <2>1. v # w => kpiDesk'[v] = kpiDesk[v]
    BY <1>1 DEF KpiInd, KpiTypeOK
  <2>2. kpiDesk'[w] = IdleKpiDesk
    BY <1>1 DEF KpiInd, KpiTypeOK
  <2>3. kpiDesk[v].at \in {"save", "drop"} => kpiDesk[v].id \in Tasks
    BY KpiDeskTyped DEF KpiInd
  <2>4. v \notin kpiCrossed' /\ kpiDesk[v].at \in {"save", "drop"} => kpiDesk[v].id # t
    BY <1>1 DEF EditsOf
  <2> QED
    BY <1>1, <1>4, <2>1, <2>2, <2>3, <2>4
<1>11. \A r \in KpiAsks : kpiAsks'[r] # NoKpi => sheets'[kpiAsks'[r].sheet] # NoKpi
  BY <1>1 DEF KpiInd, KpiRowsInHand
<1> QED
  BY <1>1, <1>7, <1>8, <1>9, <1>10, <1>11, KpiKept

\* A write of a sheet that is there overtakes the edits of its tasks, unless it
\* leaves the status alone.
LEMMA SheetWrite ==
  ASSUME KpiInd, NEW k \in Sheets, NEW w \in KpiDesks, NEW row \in EmployeeKpi,
         sheets[k] # NoKpi, sheets' = [sheets EXCEPT ![k] = row],
         kpiDesk' = [kpiDesk EXCEPT ![w] = IdleKpiDesk], kpiTasks' = kpiTasks,
         kpiStaff' = kpiStaff, kpiAsks' \in [KpiAsks -> KpiApprovalRequest \cup {NoKpi}],
         \A r \in KpiAsks : kpiAsks[r] # NoKpi =>
           kpiAsks'[r] # NoKpi /\ kpiAsks'[r].sheet = kpiAsks[r].sheet,
         \A r \in KpiAsks : kpiAsks'[r] # NoKpi => kpiAsks[r] # NoKpi,
         \/ kpiCrossed' = kpiCrossed \cup EditsIn(k)
         \/ kpiCrossed' = kpiCrossed /\ row.status = sheets[k].status,
         AppliesWhenApproved'
  PROVE  KpiInd'
<1>1. row # NoKpi /\ sheets'[k] = row /\ \A j \in Sheets : j # k => sheets'[j] = sheets[j]
  BY KpiAssumption DEF KpiInd, KpiTypeOK
<1>2. IdleKpiDesk \in KpiDeskState /\ EditsIn(k) \subseteq KpiDesks
  BY DEF IdleKpiDesk, KpiDeskState, EditsIn
<1>3. KpiTypeOK'
  BY <1>2 DEF KpiInd, KpiTypeOK
<1>4. \A j \in Sheets : sheets[j] # NoKpi => sheets'[j] # NoKpi
  BY <1>1
<1>5. \A t \in Tasks : kpiTasks[t] # NoKpi =>
        RateMatches(kpiTasks[t]) /\ kpiTasks[t].sheet \in Sheets
        /\ sheets[kpiTasks[t].sheet] # NoKpi
  BY KpiRowsTyped DEF KpiInd, RatesMatchProgress, KpiRowsInHand, LiveTasks
<1>6. \A t \in Tasks : kpiTasks'[t] # NoKpi =>
        RateMatches(kpiTasks'[t]) /\ sheets'[kpiTasks'[t].sheet] # NoKpi
  BY <1>4, <1>5
<1>7. \A r \in KpiAsks : kpiAsks[r] # NoKpi =>
        kpiAsks[r].sheet \in Sheets /\ sheets[kpiAsks[r].sheet] # NoKpi
  BY KpiRowsTyped DEF KpiInd, KpiRowsInHand
<1>8. \A r \in KpiAsks : kpiAsks'[r] # NoKpi => sheets'[kpiAsks'[r].sheet] # NoKpi
  BY <1>4, <1>7
<1>9. ASSUME NEW v \in KpiDesks
      PROVE  \/ kpiDesk'[v] = IdleKpiDesk
             \/ /\ kpiDesk'[v] = kpiDesk[v]
                /\ v \notin kpiCrossed' =>
                     /\ v \notin kpiCrossed
                     /\ kpiDesk[v].at \in {"save", "drop"} =>
                          /\ kpiTasks'[kpiDesk[v].id] = kpiTasks[kpiDesk[v].id]
                          /\ sheets'[kpiDesk[v].row.sheet].status
                               = sheets[kpiDesk[v].row.sheet].status
  <2>1. IF v = w THEN kpiDesk'[v] = IdleKpiDesk ELSE kpiDesk'[v] = kpiDesk[v]
    BY DEF KpiInd, KpiTypeOK
  <2>2. kpiDesk[v].at \in {"save", "drop"} => kpiDesk[v].row.sheet \in Sheets
    BY KpiDeskTyped DEF KpiInd
  <2>3. v \notin kpiCrossed' /\ kpiDesk[v].at \in {"save", "drop"} =>
          sheets'[kpiDesk[v].row.sheet].status = sheets[kpiDesk[v].row.sheet].status
    BY <1>1, <2>2 DEF EditsIn
  <2> QED
    BY <2>1, <2>3
<1> QED
  BY <1>3, <1>4, <1>6, <1>8, <1>9, KpiKept

LEMMA SaveEmployeeKpiKeeps ==
  ASSUME KpiInd, NEW w \in KpiDesks, SaveEmployeeKpi(w)
  PROVE  KpiInd'
<1> DEFINE k == kpiDesk[w].id
           row == kpiDesk[w].row
<1>1. /\ kpiDesk[w].at = "set" /\ sheets' = [sheets EXCEPT ![k] = row]
      /\ kpiCrossed' = kpiCrossed \cup EditsIn(k)
      /\ kpiDesk' = [kpiDesk EXCEPT ![w] = IdleKpiDesk]
      /\ kpiStaff' = kpiStaff /\ kpiTasks' = kpiTasks /\ kpiAsks' = kpiAsks
  BY DEF SaveEmployeeKpi, KpiEnd
<1>2. k \in Sheets /\ row \in EmployeeKpi /\ sheets[k] # NoKpi /\ ~row.own
  BY <1>1, KpiDeskTyped DEF KpiInd, KpiRowsInHand, DeskRelies
<1>3. sheets'[k] = row /\ \A j \in Sheets : j # k => sheets'[j] = sheets[j]
  BY <1>1, <1>2 DEF KpiInd, KpiTypeOK
<1> HIDE DEF k, row
<1>4. AppliesWhenApproved'
  BY <1>1, <1>2, <1>3 DEF KpiInd, AppliesWhenApproved, PendingAsks
<1>5. kpiAsks' \in [KpiAsks -> KpiApprovalRequest \cup {NoKpi}]
  BY <1>1 DEF KpiInd, KpiTypeOK
<1> QED
  BY <1>1, <1>2, <1>4, <1>5, SheetWrite

LEMMA RemoveEmployeeKpiKeeps ==
  ASSUME KpiInd, NEW w \in KpiDesks, RemoveEmployeeKpi(w)
  PROVE  KpiInd'
<1> DEFINE k == kpiDesk[w].id
           row == [sheets[k] EXCEPT !.live = FALSE]
<1>1. /\ kpiDesk[w].at = "remove" /\ sheets' = [sheets EXCEPT ![k] = row]
      /\ kpiCrossed' = kpiCrossed
      /\ kpiDesk' = [kpiDesk EXCEPT ![w] = IdleKpiDesk]
      /\ kpiStaff' = kpiStaff /\ kpiTasks' = kpiTasks /\ kpiAsks' = kpiAsks
  BY DEF RemoveEmployeeKpi, KpiEnd
<1>2. k \in Sheets /\ sheets[k] # NoKpi
  BY <1>1, KpiDeskTyped DEF KpiInd, KpiRowsInHand, DeskRelies
<1>3. row \in EmployeeKpi /\ row.own = sheets[k].own /\ row.status = sheets[k].status
  BY <1>2, KpiRowsTyped DEF KpiInd, EmployeeKpi
<1>4. sheets'[k] = row /\ \A j \in Sheets : j # k => sheets'[j] = sheets[j]
  BY <1>1, <1>2 DEF KpiInd, KpiTypeOK
<1> HIDE DEF k, row
<1>5. AppliesWhenApproved'
  BY <1>1, <1>2, <1>3, <1>4 DEF KpiInd, AppliesWhenApproved, PendingAsks
<1>6. kpiAsks' \in [KpiAsks -> KpiApprovalRequest \cup {NoKpi}]
  BY <1>1 DEF KpiInd, KpiTypeOK
<1> QED
  BY <1>1, <1>2, <1>3, <1>5, <1>6, SheetWrite

\* A decision takes a request out of the pending ones, and decides for one sheet.
LEMMA DecideKpiApprovalKeeps ==
  ASSUME KpiInd, NEW w \in KpiDesks, DecideKpiApproval(w)
  PROVE  KpiInd'
<1> DEFINE r == kpiDesk[w].id
           word == kpiDesk[w].status
           k == kpiAsks[r].sheet
           ask == [kpiAsks[r] EXCEPT !.status = word]
           row == [sheets[k] EXCEPT !.status = IF word = "APPROVED" THEN "ACTIVE" ELSE "DRAFT"]
<1>1. /\ kpiDesk[w].at = "decide" /\ kpiTasks' = kpiTasks /\ kpiStaff' = kpiStaff
      /\ kpiDesk' = [kpiDesk EXCEPT ![w] = IdleKpiDesk]
      /\ \/ /\ kpiAsks[r].status = "PENDING"
            /\ kpiAsks' = [kpiAsks EXCEPT ![r] = ask] /\ sheets' = [sheets EXCEPT ![k] = row]
            /\ kpiCrossed' = kpiCrossed \cup EditsIn(k)
         \/ kpiAsks' = kpiAsks /\ sheets' = sheets /\ kpiCrossed' = kpiCrossed
  BY DEF DecideKpiApproval, KpiEnd
<1>2. r \in KpiAsks /\ word \in {"APPROVED", "REJECTED"} /\ kpiAsks[r] # NoKpi
  BY <1>1, KpiDeskTyped DEF KpiInd, KpiRowsInHand, DeskRelies
<1>3. k \in Sheets /\ sheets[k] # NoKpi /\ kpiAsks[r] \in KpiApprovalRequest
  BY <1>2, KpiRowsTyped DEF KpiInd, KpiRowsInHand
<1>4. ask \in KpiApprovalRequest /\ ask.sheet = k /\ ask.status = word
      /\ ask = [status |-> word, sheet |-> k]
  BY <1>2, <1>3 DEF KpiApprovalRequest
<1>5. row \in EmployeeKpi /\ row.own = sheets[k].own
      /\ (word = "APPROVED" \/ row.status = "DRAFT")
  BY <1>2, <1>3, KpiRowsTyped DEF KpiInd, EmployeeKpi, KpiStatus
<1>6. ask # NoKpi
  BY <1>4, KpiRowsTyped DEF KpiInd
<1> HIDE DEF r, word, k, ask, row
<1>7. CASE /\ kpiAsks[r].status = "PENDING"
           /\ kpiAsks' = [kpiAsks EXCEPT ![r] = ask] /\ sheets' = [sheets EXCEPT ![k] = row]
           /\ kpiCrossed' = kpiCrossed \cup EditsIn(k)
  <2>1. kpiAsks'[r] = ask /\ \A s \in KpiAsks : s # r => kpiAsks'[s] = kpiAsks[s]
    BY <1>2, <1>7 DEF KpiInd, KpiTypeOK
  <2>2. sheets'[k] = row /\ \A j \in Sheets : j # k => sheets'[j] = sheets[j]
    BY <1>3, <1>7 DEF KpiInd, KpiTypeOK
  <2>3. ASSUME NEW j \in Sheets PROVE Cardinality(PendingAsks(j)') <= 1
    <3>1. PendingAsks(j)' \subseteq PendingAsks(j) /\ IsFiniteSet(PendingAsks(j))
      <4>1. PendingAsks(j)' \subseteq PendingAsks(j)
        BY <1>2, <1>4, <2>1 DEF PendingAsks
      <4>2. PendingAsks(j) \subseteq KpiAsks
        BY DEF PendingAsks
      <4> QED
        BY <4>1, <4>2, KpiAssumption, FS_Subset
    <3>2. /\ Cardinality(PendingAsks(j)') <= Cardinality(PendingAsks(j))
          /\ Cardinality(PendingAsks(j)) \in Nat /\ Cardinality(PendingAsks(j)') \in Nat
      BY <3>1, FS_Subset, FS_CardinalityType
    <3>3. Cardinality(PendingAsks(j)) <= 1
      BY DEF KpiInd, AppliesWhenApproved
    <3> QED
      BY <3>2, <3>3
  <2>4. ASSUME NEW j \in Sheets, sheets'[j] # NoKpi, sheets'[j].own, sheets'[j].status # "DRAFT"
        PROVE  \E s \in KpiAsks : kpiAsks'[s] = [status |-> "APPROVED", sheet |-> j]
    <3>1. CASE j = k
      BY <1>2, <1>4, <1>5, <2>1, <2>2, <2>4, <3>1
    <3>2. CASE j # k
      <4>1. PICK s \in KpiAsks : kpiAsks[s] = [status |-> "APPROVED", sheet |-> j]
        BY <2>2, <2>4, <3>2 DEF KpiInd, AppliesWhenApproved
      <4>2. s # r
        BY <1>7, <4>1
      <4> QED
        BY <2>1, <4>1, <4>2
    <3> QED
      BY <3>1, <3>2
  <2>5. AppliesWhenApproved'
    BY <2>3, <2>4 DEF AppliesWhenApproved
  <2>6. /\ kpiAsks' \in [KpiAsks -> KpiApprovalRequest \cup {NoKpi}]
        /\ \A s \in KpiAsks : kpiAsks[s] # NoKpi =>
             kpiAsks'[s] # NoKpi /\ kpiAsks'[s].sheet = kpiAsks[s].sheet
        /\ \A s \in KpiAsks : kpiAsks'[s] # NoKpi => kpiAsks[s] # NoKpi
    <3>1. kpiAsks \in [KpiAsks -> KpiApprovalRequest \cup {NoKpi}]
      BY DEF KpiInd, KpiTypeOK
    <3> QED
      BY <1>2, <1>4, <1>6, <1>7, <2>1, <3>1 DEF k
  <2> QED
    BY <1>1, <1>3, <1>5, <1>7, <2>5, <2>6, SheetWrite
<1>8. CASE kpiAsks' = kpiAsks /\ sheets' = sheets /\ kpiCrossed' = kpiCrossed
  <2>1. sheets[k] \in EmployeeKpi /\ sheets' = [sheets EXCEPT ![k] = sheets[k]]
    BY <1>3, <1>8, KpiRowsTyped DEF KpiInd, KpiTypeOK
  <2>2. AppliesWhenApproved'
    BY <1>8 DEF KpiInd, AppliesWhenApproved, PendingAsks
  <2>3. kpiAsks' \in [KpiAsks -> KpiApprovalRequest \cup {NoKpi}]
    BY <1>8 DEF KpiInd, KpiTypeOK
  <2> QED
    BY <1>1, <1>3, <1>8, <2>1, <2>2, <2>3, SheetWrite
<1> QED
  BY <1>1, <1>7, <1>8

\* A new sheet is a draft unless the owner made it.
LEMMA NewSheetKeeps ==
  ASSUME KpiInd, NEW k \in Sheets, NEW row \in EmployeeKpi, sheets[k] = NoKpi,
         row.own => row.status = "DRAFT", KpiTypeOK',
         sheets' = [sheets EXCEPT ![k] = row], kpiAsks' = kpiAsks, kpiTasks' = kpiTasks,
         kpiCrossed' = kpiCrossed,
         \A w \in KpiDesks : \/ kpiDesk'[w] = kpiDesk[w]
                             \/ kpiDesk'[w].at = "paste" /\ kpiDesk'[w].id = k
  PROVE  KpiInd'
<1>1. row # NoKpi /\ sheets'[k] = row /\ \A j \in Sheets : j # k => sheets'[j] = sheets[j]
  BY KpiAssumption DEF KpiInd, KpiTypeOK
<1>3. AppliesWhenApproved'
  BY <1>1 DEF KpiInd, AppliesWhenApproved, PendingAsks
<1>4. \A j \in Sheets : sheets[j] # NoKpi => sheets'[j] # NoKpi
  BY <1>1
<1>5. \A t \in Tasks : kpiTasks[t] # NoKpi =>
        RateMatches(kpiTasks[t]) /\ kpiTasks[t].sheet \in Sheets
        /\ sheets[kpiTasks[t].sheet] # NoKpi
  BY KpiRowsTyped DEF KpiInd, RatesMatchProgress, KpiRowsInHand, LiveTasks
<1>6. \A t \in Tasks : kpiTasks'[t] # NoKpi =>
        RateMatches(kpiTasks'[t]) /\ sheets'[kpiTasks'[t].sheet] # NoKpi
  BY <1>4, <1>5
<1>7. \A r \in KpiAsks : kpiAsks[r] # NoKpi =>
        kpiAsks[r].sheet \in Sheets /\ sheets[kpiAsks[r].sheet] # NoKpi
  BY KpiRowsTyped DEF KpiInd, KpiRowsInHand
<1>8. ASSUME NEW w \in KpiDesks
      PROVE  \/ DeskRelies(kpiDesk[w])' /\ EditKeeps(kpiDesk[w])'
             \/ /\ kpiDesk'[w] = kpiDesk[w]
                /\ kpiDesk[w].at \in {"save", "drop"} =>
                     /\ kpiTasks'[kpiDesk[w].id] = kpiTasks[kpiDesk[w].id]
                     /\ sheets'[kpiDesk[w].row.sheet] = sheets[kpiDesk[w].row.sheet]
  <2>1. CASE kpiDesk'[w] = kpiDesk[w]
    <3>1. kpiDesk[w].at \in {"save", "drop"} =>
            kpiDesk[w].row.sheet \in Sheets /\ sheets[kpiDesk[w].row.sheet] # NoKpi
      BY KpiDeskTyped DEF KpiInd, KpiRowsInHand, DeskRelies
    <3> QED
      BY <1>1, <2>1, <3>1
  <2>2. CASE kpiDesk'[w].at = "paste" /\ kpiDesk'[w].id = k
    BY <1>1, <2>2 DEF DeskRelies, EditKeeps
  <2> QED
    BY <2>1, <2>2
<1> QED
  BY <1>3, <1>4, <1>6, <1>7, <1>8, KpiKept

LEMMA CreateEmployeeKpiKeeps ==
  ASSUME KpiInd, NEW k \in Sheets, NEW owner \in BOOLEAN, NEW status \in KpiChoices,
         CreateEmployeeKpi(k, owner, status)
  PROVE  KpiInd'
<1> DEFINE row == [status |-> IF owner THEN status ELSE "DRAFT", live |-> TRUE, own |-> ~owner]
<1>1. /\ sheets[k] = NoKpi /\ sheets' = [sheets EXCEPT ![k] = row]
      /\ kpiAsks' = kpiAsks /\ kpiDesk' = kpiDesk /\ kpiStaff' = kpiStaff
      /\ kpiCrossed' = kpiCrossed /\ kpiTasks' = kpiTasks
  BY DEF CreateEmployeeKpi, KpiNow
<1>2. row \in EmployeeKpi /\ (row.own => row.status = "DRAFT")
  BY KpiAssumption DEF EmployeeKpi, KpiStatus
<1> HIDE DEF row
<1>3. KpiTypeOK'
  BY <1>1, <1>2 DEF KpiInd, KpiTypeOK
<1> QED
  BY <1>1, <1>2, <1>3, NewSheetKeeps

\* The request to duplicate a sheet carries its tasks as they are.
LEMMA DuplicateEmployeeKpiKeeps ==
  ASSUME KpiInd, NEW w \in KpiDesks, NEW k \in Sheets, NEW owner \in BOOLEAN,
         DuplicateEmployeeKpi(w, k, owner)
  PROVE  KpiInd'
<1> DEFINE carried == [t \in Tasks |-> IF t \in LiveTasks /\ kpiTasks[t].sheet = k
                                       THEN kpiTasks[t] ELSE NoKpi]
           o == [at |-> "copy", owner |-> owner, rows |-> carried]
<1>1. KpiBegin(w, o)
  BY DEF DuplicateEmployeeKpi
<1>2. carried \in [Tasks -> KpiTask \cup {NoKpi}]
  BY KpiRowsTyped DEF KpiInd, LiveTasks
<1> HIDE DEF carried
<1>3. o \in KpiDeskState
  BY <1>2 DEF KpiDeskState
<1>4. DeskRelies(o) /\ EditKeeps(o)
  BY DEF DeskRelies, EditKeeps
<1> HIDE DEF o
<1> QED
  BY <1>1, <1>3, <1>4, KpiBegins

LEMMA SaveDuplicateKeeps ==
  ASSUME KpiInd, NEW w \in KpiDesks, NEW copy \in Sheets, SaveDuplicate(w, copy)
  PROVE  KpiInd'
<1> DEFINE row == [status |-> "DRAFT", live |-> TRUE, own |-> ~kpiDesk[w].owner]
           o == [at |-> "paste", id |-> copy, owner |-> kpiDesk[w].owner,
                 rows |-> kpiDesk[w].rows]
<1>1. /\ kpiDesk[w].at = "copy" /\ sheets[copy] = NoKpi
      /\ sheets' = [sheets EXCEPT ![copy] = row] /\ kpiDesk' = [kpiDesk EXCEPT ![w] = o]
      /\ kpiAsks' = kpiAsks /\ kpiStaff' = kpiStaff
      /\ kpiCrossed' = kpiCrossed /\ kpiTasks' = kpiTasks
  BY DEF SaveDuplicate
<1>2. /\ row \in EmployeeKpi /\ row.status = "DRAFT"
      /\ o \in KpiDeskState /\ o.at = "paste" /\ o.id = copy
  BY <1>1, KpiDeskTyped DEF KpiInd, EmployeeKpi, KpiStatus, KpiDeskState
<1> HIDE DEF row, o
<1>3. KpiTypeOK'
  BY <1>1, <1>2 DEF KpiInd, KpiTypeOK
<1>4. \A v \in KpiDesks : kpiDesk'[v] = kpiDesk[v] \/ kpiDesk'[v] = o
  BY <1>1 DEF KpiInd, KpiTypeOK
<1> QED
  BY <1>1, <1>2, <1>3, <1>4, NewSheetKeeps

\* The copies are tasks of a sheet that is there, undone, with ids no edit has.
LEMMA SaveDuplicateTasksKeeps ==
  ASSUME KpiInd, NEW w \in KpiDesks, SaveDuplicateTasks(w)
  PROVE  KpiInd'
<1> DEFINE copy == kpiDesk[w].id
           carried == kpiDesk[w].rows
           KpiSource == {t \in Tasks : carried[t] # NoKpi}
           Unused == {t \in Tasks \ LiveTasks : EditsOf(t) = {}}
<1>1. PICK of \in [KpiSource -> Unused] :
        kpiTasks' = [t \in Tasks |->
            IF \E s \in KpiSource : of[s] = t
            THEN Undone(carried[CHOOSE s \in KpiSource : of[s] = t], copy)
            ELSE kpiTasks[t]]
  BY DEF SaveDuplicateTasks
<1>2. /\ kpiDesk[w].at = "paste" /\ sheets' = sheets /\ kpiAsks' = kpiAsks
      /\ kpiDesk' = [kpiDesk EXCEPT ![w] = IdleKpiDesk] /\ kpiStaff' = kpiStaff
      /\ kpiCrossed' = kpiCrossed
  BY DEF SaveDuplicateTasks, KpiEnd
<1>3. /\ copy \in Sheets /\ sheets[copy] # NoKpi
      /\ carried \in [Tasks -> KpiTask \cup {NoKpi}]
  BY <1>2, KpiDeskTyped DEF KpiInd, KpiRowsInHand, DeskRelies
<1> HIDE DEF copy, carried
<1>4. ASSUME NEW t \in Tasks
      PROVE  /\ kpiTasks'[t] \in KpiTask \cup {NoKpi}
             /\ kpiTasks'[t] = kpiTasks[t] \/
                  /\ kpiTasks'[t].sheet = copy /\ RateMatches(kpiTasks'[t]) /\ EditsOf(t) = {}
  <2>1. CASE \E s \in KpiSource : of[s] = t
    <3> DEFINE s == CHOOSE s \in KpiSource : of[s] = t
               new == Undone(carried[s], copy)
    <3>1. s \in KpiSource /\ of[s] = t /\ t \in Unused
      BY <2>1
    <3>2. kpiTasks'[t] = new
      BY <1>1, <2>1
    <3>3. carried[s] \in KpiTask
      BY <1>3, <3>1
    <3> HIDE DEF s
    <3>4. new \in KpiTask /\ new.sheet = copy /\ RateMatches(new)
      BY <1>3, <3>3, TaskRows, KpiAssumption DEF Undone
    <3> HIDE DEF new
    <3> QED
      BY <3>1, <3>2, <3>4 DEF RateMatches
  <2>2. CASE ~ \E s \in KpiSource : of[s] = t
    <3>1. kpiTasks'[t] = kpiTasks[t]
      BY <1>1, <2>2
    <3> QED
      BY <3>1 DEF KpiInd, KpiTypeOK
  <2> QED
    BY <2>1, <2>2
<1>5. kpiTasks' = [t \in Tasks |-> kpiTasks'[t]]
  BY <1>1
<1> HIDE DEF KpiSource, Unused
<1>6. IdleKpiDesk \in KpiDeskState
  BY DEF IdleKpiDesk, KpiDeskState
<1>7. KpiTypeOK'
  <2>1. kpiTasks' \in [Tasks -> KpiTask \cup {NoKpi}]
    BY <1>4, <1>5
  <2> QED
    BY <1>2, <1>6, <2>1 DEF KpiInd, KpiTypeOK
<1>8. AppliesWhenApproved'
  BY <1>2 DEF KpiInd, AppliesWhenApproved, PendingAsks
<1>9. \A t \in Tasks : kpiTasks'[t] # NoKpi =>
        RateMatches(kpiTasks'[t]) /\ sheets'[kpiTasks'[t].sheet] # NoKpi
  <2>1. \A t \in Tasks : kpiTasks[t] # NoKpi =>
          RateMatches(kpiTasks[t]) /\ sheets[kpiTasks[t].sheet] # NoKpi
    BY DEF KpiInd, RatesMatchProgress, KpiRowsInHand, LiveTasks
  <2> QED
    BY <1>2, <1>3, <1>4, <2>1
<1>10. ASSUME NEW v \in KpiDesks
       PROVE  \/ kpiDesk'[v] = IdleKpiDesk
              \/ /\ kpiDesk'[v] = kpiDesk[v]
                 /\ kpiDesk[v].at \in {"save", "drop"} =>
                      kpiTasks'[kpiDesk[v].id] = kpiTasks[kpiDesk[v].id]
  <2>1. kpiDesk'[v] = IdleKpiDesk \/ kpiDesk'[v] = kpiDesk[v]
    BY <1>2 DEF KpiInd, KpiTypeOK
  <2>2. kpiDesk[v].at \in {"save", "drop"} =>
          kpiDesk[v].id \in Tasks /\ v \in EditsOf(kpiDesk[v].id)
    BY KpiDeskTyped DEF KpiInd, EditsOf
  <2> QED
    BY <1>4, <2>1, <2>2
<1>11. \A r \in KpiAsks : kpiAsks'[r] # NoKpi => sheets'[kpiAsks'[r].sheet] # NoKpi
  BY <1>2 DEF KpiInd, KpiRowsInHand
<1> QED
  BY <1>2, <1>7, <1>8, <1>9, <1>10, <1>11, KpiKept

\* A request for approval is made while no other is pending.
LEMMA CreateKpiApprovalRequestKeeps ==
  ASSUME KpiInd, NEW k \in Sheets, NEW r \in KpiAsks, CreateKpiApprovalRequest(k, r)
  PROVE  KpiInd'
<1> DEFINE ask == [status |-> "PENDING", sheet |-> k]
<1>1. /\ sheets[k] # NoKpi /\ kpiAsks[r] = NoKpi /\ sheets' = sheets /\ kpiTasks' = kpiTasks
      /\ kpiDesk' = kpiDesk /\ kpiStaff' = kpiStaff /\ kpiCrossed' = kpiCrossed
      /\ \/ kpiAsks' = kpiAsks
         \/ PendingAsks(k) = {} /\ kpiAsks' = [kpiAsks EXCEPT ![r] = ask]
  BY DEF CreateKpiApprovalRequest, KpiNow, LiveSheets
<1>2. ask \in KpiApprovalRequest /\ ask.sheet = k /\ ask.status = "PENDING"
  BY DEF KpiApprovalRequest
<1>3. ask # NoKpi
  BY <1>2, KpiRowsTyped DEF KpiInd
<1> HIDE DEF ask
<1>4. KpiTypeOK'
  BY <1>1, <1>2 DEF KpiInd, KpiTypeOK
<1>5. \A s \in KpiAsks : kpiAsks'[s] = kpiAsks[s] \/ (s = r /\ kpiAsks'[s] = ask)
  BY <1>1 DEF KpiInd, KpiTypeOK
<1>6. ASSUME NEW j \in Sheets PROVE Cardinality(PendingAsks(j)') <= 1
  <2>1. CASE PendingAsks(j)' = PendingAsks(j)
    BY <2>1 DEF KpiInd, AppliesWhenApproved
  <2>2. CASE j = k /\ PendingAsks(k) = {} /\ kpiAsks' = [kpiAsks EXCEPT ![r] = ask]
    <3>1. PendingAsks(j)' \subseteq {r}
      BY <1>5, <2>2 DEF PendingAsks
    <3>2. Cardinality({r}) = 1 /\ IsFiniteSet({r})
      BY FS_Singleton
    <3>3. /\ Cardinality(PendingAsks(j)') <= Cardinality({r})
      BY <3>1, <3>2, FS_Subset
    <3> QED
      BY <3>2, <3>3
  <2>3. PendingAsks(j)' = PendingAsks(j)
        \/ (j = k /\ PendingAsks(k) = {} /\ kpiAsks' = [kpiAsks EXCEPT ![r] = ask])
    BY <1>1, <1>2, <1>5 DEF PendingAsks
  <2> QED
    BY <2>1, <2>2, <2>3
<1>7. ASSUME NEW j \in Sheets, sheets'[j] # NoKpi, sheets'[j].own, sheets'[j].status # "DRAFT"
      PROVE  \E s \in KpiAsks : kpiAsks'[s] = [status |-> "APPROVED", sheet |-> j]
  <2>1. PICK s \in KpiAsks : kpiAsks[s] = [status |-> "APPROVED", sheet |-> j]
    BY <1>1, <1>7 DEF KpiInd, AppliesWhenApproved
  <2>2. [status |-> "APPROVED", sheet |-> j] \in KpiApprovalRequest
    BY DEF KpiApprovalRequest
  <2>3. kpiAsks[s] # NoKpi
    BY <2>1, <2>2, KpiRowsTyped DEF KpiInd
  <2>4. s # r
    BY <1>1, <2>3
  <2> QED
    BY <1>5, <2>1, <2>4
<1>8. AppliesWhenApproved'
  BY <1>6, <1>7 DEF AppliesWhenApproved
<1>9. \A t \in Tasks : kpiTasks'[t] # NoKpi =>
        RateMatches(kpiTasks'[t]) /\ sheets'[kpiTasks'[t].sheet] # NoKpi
  BY <1>1 DEF KpiInd, RatesMatchProgress, KpiRowsInHand, LiveTasks
<1>10. \A s \in KpiAsks : kpiAsks'[s] # NoKpi => sheets'[kpiAsks'[s].sheet] # NoKpi
  BY <1>1, <1>2, <1>5 DEF KpiInd, KpiRowsInHand
<1>11. \A s \in KpiAsks : kpiAsks[s] # NoKpi => kpiAsks'[s] # NoKpi
  BY <1>3, <1>5
<1> QED
  BY <1>1, <1>4, <1>8, <1>9, <1>10, <1>11, KpiKept

LEMMA KpiRest ==
  ASSUME KpiInd, UNCHANGED <<sheets, kpiTasks, kpiAsks, kpiDesk, kpiCrossed>>,
         kpiStaff' \in BOOLEAN
  PROVE  KpiInd'
<1>1. KpiTypeOK'
  BY DEF KpiInd, KpiTypeOK
<1>2. AppliesWhenApproved'
  BY DEF KpiInd, AppliesWhenApproved, PendingAsks
<1>3. \A t \in Tasks : kpiTasks'[t] # NoKpi =>
        RateMatches(kpiTasks'[t]) /\ sheets'[kpiTasks'[t].sheet] # NoKpi
  BY DEF KpiInd, RatesMatchProgress, KpiRowsInHand, LiveTasks
<1>4. \A s \in KpiAsks : kpiAsks'[s] # NoKpi => sheets'[kpiAsks'[s].sheet] # NoKpi
  BY DEF KpiInd, KpiRowsInHand
<1> QED
  BY <1>1, <1>2, <1>3, <1>4, KpiKept

LEMMA KpiStep ==
  ASSUME KpiInd, [KpiNext]_kpiVars
  PROVE  KpiInd'
<1>1. CASE UNCHANGED kpiVars
  <2>1. kpiStaff' \in BOOLEAN
    BY <1>1 DEF KpiInd, KpiTypeOK, kpiVars
  <2> QED
    BY <1>1, <2>1, KpiRest DEF kpiVars
<1>2. CASE LeaveKpi
  BY <1>2, KpiRest DEF LeaveKpi
<1>3. ASSUME NEW w \in KpiDesks,
             SaveKpiTask(w) \/ DropKpiTask(w) \/ RemoveEmployeeKpi(w)
             \/ SaveEmployeeKpi(w) \/ DecideKpiApproval(w)
      PROVE  KpiInd'
  BY <1>3, TaskWritesKeep, RemoveEmployeeKpiKeeps, SaveEmployeeKpiKeeps,
     DecideKpiApprovalKeeps
<1>4. ASSUME NEW w \in KpiDesks, NEW owner \in BOOLEAN, NEW t \in Tasks,
             \/ \E k \in Sheets, target \in KpiTargets, actual \in KpiActuals :
                  CreateKpiTask(w, k, t, target, actual, owner)
             \/ \E actual \in KpiActuals : UpdateKpiTaskProgress(w, t, actual, owner)
             \/ HideKpiTask(w, t, owner) \/ DeleteKpiTask(w, t, owner)
      PROVE  KpiInd'
  BY <1>4, CreateKpiTaskKeeps, UpdateKpiTaskKeeps, HideKpiTaskKeeps, DeleteKpiTaskKeeps
<1>5. \A k \in Sheets, owner \in BOOLEAN :
        /\ \A status \in KpiChoices : CreateEmployeeKpi(k, owner, status) => KpiInd'
        /\ \A w \in KpiDesks : DuplicateEmployeeKpi(w, k, owner) => KpiInd'
  BY CreateEmployeeKpiKeeps, DuplicateEmployeeKpiKeeps
<1>6. \A k \in Sheets, r \in KpiAsks : CreateKpiApprovalRequest(k, r) => KpiInd'
  BY CreateKpiApprovalRequestKeeps
<1>7. \A w \in KpiDesks :
        /\ \A k \in Sheets, owner \in BOOLEAN : DeleteEmployeeKpi(w, k, owner) => KpiInd'
        /\ \A k \in Sheets, status \in KpiChoices :
             UpdateEmployeeKpiStatus(w, k, status) => KpiInd'
        /\ \A r \in KpiAsks, status \in {"APPROVED", "REJECTED"} :
             HandleKpiApprovalRequest(w, r, status) => KpiInd'
  BY SheetRequestsKeep
<1>8. \A w \in KpiDesks :
        (\E copy \in Sheets : SaveDuplicate(w, copy)) \/ SaveDuplicateTasks(w) => KpiInd'
  BY SaveDuplicateKeeps, SaveDuplicateTasksKeeps
<1> QED
  BY <1>1, <1>2, <1>3, <1>4, <1>5, <1>6, <1>7, <1>8 DEF KpiNext

LEMMA KpiStart ==
  ASSUME KpiInit
  PROVE  KpiInd
<1>1. KpiTypeOK
  BY DEF KpiInit, KpiTypeOK, KpiDeskState, IdleKpiDesk
<1>2. RatesMatchProgress /\ LiveTasks = {}
  BY DEF KpiInit, RatesMatchProgress, LiveTasks
<1>3. ASSUME NEW k \in Sheets PROVE Cardinality(PendingAsks(k)) <= 1 /\ sheets[k] = NoKpi
  <2>1. PendingAsks(k) = {}
    BY DEF KpiInit, PendingAsks
  <2>2. Cardinality(PendingAsks(k)) = 0
    BY <2>1, FS_EmptySet
  <2> QED
    BY <2>2 DEF KpiInit
<1>4. AppliesWhenApproved
  BY <1>3 DEF AppliesWhenApproved
<1>5. KpiRowsInHand
  BY <1>2 DEF KpiInit, KpiRowsInHand, DeskRelies, IdleKpiDesk
<1>6. EditsKeepTerms
  BY DEF KpiInit, EditsKeepTerms, EditKeeps, IdleKpiDesk
<1> QED
  BY <1>1, <1>2, <1>4, <1>5, <1>6 DEF KpiInd

\* The desk that writes a task: it saves its row, or drops the task.
LEMMA WhoWritesATask ==
  ASSUME KpiInd, [KpiNext]_kpiVars, NEW w \in KpiDesks,
         kpiDesk[w].at \in {"save", "drop"}, kpiDesk'[w] = IdleKpiDesk
  PROVE  SaveKpiTask(w) \/ DropKpiTask(w)
<1>1. kpiDesk[w] # IdleKpiDesk
  BY DEF IdleKpiDesk
<1>2. ASSUME NEW v \in KpiDesks, NEW o, KpiBegin(v, o) PROVE FALSE
  <2>1. v # w /\ kpiDesk' = [kpiDesk EXCEPT ![v] = o]
    BY <1>1, <1>2 DEF KpiBegin
  <2> QED
    BY <1>1, <2>1 DEF KpiInd, KpiTypeOK
<1>3. kpiDesk' # kpiDesk
  BY <1>1
<1>4. ASSUME NEW v \in KpiDesks, KpiEnd(v) PROVE v = w
  BY <1>1, <1>4 DEF KpiEnd, KpiInd, KpiTypeOK
<1>5. ASSUME KpiNow PROVE FALSE
  BY <1>3, <1>5 DEF KpiNow
<1>6. ASSUME NEW v \in KpiDesks,
             SaveKpiTask(v) \/ DropKpiTask(v) \/ RemoveEmployeeKpi(v)
             \/ SaveEmployeeKpi(v) \/ DecideKpiApproval(v)
      PROVE  SaveKpiTask(w) \/ DropKpiTask(w)
  <2>1. v = w
    BY <1>4, <1>6 DEF SaveKpiTask, DropKpiTask, RemoveEmployeeKpi, SaveEmployeeKpi,
                      DecideKpiApproval
  <2> QED
    BY <1>6, <2>1 DEF RemoveEmployeeKpi, SaveEmployeeKpi, DecideKpiApproval
<1>7. ~ \E v \in KpiDesks, owner \in BOOLEAN, t \in Tasks :
         \/ \E k \in Sheets, target \in KpiTargets, actual \in KpiActuals :
              CreateKpiTask(v, k, t, target, actual, owner)
         \/ \E actual \in KpiActuals : UpdateKpiTaskProgress(v, t, actual, owner)
         \/ HideKpiTask(v, t, owner) \/ DeleteKpiTask(v, t, owner)
  BY <1>2, ZenonT(30) DEF CreateKpiTask, UpdateKpiTaskProgress, HideKpiTask, DeleteKpiTask
<1>8. ~ \E v \in KpiDesks :
         \/ \E owner \in BOOLEAN, k \in Sheets :
              DeleteEmployeeKpi(v, k, owner) \/ DuplicateEmployeeKpi(v, k, owner)
         \/ \E k \in Sheets, status \in KpiChoices : UpdateEmployeeKpiStatus(v, k, status)
         \/ \E r \in KpiAsks, status \in {"APPROVED", "REJECTED"} :
              HandleKpiApprovalRequest(v, r, status)
  BY <1>2 DEF DeleteEmployeeKpi, DuplicateEmployeeKpi, UpdateEmployeeKpiStatus,
              HandleKpiApprovalRequest
<1>9. /\ ~ LeaveKpi /\ ~ UNCHANGED kpiVars
      /\ ~ \E k \in Sheets, r \in KpiAsks : CreateKpiApprovalRequest(k, r)
      /\ ~ \E k \in Sheets, owner \in BOOLEAN :
             \E status \in KpiChoices : CreateEmployeeKpi(k, owner, status)
  BY <1>3, <1>5 DEF LeaveKpi, kpiVars, CreateKpiApprovalRequest, CreateEmployeeKpi
<1>10. ~ \E v \in KpiDesks : (\E copy \in Sheets : SaveDuplicate(v, copy))
                             \/ SaveDuplicateTasks(v)
  <2>1. ASSUME NEW v \in KpiDesks, NEW copy \in Sheets, SaveDuplicate(v, copy) PROVE FALSE
    <3>1. /\ kpiDesk[v].at = "copy"
          /\ kpiDesk' = [kpiDesk EXCEPT ![v] = [at |-> "paste", id |-> copy,
                           owner |-> kpiDesk[v].owner, rows |-> kpiDesk[v].rows]]
      BY <2>1 DEF SaveDuplicate
    <3> QED
      BY <1>1, <3>1 DEF KpiInd, KpiTypeOK
  <2>2. ASSUME NEW v \in KpiDesks, SaveDuplicateTasks(v) PROVE FALSE
    <3>1. KpiEnd(v) /\ kpiDesk[v].at = "paste"
      BY <2>2 DEF SaveDuplicateTasks
    <3> QED
      BY <1>4, <3>1
  <2> QED
    BY <2>1, <2>2
<1> QED
  BY <1>6, <1>7, <1>8, <1>9, <1>10 DEF KpiNext

\* An edit of the employee's that nothing overtook keeps what was agreed.
LEMMA TermsKept ==
  ASSUME KpiInd, [KpiNext]_kpiVars, NEW t \in LiveTasks, NEW w \in KpiDesks \ kpiCrossed,
         kpiDesk[w].at \in {"save", "drop"}, kpiDesk'[w] = IdleKpiDesk,
         kpiDesk[w].id = t, ~kpiDesk[w].owner, sheets[kpiTasks[t].sheet].status # "DRAFT"
  PROVE  /\ kpiTasks'[t] # NoKpi
         /\ TermsOf(kpiTasks'[t]) = TermsOf(kpiTasks[t])
<1>1. SaveKpiTask(w) \/ DropKpiTask(w)
  BY WhoWritesATask
<1>2. EditKeeps(kpiDesk[w]) /\ t \in Tasks /\ kpiTasks[t] # NoKpi
  BY DEF KpiInd, EditsKeepTerms, LiveTasks
<1>3. /\ kpiDesk[w].at = "save" /\ TermsOf(kpiDesk[w].row) = TermsOf(kpiTasks[t])
      /\ kpiDesk[w].row \in KpiTask
  BY <1>2, KpiDeskTyped DEF EditKeeps, KpiInd
<1>4. kpiTasks' = [kpiTasks EXCEPT ![t] = kpiDesk[w].row]
  BY <1>1, <1>3 DEF SaveKpiTask, DropKpiTask
<1>5. kpiTasks'[t] = kpiDesk[w].row
  BY <1>2, <1>4 DEF KpiInd, KpiTypeOK
<1>6. kpiTasks'[t] # NoKpi
  BY <1>3, <1>5, KpiAssumption
<1> QED
  BY <1>3, <1>5, <1>6 DEF TermsOf

(***************************************************************************)
(* What the KPI sheets promise, for any number of sheets, tasks, requests  *)
(* and desks: rates match their progress whatever save crosses another, a  *)
(* sheet of the employee's applies by the owner's word only, and an edit   *)
(* that nothing overtook since its check changes no agreed terms.          *)
(***************************************************************************)
THEOREM KpiKeepsPromise == KpiSpec => KpiPromise
<1>1. KpiSpec => []KpiInd
  BY KpiStart, KpiStep, PTL DEF KpiSpec
<1>2. KpiInd /\ [KpiNext]_kpiVars =>
        [\A t \in LiveTasks, w \in KpiDesks \ kpiCrossed :
           /\ kpiDesk[w].at \in {"save", "drop"} /\ kpiDesk'[w] = IdleKpiDesk
           /\ kpiDesk[w].id = t /\ ~kpiDesk[w].owner
           /\ sheets[kpiTasks[t].sheet].status # "DRAFT"
           => /\ kpiTasks'[t] # NoKpi
              /\ TermsOf(kpiTasks'[t]) = TermsOf(kpiTasks[t])]_kpiVars
  BY TermsKept
<1>3. KpiSpec => AgreedTermsStand
  BY <1>1, <1>2, PTL DEF KpiSpec, AgreedTermsStand
<1>4. KpiInd => RatesMatchProgress /\ AppliesWhenApproved
  BY DEF KpiInd
<1> QED
  BY <1>1, <1>3, <1>4, PTL DEF KpiPromise

-----------------------------------------------------------------------------
\* Hiring: profiles, applications and the clerks between them.

\* What nobody touched: applications, clerks and files when only the profiles change.

\* A profile of one account at one store is replaced.
LEMMA ProfileReplaced ==
  ASSUME EmploymentTypeOK, NEW s \in Stores, NEW a \in Accounts, NEW p \in EmployeeProfile,
         prof' = [prof EXCEPT ![s][a] = p]
  PROVE  /\ prof' \in [Stores -> [Accounts -> EmployeeProfile]]
         /\ \A t \in Stores, b \in Accounts :
              prof'[t][b] = IF t = s /\ b = a THEN p ELSE prof[t][b]
  BY DEF EmploymentTypeOK

\* A step that replaces one profile by a sound one, which is employed only when the account is
\* employed nowhere else, and that leaves the rest alone.
LEMMA ProfileStepKeeps ==
  ASSUME EmploymentInd, NEW s \in Stores, NEW a \in Accounts, NEW p \in EmployeeProfile,
         prof' = [prof EXCEPT ![s][a] = p],
         known' \in SUBSET Accounts, known \subseteq known',
         p.status = "NONE" => p = NoProfile,
         p.status # "NONE" => a \in known',
         p.status = "PENDING" => p.stint = 0,
         p.deleted <=> p.status = "TERMINATED",
         p.contracts \subseteq {p.stint},
         p.tied => InEmployment(p),
         InEmployment(p) => \A t \in Stores \ {s} : ~InEmployment(prof[t][a])
  PROVE  /\ prof' \in [Stores -> [Accounts -> EmployeeProfile]]
         /\ ProfilesInHand' /\ EmployedOnce' /\ StintStartsClean' /\ CandidatesCanBeHired'
<1>1. /\ prof' \in [Stores -> [Accounts -> EmployeeProfile]]
      /\ \A t \in Stores, b \in Accounts :
           prof'[t][b] = IF t = s /\ b = a THEN p ELSE prof[t][b]
  BY ProfileReplaced, ZenonT(30) DEF EmploymentInd
<1>2. ProfilesInHand'
  BY <1>1 DEF EmploymentInd, ProfilesInHand
<1>3. EmployedOnce'
  BY <1>1 DEF EmploymentInd, EmployedOnce, InEmployment
<1>4. StintStartsClean'
  <2> SUFFICES ASSUME NEW t \in Stores, NEW b \in Accounts
               PROVE  /\ InEmployment(prof'[t][b]) =>
                           prof'[t][b].contracts \subseteq {prof'[t][b].stint}
                      /\ prof'[t][b].tied => InEmployment(prof'[t][b]) /\ ~prof'[t][b].deleted
    BY DEF StintStartsClean, InEmployment
  <2>1. CASE t = s /\ b = a
    <3>1. prof'[t][b] = p
      BY <1>1, <2>1
    <3>2. InEmployment(p) => ~p.deleted
      BY DEF InEmployment, EmployedStatuses
    <3> QED
      BY <3>1, <3>2 DEF InEmployment
  <2>2. CASE ~(t = s /\ b = a)
    <3>1. prof'[t][b] = prof[t][b]
      BY <1>1, <2>2
    <3> QED
      BY <3>1 DEF EmploymentInd, StintStartsClean, InEmployment
  <2> QED
    BY <2>1, <2>2
<1>5. CandidatesCanBeHired'
  BY DEF CandidatesCanBeHired, ExistingEmployeeCandidate, MayAttach, RevivesFormerStint, Visible
<1> QED
  BY <1>1, <1>2, <1>3, <1>4, <1>5

\* Applications, clerks and files of a step that changes none of them.
LEMMA DeskRests ==
  ASSUME EmploymentInd, known \subseteq known',
         application' = application, selfies' = selfies, clerk' = clerk, outages' = outages
  PROVE  ApplicationsInHand' /\ ClerksInHand' /\ SelfiesMatchRows'
<1>1. ApplicationsInHand'
  BY DEF EmploymentInd, ApplicationsInHand
<1>2. ClerksInHand'
  BY DEF EmploymentInd, ClerksInHand
<1>3. SelfiesMatchRows'
  BY DEF EmploymentInd, SelfiesMatchRows
<1> QED
  BY <1>1, <1>2, <1>3

\* Profiles of a step that changes none.
LEMMA ProfilesRest ==
  ASSUME EmploymentInd, known' = known, prof' = prof
  PROVE  ProfilesInHand' /\ EmployedOnce' /\ StintStartsClean' /\ CandidatesCanBeHired'
<1>1. ProfilesInHand'
  BY DEF EmploymentInd, ProfilesInHand
<1>2. EmployedOnce'
  BY DEF EmploymentInd, EmployedOnce
<1>3. StintStartsClean'
  BY DEF EmploymentInd, StintStartsClean
<1>4. CandidatesCanBeHired'
  BY DEF CandidatesCanBeHired, ExistingEmployeeCandidate, MayAttach, RevivesFormerStint, Visible
<1> QED
  BY <1>1, <1>2, <1>3, <1>4

\* A step of the owner on a profile that leaves applications alone.
LEMMA OwnerStepKeeps ==
  ASSUME EmploymentInd, NEW s \in Stores, NEW a \in Accounts, NEW p \in EmployeeProfile,
         prof' = [prof EXCEPT ![s][a] = p],
         known' \in SUBSET Accounts, known \subseteq known',
         UNCHANGED <<application, selfies, clerk, hired, outages>>,
         p.status = "NONE" => p = NoProfile,
         p.status # "NONE" => a \in known',
         p.status = "PENDING" => p.stint = 0,
         p.deleted <=> p.status = "TERMINATED",
         p.contracts \subseteq {p.stint},
         p.tied => InEmployment(p),
         InEmployment(p) => \A t \in Stores \ {s} : ~InEmployment(prof[t][a])
  PROVE  EmploymentInd'
<1>1. /\ prof' \in [Stores -> [Accounts -> EmployeeProfile]]
      /\ ProfilesInHand' /\ EmployedOnce' /\ StintStartsClean' /\ CandidatesCanBeHired'
  BY ProfileStepKeeps
<1>2. ApplicationsInHand' /\ ClerksInHand' /\ SelfiesMatchRows'
  BY DeskRests
<1>3. EmploymentTypeOK'
  BY <1>1 DEF EmploymentInd, EmploymentTypeOK
<1> QED
  BY <1>1, <1>2, <1>3 DEF EmploymentInd

\* What is known of a profile.
LEMMA ProfileFacts ==
  ASSUME EmploymentInd, NEW s \in Stores, NEW a \in Accounts
  PROVE  LET p == prof[s][a] IN
         /\ p \in EmployeeProfile
         /\ p.stint \in 0 .. MaxStints /\ p.contracts \subseteq EmployeeContract
         /\ p.status = "NONE" => p = NoProfile
         /\ p.status # "NONE" => a \in known
         /\ p.status = "PENDING" => p.stint = 0
         /\ p.deleted <=> p.status = "TERMINATED"
         /\ p.contracts \subseteq {p.stint}
         /\ p.tied => InEmployment(p)
         /\ InEmployment(p) => ~p.deleted
         /\ InEmployment(p) => \A t \in Stores \ {s} : ~InEmployment(prof[t][a])
<1>1. prof[s][a] \in EmployeeProfile
  BY DEF EmploymentInd, EmploymentTypeOK
<1>2. prof[s][a].stint \in 0 .. MaxStints /\ prof[s][a].contracts \subseteq EmployeeContract
  BY <1>1 DEF EmployeeProfile
<1>3. prof[s][a].tied => InEmployment(prof[s][a])
  BY DEF EmploymentInd, StintStartsClean
<1>4. InEmployment(prof[s][a]) => \A t \in Stores \ {s} : ~InEmployment(prof[t][a])
  BY DEF EmploymentInd, EmployedOnce
<1>5. /\ prof[s][a].status = "NONE" => prof[s][a] = NoProfile
      /\ prof[s][a].status # "NONE" => a \in known
      /\ prof[s][a].status = "PENDING" => prof[s][a].stint = 0
      /\ prof[s][a].deleted <=> prof[s][a].status = "TERMINATED"
      /\ prof[s][a].contracts \subseteq {prof[s][a].stint}
  BY DEF EmploymentInd, ProfilesInHand
<1>6. InEmployment(prof[s][a]) => ~prof[s][a].deleted
  BY <1>5 DEF InEmployment, EmployedStatuses
<1> QED
  BY <1>1, <1>2, <1>3, <1>4, <1>5, <1>6

\* A hire: a former stint is reset, and the new one has at most its own contract.
LEMMA HiredProfile ==
  ASSUME EmploymentInd, NEW s \in Stores, NEW a \in Accounts,
         \A t \in Stores : ~InEmployment(prof[t][a]), HireInto(s, a)
  PROVE  \E p \in EmployeeProfile :
           /\ prof' = [prof EXCEPT ![s][a] = p]
           /\ p.status \in EmployedStatuses /\ ~p.deleted /\ ~p.tied
           /\ p.contracts \subseteq {p.stint}
<1> DEFINE p == prof[s][a]
           kept == IF RevivesFormerStint(s, a) THEN ResetFormerStint(p) ELSE p
<1>1. p.stint < MaxStints
  BY DEF HireInto
<1>2. PICK status \in ResolveHireEmploymentType, contract \in BOOLEAN :
        prof' = [prof EXCEPT ![s][a] =
                   [kept EXCEPT !.status = status, !.deleted = FALSE, !.stint = @ + 1,
                                !.contracts = IF contract THEN @ \cup {p.stint + 1} ELSE @]]
  BY Zenon DEF HireInto, InitializeEmployeeProfile
<1> DEFINE q == [kept EXCEPT !.status = status, !.deleted = FALSE, !.stint = @ + 1,
                             !.contracts = IF contract THEN @ \cup {p.stint + 1} ELSE @]
<1>3. /\ p \in EmployeeProfile /\ p.stint \in 0 .. MaxStints
      /\ p.contracts \subseteq EmployeeContract /\ p.contracts \subseteq {p.stint}
      /\ p.status = "NONE" => p = NoProfile
      /\ p.status = "PENDING" => p.stint = 0
      /\ p.tied => InEmployment(p)
  BY ProfileFacts
<1>4. ~InEmployment(p)
  OBVIOUS
<1>5. /\ kept \in EmployeeProfile /\ kept.stint = p.stint /\ kept.contracts = {} /\ ~kept.tied
  <2>1. CASE RevivesFormerStint(s, a)
    BY <1>3, <2>1 DEF ResetFormerStint, EmployeeProfile
  <2>2. CASE ~RevivesFormerStint(s, a)
    <3>1. p.status \in {"NONE", "PENDING"}
      BY <1>3, <1>4, <2>2 DEF RevivesFormerStint, InEmployment, EmployedStatuses,
         EmployeeProfile, EmploymentStatus
    <3>2. p.stint = 0
      BY <1>3, <3>1 DEF NoProfile
    <3>3. p.contracts = {}
      BY <1>3, <3>2 DEF EmployeeContract
    <3> QED
      BY <1>3, <1>4, <2>2, <3>2, <3>3
  <2> QED
    BY <2>1, <2>2
<1>6. p.stint + 1 \in EmployeeContract /\ p.stint + 1 \in 0 .. MaxStints
  BY <1>1, <1>3, EmploymentAssumption DEF EmployeeContract
<1>7. status \in EmployedStatuses /\ status \in EmploymentStatus
  BY DEF ResolveHireEmploymentType, EmployedStatuses, EmploymentStatus
<1> HIDE DEF kept
<1>8. /\ q \in EmployeeProfile /\ q.status = status /\ q.deleted = FALSE
      /\ q.tied = kept.tied /\ q.stint = p.stint + 1
      /\ q.contracts = IF contract THEN kept.contracts \cup {p.stint + 1} ELSE kept.contracts
  <2> DEFINE cs == IF contract THEN kept.contracts \cup {p.stint + 1} ELSE kept.contracts
             n == p.stint + 1
  <2>1. cs \in SUBSET EmployeeContract /\ n \in 0 .. MaxStints
    BY <1>5, <1>6
  <2>2. q = [kept EXCEPT !.status = status, !.deleted = FALSE, !.stint = n, !.contracts = cs]
    BY <1>5 DEF EmployeeProfile
  <2> HIDE DEF cs, n, p, q
  <2>3. /\ q \in EmployeeProfile /\ q.status = status /\ q.deleted = FALSE
        /\ q.tied = kept.tied /\ q.stint = n /\ q.contracts = cs
    BY <1>5, <1>7, <2>1, <2>2 DEF EmployeeProfile
  <2> QED
    BY <2>3 DEF cs, n
<1>9. q.contracts \subseteq {q.stint}
  BY <1>5, <1>8
<1>10. prof' = [prof EXCEPT ![s][a] = q]
  BY <1>2
<1> HIDE DEF q, p
<1> QED
  BY <1>5, <1>7, <1>8, <1>9, <1>10

LEMMA AddEmployeeKeeps ==
  ASSUME EmploymentInd, NEW s \in Stores, NEW a \in Accounts, AddEmployee(s, a)
  PROVE  EmploymentInd'
<1>1. /\ a \in known /\ \A t \in Stores : ~InEmployment(prof[t][a])
      /\ HireInto(s, a) /\ known' = known
      /\ UNCHANGED <<application, selfies, clerk, hired, outages>>
  BY DEF AddEmployee, MayAttach
<1>2. PICK p \in EmployeeProfile :
         /\ prof' = [prof EXCEPT ![s][a] = p]
         /\ p.status \in EmployedStatuses /\ ~p.deleted /\ ~p.tied
         /\ p.contracts \subseteq {p.stint}
  BY <1>1, HiredProfile
<1>3. known \subseteq Accounts
  BY DEF EmploymentInd, EmploymentTypeOK
<1>4. p.status \notin {"NONE", "PENDING", "TERMINATED"}
  BY <1>2 DEF EmployedStatuses
<1> QED
  BY <1>1, <1>2, <1>3, <1>4, OwnerStepKeeps

LEMMA CreateManualEmployeeKeeps ==
  ASSUME EmploymentInd, NEW s \in Stores, NEW a \in Accounts, CreateManualEmployee(s, a)
  PROVE  EmploymentInd'
<1>1. /\ a \notin known /\ HireInto(s, a) /\ known' = known \cup {a}
      /\ UNCHANGED <<application, selfies, clerk, hired, outages>>
  BY DEF CreateManualEmployee
<1>2. \A t \in Stores : ~InEmployment(prof[t][a])
  BY <1>1, ProfileFacts DEF InEmployment, EmployedStatuses
<1>3. PICK p \in EmployeeProfile :
         /\ prof' = [prof EXCEPT ![s][a] = p]
         /\ p.status \in EmployedStatuses /\ ~p.deleted /\ ~p.tied
         /\ p.contracts \subseteq {p.stint}
  BY <1>1, <1>2, HiredProfile
<1>4. known' \in SUBSET Accounts /\ known \subseteq known'
  BY <1>1 DEF EmploymentInd, EmploymentTypeOK
<1>5. p.status \notin {"NONE", "PENDING", "TERMINATED"}
  BY <1>3 DEF EmployedStatuses
<1> QED
  BY <1>1, <1>2, <1>3, <1>4, <1>5, OwnerStepKeeps

\* The accounts stay as they are.
LEMMA KnownStays ==
  ASSUME EmploymentInd, known' = known
  PROVE  known' \in SUBSET Accounts /\ known \subseteq known'
  BY DEF EmploymentInd, EmploymentTypeOK

LEMMA DeleteEmployeeKeeps ==
  ASSUME EmploymentInd, NEW s \in Stores, NEW a \in Accounts, DeleteEmployee(s, a)
  PROVE  EmploymentInd'
<1> DEFINE p == prof[s][a]
           q == [p EXCEPT !.status = "TERMINATED", !.deleted = TRUE, !.tied = FALSE]
<1>1. /\ p \in EmployeeProfile /\ p.contracts \subseteq {p.stint}
      /\ p.status # "NONE" => a \in known
  BY ProfileFacts
<1>2. p.status # "NONE" /\ known' = known
      /\ UNCHANGED <<application, selfies, clerk, hired, outages>>
  BY DEF DeleteEmployee, Visible
<1>3. prof' = [prof EXCEPT ![s][a] = q]
  <2>1. [CancelFutureShiftAssignments(p) EXCEPT !.status = "TERMINATED", !.deleted = TRUE] = q
    BY <1>1 DEF CancelFutureShiftAssignments, EmployeeProfile
  <2> QED
    BY <2>1 DEF DeleteEmployee
<1>4. /\ q \in EmployeeProfile /\ q.status = "TERMINATED" /\ q.deleted /\ ~q.tied
      /\ q.contracts = p.contracts /\ q.stint = p.stint
  BY <1>1 DEF EmployeeProfile, EmploymentStatus
<1>5. ~InEmployment(q)
  BY <1>4 DEF InEmployment, EmployedStatuses
<1> HIDE DEF q, p
<1> QED
  BY <1>1, <1>2, <1>3, <1>4, <1>5, KnownStays, OwnerStepKeeps

LEMMA PermanentDeleteEmployeeKeeps ==
  ASSUME EmploymentInd, NEW s \in Stores, NEW a \in Accounts, PermanentDeleteEmployee(s, a)
  PROVE  EmploymentInd'
<1>1. /\ prof' = [prof EXCEPT ![s][a] = NoProfile] /\ known' = known
      /\ UNCHANGED <<application, selfies, clerk, hired, outages>>
  BY DEF PermanentDeleteEmployee
<1>2. /\ NoProfile \in EmployeeProfile /\ NoProfile.status = "NONE" /\ ~NoProfile.deleted
      /\ NoProfile.contracts = {} /\ ~NoProfile.tied
  BY EmploymentAssumption DEF NoProfile, EmployeeProfile, EmploymentStatus
<1>3. ~InEmployment(NoProfile)
  BY <1>2 DEF InEmployment, EmployedStatuses
<1> QED
  BY <1>1, <1>2, <1>3, KnownStays, OwnerStepKeeps

LEMMA RestoreProfileKeeps ==
  ASSUME EmploymentInd, NEW s \in Stores, NEW a \in Accounts, RestoreProfile(s, a)
  PROVE  EmploymentInd'
<1> DEFINE p == prof[s][a]
           q == [p EXCEPT !.status = "ACTIVE", !.deleted = FALSE]
<1>1. /\ p \in EmployeeProfile /\ p.contracts \subseteq {p.stint}
      /\ p.status # "NONE" => a \in known
  BY ProfileFacts
<1>2. /\ p.status # "NONE" /\ known' = known
      /\ \A t \in Stores \ {s} : prof[t][a].status \in {"NONE", "TERMINATED"}
      /\ UNCHANGED <<application, selfies, clerk, hired, outages>>
  BY DEF RestoreProfile
<1>3. prof' = [prof EXCEPT ![s][a] = q]
  BY DEF RestoreProfile, EmploymentInd, EmploymentTypeOK
<1>4. /\ q \in EmployeeProfile /\ q.status = "ACTIVE" /\ ~q.deleted
      /\ q.contracts = p.contracts /\ q.stint = p.stint
  BY <1>1 DEF EmployeeProfile, EmploymentStatus
<1>5. InEmployment(q) /\ \A t \in Stores \ {s} : ~InEmployment(prof[t][a])
  BY <1>2, <1>4 DEF InEmployment, EmployedStatuses
<1> HIDE DEF q, p
<1> QED
  BY <1>1, <1>2, <1>3, <1>4, <1>5, KnownStays, OwnerStepKeeps

LEMMA ChangeEmploymentTypeKeeps ==
  ASSUME EmploymentInd, NEW s \in Stores, NEW a \in Accounts, NEW status \in EmployedStatuses,
         ChangeEmploymentType(s, a, status)
  PROVE  EmploymentInd'
<1> DEFINE p == prof[s][a]
           q == [p EXCEPT !.status = status]
<1>1. /\ p \in EmployeeProfile /\ p.contracts \subseteq {p.stint}
      /\ p.status # "NONE" => a \in known
      /\ InEmployment(p) => ~p.deleted
      /\ InEmployment(p) => \A t \in Stores \ {s} : ~InEmployment(prof[t][a])
  BY ProfileFacts
<1>2. /\ p.status # "NONE" /\ InEmployment(p) /\ known' = known
      /\ UNCHANGED <<application, selfies, clerk, hired, outages>>
  BY DEF ChangeEmploymentType, Visible
<1>3. prof' = [prof EXCEPT ![s][a] = q]
  BY DEF ChangeEmploymentType, EmploymentInd, EmploymentTypeOK
<1>4. /\ q \in EmployeeProfile /\ q.status = status /\ q.deleted = p.deleted
      /\ q.contracts = p.contracts /\ q.stint = p.stint
  BY <1>1 DEF EmployeeProfile, EmploymentStatus, EmployedStatuses
<1>5. InEmployment(q) /\ status \notin {"NONE", "PENDING", "TERMINATED"}
  BY <1>4 DEF InEmployment, EmployedStatuses
<1> HIDE DEF q, p
<1> QED
  BY <1>1, <1>2, <1>3, <1>4, <1>5, KnownStays, OwnerStepKeeps

\* A new list of contracts, all of the current stint.
LEMMA ContractsStepKeeps ==
  ASSUME EmploymentInd, NEW s \in Stores, NEW a \in Accounts,
         NEW cs \in SUBSET EmployeeContract, cs \subseteq {prof[s][a].stint},
         prof[s][a].status # "NONE",
         prof' = [prof EXCEPT ![s][a].contracts = cs], known' = known,
         UNCHANGED <<application, selfies, clerk, hired, outages>>
  PROVE  EmploymentInd'
<1> DEFINE p == prof[s][a]
           q == [p EXCEPT !.contracts = cs]
<1>1. /\ p \in EmployeeProfile /\ a \in known
      /\ p.status = "PENDING" => p.stint = 0
      /\ p.deleted <=> p.status = "TERMINATED"
      /\ p.tied => InEmployment(p)
      /\ InEmployment(p) => \A t \in Stores \ {s} : ~InEmployment(prof[t][a])
  BY ProfileFacts
<1>2. prof' = [prof EXCEPT ![s][a] = q]
  BY DEF EmploymentInd, EmploymentTypeOK
<1>3. /\ q \in EmployeeProfile /\ q.status = p.status /\ q.deleted = p.deleted
      /\ q.contracts = cs /\ q.stint = p.stint /\ q.tied = p.tied
  BY <1>1 DEF EmployeeProfile
<1>4. InEmployment(q) <=> InEmployment(p)
  BY <1>3 DEF InEmployment
<1>5. p.status # "NONE" /\ cs \subseteq {p.stint}
  OBVIOUS
<1> HIDE DEF q, p
<1> QED
  BY <1>1, <1>2, <1>3, <1>4, <1>5, KnownStays, OwnerStepKeeps, ZenonT(30)

LEMMA CreateContractKeeps ==
  ASSUME EmploymentInd, NEW s \in Stores, NEW a \in Accounts, CreateContract(s, a)
  PROVE  EmploymentInd'
<1> DEFINE cs == prof[s][a].contracts \cup {prof[s][a].stint}
<1>1. /\ prof[s][a].stint \in 0 .. MaxStints /\ prof[s][a].contracts \subseteq EmployeeContract
      /\ prof[s][a].contracts \subseteq {prof[s][a].stint}
  BY ProfileFacts
<1>2. /\ prof[s][a].status # "NONE" /\ prof[s][a].stint > 0
      /\ prof' = [prof EXCEPT ![s][a].contracts = cs] /\ known' = known
      /\ UNCHANGED <<application, selfies, clerk, hired, outages>>
  BY DEF CreateContract, Visible, EmploymentInd, EmploymentTypeOK
<1>3. cs \in SUBSET EmployeeContract /\ cs \subseteq {prof[s][a].stint}
  BY <1>1, <1>2, EmploymentAssumption DEF EmployeeContract
<1> HIDE DEF cs
<1> QED
  BY <1>2, <1>3, ContractsStepKeeps

LEMMA RenewContractKeeps ==
  ASSUME EmploymentInd, NEW s \in Stores, NEW a \in Accounts, NEW c \in 1 .. MaxStints,
         RenewContract(s, a, c)
  PROVE  EmploymentInd'
<1> DEFINE cs == (prof[s][a].contracts \ {c}) \cup {prof[s][a].stint}
<1>1. /\ prof[s][a].contracts \subseteq EmployeeContract
      /\ prof[s][a].contracts \subseteq {prof[s][a].stint}
      /\ prof[s][a].status = "NONE" => prof[s][a] = NoProfile
  BY ProfileFacts
<1>2. /\ c \in prof[s][a].contracts
      /\ prof' = [prof EXCEPT ![s][a].contracts = cs] /\ known' = known
      /\ UNCHANGED <<application, selfies, clerk, hired, outages>>
  BY DEF RenewContract, EmploymentInd, EmploymentTypeOK
<1>3. prof[s][a].stint = c /\ prof[s][a].status # "NONE"
  BY <1>1, <1>2 DEF NoProfile
<1>4. cs \in SUBSET EmployeeContract /\ cs \subseteq {prof[s][a].stint}
  BY <1>1, <1>2, <1>3
<1> HIDE DEF cs
<1> QED
  BY <1>2, <1>3, <1>4, ContractsStepKeeps

LEMMA TieKeeps ==
  ASSUME EmploymentInd, NEW s \in Stores, NEW a \in Accounts, Tie(s, a)
  PROVE  EmploymentInd'
<1> DEFINE p == prof[s][a]
           q == [p EXCEPT !.tied = TRUE]
<1>1. /\ p \in EmployeeProfile
      /\ p.status # "NONE" => a \in known
      /\ p.status = "PENDING" => p.stint = 0
      /\ p.deleted <=> p.status = "TERMINATED"
      /\ p.contracts \subseteq {p.stint}
      /\ InEmployment(p) => \A t \in Stores \ {s} : ~InEmployment(prof[t][a])
  BY ProfileFacts
<1>2. /\ p.status # "NONE" /\ InEmployment(p) /\ known' = known
      /\ UNCHANGED <<application, selfies, clerk, hired, outages>>
  BY DEF Tie, Visible
<1>3. prof' = [prof EXCEPT ![s][a] = q]
  BY DEF Tie, EmploymentInd, EmploymentTypeOK
<1>4. /\ q \in EmployeeProfile /\ q.status = p.status /\ q.deleted = p.deleted
      /\ q.contracts = p.contracts /\ q.stint = p.stint
  BY <1>1 DEF EmployeeProfile
<1>5. InEmployment(q)
  BY <1>2, <1>4 DEF InEmployment
<1> HIDE DEF q, p
<1> QED
  BY <1>1, <1>2, <1>3, <1>4, <1>5, KnownStays, OwnerStepKeeps

-----------------------------------------------------------------------------
\* What a clerk starts, goes on with and ends changes its own record.
LEMMA ClerkStarts ==
  ASSUME EmploymentTypeOK, NEW w \in Clerks, NEW pc \in ClerkSteps, NEW i \in Applications,
         NEW s \in Stores, NEW a \in Accounts, ClerkTakes(w, pc, i, s, a)
  PROVE  /\ clerk[w] = Free
         /\ clerk' \in [Clerks -> ClerkState]
         /\ clerk'[w] = [pc |-> pc, i |-> i, store |-> s, account |-> a]
         /\ \A v \in Clerks \ {w} : clerk'[v] = clerk[v]
<1>1. [pc |-> pc, i |-> i, store |-> s, account |-> a] \in ClerkState
  BY DEF ClerkState
<1> QED
  BY <1>1 DEF ClerkTakes, EmploymentTypeOK

LEMMA ClerkMovesOn ==
  ASSUME EmploymentTypeOK, NEW w \in Clerks, NEW pc \in ClerkSteps, ClerkGoes(w, pc)
  PROVE  /\ clerk' \in [Clerks -> ClerkState]
         /\ clerk'[w].pc = pc /\ clerk'[w].i = clerk[w].i
         /\ clerk'[w].store = clerk[w].store /\ clerk'[w].account = clerk[w].account
         /\ \A v \in Clerks \ {w} : clerk'[v] = clerk[v]
  BY DEF ClerkGoes, EmploymentTypeOK, ClerkState

LEMMA ClerkIsDone ==
  ASSUME EmploymentTypeOK, NEW w \in Clerks, ClerkEnds(w)
  PROVE  /\ clerk' \in [Clerks -> ClerkState]
         /\ clerk'[w] = Free
         /\ \A v \in Clerks \ {w} : clerk'[v] = clerk[v]
<1>1. Free \in ClerkState
  BY DEF Free, ClerkState, ClerkSteps
<1> QED
  BY <1>1 DEF ClerkEnds, EmploymentTypeOK

\* What is known of a clerk.
LEMMA ClerkFacts ==
  ASSUME EmploymentInd, NEW w \in Clerks, clerk[w].pc # "free"
  PROVE  /\ clerk[w].i \in Applications /\ clerk[w].store \in Stores
         /\ clerk[w].account \in known /\ clerk[w].account \in Accounts
         /\ clerk[w].pc = "insert" =>
              /\ application[clerk[w].i] = NoApplication /\ clerk[w].i \in selfies
              /\ \A v \in Clerks : clerk[v].i = clerk[w].i => v = w
         /\ clerk[w].pc # "insert" =>
              /\ application[clerk[w].i].status # "NONE"
              /\ application[clerk[w].i].store = clerk[w].store
              /\ application[clerk[w].i].account = clerk[w].account
         /\ clerk[w].pc \in {"removeSelfie", "purge"} => ~application[clerk[w].i].selfie
<1>1. clerk[w] # Free
  BY DEF Free
<1> QED
  BY <1>1 DEF EmploymentInd, ClerksInHand, EmploymentTypeOK

\* Applications keep their store and their account, and no selfie comes back ...
PlacesKept ==
  \A i \in Applications :
    \/ application'[i] = application[i]
    \/ /\ application[i].status # "NONE" /\ application'[i].status # "NONE"
       /\ application'[i].store = application[i].store
       /\ application'[i].account = application[i].account
       /\ application'[i].selfie => application[i].selfie

\* ... while every clerk rests, ends or acts for an application that is there.
ClerkRests(w) == clerk'[w] = clerk[w] \/ clerk'[w] = Free
ClerkActs(w) ==
  /\ clerk'[w].pc \notin {"free", "insert"}
  /\ clerk'[w].i \in Applications
  /\ application[clerk'[w].i].status # "NONE"
  /\ clerk'[w].store = application[clerk'[w].i].store
  /\ clerk'[w].account = application[clerk'[w].i].account
  /\ clerk'[w].pc \in {"removeSelfie", "purge"} => ~application'[clerk'[w].i].selfie

LEMMA DesksKept ==
  ASSUME EmploymentInd, known' = known, PlacesKept,
         \A w \in Clerks : ClerkRests(w) \/ ClerkActs(w),
         \A i \in selfies \ selfies' : application[i].status # "NONE"
  PROVE  ApplicationsInHand' /\ ClerksInHand'
<1>1. ApplicationsInHand'
  <2> SUFFICES ASSUME NEW i \in Applications
               PROVE  \/ application'[i] = NoApplication
                      \/ /\ application'[i].status # "NONE"
                         /\ application'[i].store \in Stores
                         /\ application'[i].account \in known'
    BY DEF ApplicationsInHand
  <2>1. \/ application[i] = NoApplication
        \/ /\ application[i].status # "NONE"
           /\ application[i].store \in Stores
           /\ application[i].account \in known
    BY DEF EmploymentInd, ApplicationsInHand
  <2>2. NoApplication.status = "NONE"
    BY DEF NoApplication
  <2> QED
    BY <2>1, <2>2 DEF PlacesKept
<1>2. ASSUME NEW w \in Clerks
      PROVE  LET c == clerk'[w]
                 x == application'[c.i] IN
             \/ c = Free
             \/ /\ c.pc # "free"
                /\ c.i \in Applications /\ c.store \in Stores /\ c.account \in known'
                /\ IF c.pc = "insert"
                   THEN /\ x = NoApplication /\ c.i \in selfies'
                        /\ \A v \in Clerks : clerk'[v].i = c.i => v = w
                   ELSE x.status # "NONE" /\ x.store = c.store /\ x.account = c.account
                /\ c.pc \in {"removeSelfie", "purge"} => ~x.selfie
  <2>1. CASE clerk'[w] = Free
    BY <2>1
  <2>2. CASE ClerkActs(w)
    <3> DEFINE i == clerk'[w].i
    <3>1. /\ i \in Applications /\ application[i].status # "NONE"
          /\ clerk'[w].store = application[i].store
          /\ clerk'[w].account = application[i].account
      BY <2>2 DEF ClerkActs
    <3>2. application[i].store \in Stores /\ application[i].account \in known
      BY <3>1 DEF EmploymentInd, ApplicationsInHand, NoApplication
    <3>3. /\ application'[i].status # "NONE" /\ application'[i].store = application[i].store
          /\ application'[i].account = application[i].account
      BY <3>1 DEF PlacesKept
    <3> QED
      BY <2>2, <3>1, <3>2, <3>3 DEF ClerkActs
  <2>3. CASE clerk'[w] = clerk[w] /\ clerk[w] # Free
    <3> DEFINE i == clerk[w].i
    <3>1. /\ clerk[w].pc # "free"
          /\ i \in Applications /\ clerk[w].store \in Stores /\ clerk[w].account \in known
          /\ IF clerk[w].pc = "insert"
             THEN /\ application[i] = NoApplication /\ i \in selfies
                  /\ \A v \in Clerks : clerk[v].i = i => v = w
             ELSE /\ application[i].status # "NONE" /\ application[i].store = clerk[w].store
                  /\ application[i].account = clerk[w].account
          /\ clerk[w].pc \in {"removeSelfie", "purge"} => ~application[i].selfie
      BY <2>3 DEF EmploymentInd, ClerksInHand
    <3>2. CASE clerk[w].pc = "insert"
      <4>1. application[i] = NoApplication /\ application[i].status = "NONE"
        BY <3>1, <3>2 DEF NoApplication
      <4>2. application'[i] = NoApplication
        BY <3>1, <4>1 DEF PlacesKept
      <4>3. ASSUME NEW v \in Clerks, clerk'[v].i = i PROVE v = w
        <5>1. ~ClerkActs(v)
          BY <4>1, <4>3 DEF ClerkActs
        <5>2. clerk'[v] # Free
          BY <3>1, <4>3, EmploymentAssumption DEF Free
        <5>3. clerk'[v] = clerk[v]
          BY <5>1, <5>2 DEF ClerkRests
        <5> QED
          BY <3>1, <3>2, <4>3, <5>3
      <4>4. i \in selfies'
        BY <3>1, <3>2, <4>1
      <4> QED
        BY <2>3, <3>1, <3>2, <4>2, <4>3, <4>4
    <3>3. CASE clerk[w].pc # "insert"
      BY <2>3, <3>1, <3>3 DEF PlacesKept
    <3> QED
      BY <3>2, <3>3
  <2> QED
    BY <2>1, <2>2, <2>3 DEF ClerkRests
<1>3. ClerksInHand'
  BY <1>2, Zenon DEF ClerksInHand
<1> QED
  BY <1>1, <1>3

\* Files of a step that touches none, nor a clerk that is at one.
LEMMA SelfiesKept ==
  ASSUME EmploymentInd, selfies' = selfies, outages' = outages,
         \A i \in Applications : application'[i].selfie = application[i].selfie,
         \A v \in Clerks : clerk[v].pc \in {"insert", "removeSelfie", "purge"} =>
                             clerk'[v] = clerk[v]
  PROVE  SelfiesMatchRows'
<1>1. \A i \in Applications : application'[i].selfie => i \in selfies'
  BY DEF EmploymentInd, SelfiesMatchRows
<1>2. ASSUME outages' = 0, NEW i \in selfies'
      PROVE  \/ application'[i].selfie
             \/ \E w \in Clerks :
                  /\ clerk'[w].i = i
                  /\ clerk'[w].pc \in {"insert", "removeSelfie", "purge"}
  BY <1>2 DEF EmploymentInd, SelfiesMatchRows, EmploymentTypeOK
<1> QED
  BY <1>1, <1>2 DEF SelfiesMatchRows

\* A step on applications and clerks that leaves profiles and files alone.
LEMMA OfficeStepKeeps ==
  ASSUME EmploymentInd, UNCHANGED <<known, prof, selfies, outages>>,
         hired' \in SUBSET Applications,
         application' \in [Applications -> JobApplication],
         clerk' \in [Clerks -> ClerkState],
         PlacesKept, \A w \in Clerks : ClerkRests(w) \/ ClerkActs(w),
         \A i \in Applications : application'[i].selfie = application[i].selfie,
         \A v \in Clerks : clerk[v].pc \in {"insert", "removeSelfie", "purge"} =>
                             clerk'[v] = clerk[v]
  PROVE  EmploymentInd'
<1>1. ProfilesInHand' /\ EmployedOnce' /\ StintStartsClean' /\ CandidatesCanBeHired'
  BY ProfilesRest
<1>2. ApplicationsInHand' /\ ClerksInHand'
  BY DesksKept
<1>3. SelfiesMatchRows'
  BY SelfiesKept
<1>4. EmploymentTypeOK'
  BY DEF EmploymentInd, EmploymentTypeOK
<1> QED
  BY <1>1, <1>2, <1>3, <1>4 DEF EmploymentInd

\* One application changes its status, never its place or its selfie.
LEMMA ApplicationFacts ==
  ASSUME EmploymentInd, NEW i \in Applications, application[i].status # "NONE"
  PROVE  /\ application[i] \in JobApplication
         /\ application[i].store \in Stores
         /\ application[i].account \in known /\ application[i].account \in Accounts
  BY DEF EmploymentInd, EmploymentTypeOK, ApplicationsInHand, NoApplication

LEMMA AcceptClaimKeeps ==
  ASSUME EmploymentInd, NEW w \in Clerks, NEW i \in Applications, AcceptClaim(w, i)
  PROVE  EmploymentInd'
<1> DEFINE x == application[i]
           y == [x EXCEPT !.status = "ACCEPTED", !.reviewed = TRUE]
<1>1. /\ x.status = "PENDING" /\ ClerkTakes(w, "hire", i, x.store, x.account)
      /\ UNCHANGED <<known, prof, selfies, hired, outages>>
  BY DEF AcceptClaim
<1>2. x \in JobApplication /\ x.store \in Stores /\ x.account \in Accounts
  BY <1>1, ApplicationFacts
<1>3. y \in JobApplication /\ y.status = "ACCEPTED" /\ y.store = x.store
      /\ y.account = x.account /\ y.selfie = x.selfie
  BY <1>2 DEF JobApplication
<1>4. application' = [application EXCEPT ![i] = y]
  BY DEF AcceptClaim, EmploymentInd, EmploymentTypeOK
<1> HIDE DEF y
<1>5. /\ application' \in [Applications -> JobApplication]
      /\ application'[i] = y /\ \A j \in Applications \ {i} : application'[j] = application[j]
  BY <1>3, <1>4 DEF EmploymentInd, EmploymentTypeOK
<1>6. /\ clerk[w] = Free
      /\ clerk' \in [Clerks -> ClerkState]
      /\ clerk'[w] = [pc |-> "hire", i |-> i, store |-> x.store, account |-> x.account]
      /\ \A v \in Clerks \ {w} : clerk'[v] = clerk[v]
  BY <1>1, <1>2, ClerkStarts DEF EmploymentInd, ClerkSteps
<1>7. PlacesKept
  BY <1>1, <1>3, <1>5 DEF PlacesKept
<1>8. ClerkActs(w) /\ \A v \in Clerks \ {w} : ClerkRests(v)
  BY <1>1, <1>6 DEF ClerkActs, ClerkRests
<1>9. /\ \A j \in Applications : application'[j].selfie = application[j].selfie
      /\ \A v \in Clerks : clerk[v].pc \in {"insert", "removeSelfie", "purge"} =>
                             clerk'[v] = clerk[v]
  BY <1>3, <1>5, <1>6 DEF Free
<1>10. hired' \in SUBSET Applications
  BY <1>1 DEF EmploymentInd, EmploymentTypeOK
<1> QED
  BY <1>1, <1>5, <1>6, <1>7, <1>8, <1>9, <1>10, OfficeStepKeeps

LEMMA RejectKeeps ==
  ASSUME EmploymentInd, NEW w \in Clerks, NEW i \in Applications, Reject(w, i)
  PROVE  EmploymentInd'
<1> DEFINE x == application[i]
           y == [x EXCEPT !.status = "REJECTED", !.reviewed = TRUE, !.redacted = TRUE]
<1>1. /\ x.status = "PENDING" /\ ClerkTakes(w, "closeProfile", i, x.store, x.account)
      /\ UNCHANGED <<known, prof, selfies, hired, outages>>
  BY DEF Reject
<1>2. x \in JobApplication /\ x.store \in Stores /\ x.account \in Accounts
  BY <1>1, ApplicationFacts
<1>3. y \in JobApplication /\ y.status = "REJECTED" /\ y.store = x.store
      /\ y.account = x.account /\ y.selfie = x.selfie
  BY <1>2 DEF JobApplication
<1>4. application' = [application EXCEPT ![i] = y]
  BY DEF Reject, EmploymentInd, EmploymentTypeOK
<1> HIDE DEF y
<1>5. /\ application' \in [Applications -> JobApplication]
      /\ application'[i] = y /\ \A j \in Applications \ {i} : application'[j] = application[j]
  BY <1>3, <1>4 DEF EmploymentInd, EmploymentTypeOK
<1>6. /\ clerk[w] = Free
      /\ clerk' \in [Clerks -> ClerkState]
      /\ clerk'[w] = [pc |-> "closeProfile", i |-> i, store |-> x.store, account |-> x.account]
      /\ \A v \in Clerks \ {w} : clerk'[v] = clerk[v]
  BY <1>1, <1>2, ClerkStarts DEF EmploymentInd, ClerkSteps
<1>7. PlacesKept
  BY <1>1, <1>3, <1>5 DEF PlacesKept
<1>8. ClerkActs(w) /\ \A v \in Clerks \ {w} : ClerkRests(v)
  BY <1>1, <1>6 DEF ClerkActs, ClerkRests
<1>9. /\ \A j \in Applications : application'[j].selfie = application[j].selfie
      /\ \A v \in Clerks : clerk[v].pc \in {"insert", "removeSelfie", "purge"} =>
                             clerk'[v] = clerk[v]
  BY <1>3, <1>5, <1>6 DEF Free
<1>10. hired' \in SUBSET Applications
  BY <1>1 DEF EmploymentInd, EmploymentTypeOK
<1> QED
  BY <1>1, <1>5, <1>6, <1>7, <1>8, <1>9, <1>10, OfficeStepKeeps

\* A clerk's own record moves on or ends; of the applications, those in hand may change status.
LEMMA ClerkStepKeeps ==
  ASSUME EmploymentInd, NEW w \in Clerks, clerk[w].pc \in {"hire", "failed", "finish"},
         UNCHANGED <<known, prof, selfies, hired, outages>>,
         application' \in [Applications -> JobApplication], PlacesKept,
         \A i \in Applications : application'[i].selfie = application[i].selfie,
         ClerkEnds(w) \/ \E pc \in {"finish", "failed"} : ClerkGoes(w, pc)
  PROVE  EmploymentInd'
<1>1. /\ clerk' \in [Clerks -> ClerkState]
      /\ \A v \in Clerks \ {w} : clerk'[v] = clerk[v]
      /\ \/ clerk'[w] = Free
         \/ /\ clerk'[w].pc \in {"finish", "failed"} /\ clerk'[w].i = clerk[w].i
            /\ clerk'[w].store = clerk[w].store /\ clerk'[w].account = clerk[w].account
  BY ClerkMovesOn, ClerkIsDone DEF EmploymentInd, ClerkSteps
<1>2. /\ clerk[w].i \in Applications /\ application[clerk[w].i].status # "NONE"
      /\ application[clerk[w].i].store = clerk[w].store
      /\ application[clerk[w].i].account = clerk[w].account
  BY ClerkFacts
<1>3. \A v \in Clerks : ClerkRests(v) \/ ClerkActs(v)
  BY <1>1, <1>2 DEF ClerkRests, ClerkActs
<1>4. hired' \in SUBSET Applications
  BY DEF EmploymentInd, EmploymentTypeOK
<1> QED
  BY <1>1, <1>3, <1>4, OfficeStepKeeps

\* Applications that stay as they are.
LEMMA ApplicationsRest ==
  ASSUME EmploymentInd, application' = application
  PROVE  /\ application' \in [Applications -> JobApplication] /\ PlacesKept
         /\ \A i \in Applications : application'[i].selfie = application[i].selfie
  BY DEF EmploymentInd, EmploymentTypeOK, PlacesKept

\* The claim goes back: only of an accepted application, to the pending ones.
LEMMA ClaimReleased ==
  ASSUME EmploymentInd, NEW w \in Clerks, clerk[w].pc = "failed",
         application' = ReleaseClaim(clerk[w])
  PROVE  /\ application' \in [Applications -> JobApplication] /\ PlacesKept
         /\ \A i \in Applications : application'[i].selfie = application[i].selfie
<1> DEFINE i == clerk[w].i
           x == application[i]
           y == [x EXCEPT !.status = "PENDING", !.reviewed = FALSE]
<1>1. i \in Applications /\ x.status # "NONE"
  BY ClerkFacts
<1>2. x \in JobApplication
  BY <1>1 DEF EmploymentInd, EmploymentTypeOK
<1>3. y \in JobApplication /\ y.status = "PENDING" /\ y.store = x.store
      /\ y.account = x.account /\ y.selfie = x.selfie
  BY <1>2 DEF JobApplication
<1>4. application' = application \/ application' = [application EXCEPT ![i] = y]
  BY <1>1 DEF ReleaseClaim, EmploymentInd, EmploymentTypeOK
<1> HIDE DEF y, i
<1>5. CASE application' = [application EXCEPT ![i] = y]
  <2>1. /\ application' \in [Applications -> JobApplication]
        /\ application'[i] = y /\ \A j \in Applications \ {i} : application'[j] = application[j]
    BY <1>1, <1>3, <1>5 DEF EmploymentInd, EmploymentTypeOK
  <2> QED
    BY <1>1, <1>3, <2>1 DEF PlacesKept
<1> QED
  BY <1>4, <1>5, ApplicationsRest

LEMMA AfterFailedHireKeeps ==
  ASSUME EmploymentInd, NEW w \in Clerks, AfterFailedHire(w)
  PROVE  EmploymentInd'
<1>1. clerk[w].pc = "failed" /\ UNCHANGED <<known, prof, selfies, hired, outages>>
  BY DEF AfterFailedHire
<1>2. CASE ClerkGoes(w, "finish") /\ UNCHANGED application
  BY <1>1, <1>2, ApplicationsRest, ClerkStepKeeps
<1>3. CASE ClerkEnds(w) /\ application' = ReleaseClaim(clerk[w])
  BY <1>1, <1>3, ClaimReleased, ClerkStepKeeps
<1> QED
  BY <1>2, <1>3 DEF AfterFailedHire

LEMMA AcceptFinishKeeps ==
  ASSUME EmploymentInd, NEW w \in Clerks, AcceptFinish(w)
  PROVE  EmploymentInd'
  BY ApplicationsRest, ClerkStepKeeps DEF AcceptFinish

\* Time passes over one application, or a sweep clears and expires several.
LEMMA OldApplicationsKeep ==
  ASSUME EmploymentInd, UNCHANGED <<known, prof, selfies, clerk, hired, outages>>,
         application' = [i \in Applications |-> application'[i]],
         \A i \in Applications :
           \/ application'[i] = application[i]
           \/ /\ application[i].status # "NONE"
              /\ \E y \in JobApplication :
                   /\ application'[i] = y /\ y.status # "NONE" /\ y.store = application[i].store
                   /\ y.account = application[i].account /\ y.selfie = application[i].selfie
  PROVE  EmploymentInd'
<1>1. \A i \in Applications : application'[i] \in JobApplication
  BY DEF EmploymentInd, EmploymentTypeOK
<1>2. application' \in [Applications -> JobApplication]
  BY <1>1
<1>3. PlacesKept
  BY DEF PlacesKept
<1>4. \A i \in Applications : application'[i].selfie = application[i].selfie
  OBVIOUS
<1>5. \A w \in Clerks : ClerkRests(w)
  BY DEF ClerkRests
<1>6. hired' \in SUBSET Applications /\ clerk' \in [Clerks -> ClerkState]
  BY DEF EmploymentInd, EmploymentTypeOK
<1> QED
  BY <1>2, <1>3, <1>4, <1>5, <1>6, OfficeStepKeeps

LEMMA GrowOldKeeps ==
  ASSUME EmploymentInd, NEW i \in Applications, GrowOld(i)
  PROVE  EmploymentInd'
<1> DEFINE y == [application[i] EXCEPT !.old = TRUE]
<1>1. application[i].status # "NONE" /\ UNCHANGED <<known, prof, selfies, clerk, hired, outages>>
  BY DEF GrowOld
<1>2. application[i] \in JobApplication
  BY DEF EmploymentInd, EmploymentTypeOK
<1>3. /\ y \in JobApplication /\ y.status = application[i].status
      /\ y.store = application[i].store /\ y.account = application[i].account
      /\ y.selfie = application[i].selfie
  BY <1>2 DEF JobApplication
<1>4. application' = [application EXCEPT ![i] = y]
  BY DEF GrowOld, EmploymentInd, EmploymentTypeOK
<1> HIDE DEF y
<1>5. /\ application' = [j \in Applications |-> application'[j]]
      /\ application'[i] = y /\ \A j \in Applications \ {i} : application'[j] = application[j]
  BY <1>4 DEF EmploymentInd, EmploymentTypeOK
<1> QED
  BY <1>1, <1>3, <1>5, OldApplicationsKeep

LEMMA RedactKeeps ==
  ASSUME EmploymentInd, RedactStaleContactDetails
  PROVE  EmploymentInd'
<1>1. /\ application' =
           [i \in Applications |->
              IF i \in ExpireAbandoned
              THEN [application[i] EXCEPT !.status = "CANCELLED", !.redacted = TRUE]
              ELSE IF i \in RedactReviewed
              THEN [application[i] EXCEPT !.redacted = TRUE]
              ELSE application[i]]
      /\ UNCHANGED <<known, prof, selfies, clerk, hired, outages>>
  BY DEF RedactStaleContactDetails
<1>2. ASSUME NEW i \in Applications
      PROVE  \/ application'[i] = application[i]
             \/ /\ application[i].status # "NONE"
                /\ \E y \in JobApplication :
                     /\ application'[i] = y /\ y.status # "NONE"
                     /\ y.store = application[i].store /\ y.account = application[i].account
                     /\ y.selfie = application[i].selfie
  <2> DEFINE expired == [application[i] EXCEPT !.status = "CANCELLED", !.redacted = TRUE]
             redone == [application[i] EXCEPT !.redacted = TRUE]
  <2>1. application[i] \in JobApplication
    BY DEF EmploymentInd, EmploymentTypeOK
  <2>2. /\ expired \in JobApplication /\ expired.status = "CANCELLED"
        /\ expired.store = application[i].store /\ expired.account = application[i].account
        /\ expired.selfie = application[i].selfie
    BY <2>1 DEF JobApplication
  <2>3. /\ redone \in JobApplication /\ redone.status = application[i].status
        /\ redone.store = application[i].store /\ redone.account = application[i].account
        /\ redone.selfie = application[i].selfie
    BY <2>1 DEF JobApplication
  <2>4. i \in ExpireAbandoned \cup RedactReviewed => application[i].status # "NONE"
    BY DEF ExpireAbandoned, RedactReviewed
  <2>5. application'[i] = IF i \in ExpireAbandoned THEN expired
                          ELSE IF i \in RedactReviewed THEN redone ELSE application[i]
    BY <1>1
  <2> HIDE DEF expired, redone
  <2> QED
    BY <2>2, <2>3, <2>4, <2>5
<1>3. application' = [i \in Applications |-> application'[i]]
  BY <1>1
<1> HIDE <1>1
<1>4. UNCHANGED <<known, prof, selfies, clerk, hired, outages>>
  BY DEF RedactStaleContactDetails
<1> QED
  BY <1>2, <1>3, <1>4, OldApplicationsKeep

-----------------------------------------------------------------------------
\* The files.

\* A step that also writes or removes a file, or forgets the clerks.
LEMMA FileStepKeeps ==
  ASSUME EmploymentInd, UNCHANGED <<known, prof, hired>>, outages' \in 0 .. MaxOutages,
         selfies' \in SUBSET Applications,
         application' \in [Applications -> JobApplication],
         clerk' \in [Clerks -> ClerkState],
         ApplicationsInHand', ClerksInHand', SelfiesMatchRows'
  PROVE  EmploymentInd'
<1>1. ProfilesInHand' /\ EmployedOnce' /\ StintStartsClean' /\ CandidatesCanBeHired'
  BY ProfilesRest
<1>2. EmploymentTypeOK'
  BY DEF EmploymentInd, EmploymentTypeOK
<1> QED
  BY <1>1, <1>2 DEF EmploymentInd

\* What a file on disk is for.
Accounted(i) ==
  \/ application[i].selfie
  \/ \E w \in Clerks :
       clerk[w].i = i /\ clerk[w].pc \in {"insert", "removeSelfie", "purge"}

LEMMA FilesMatch ==
  ASSUME \A i \in Applications : application'[i].selfie => i \in selfies',
         outages' = 0 => \A i \in selfies' : Accounted(i)'
  PROVE  SelfiesMatchRows'
  BY DEF SelfiesMatchRows, Accounted

\* One clerk's step leaves a file accounted for which was neither its business nor lost its row.
LEMMA OtherFilesAccounted ==
  ASSUME EmploymentInd, NEW w \in Clerks, NEW i \in selfies, outages = 0,
         \A v \in Clerks \ {w} : clerk'[v] = clerk[v],
         clerk[w].pc \in {"insert", "removeSelfie", "purge"} => clerk[w].i # i,
         application[i].selfie => application'[i].selfie
  PROVE  Accounted(i)'
<1>1. Accounted(i)
  BY DEF EmploymentInd, SelfiesMatchRows, Accounted
<1>2. CASE application[i].selfie
  BY <1>2 DEF Accounted
<1>3. CASE \E v \in Clerks :
             clerk[v].i = i /\ clerk[v].pc \in {"insert", "removeSelfie", "purge"}
  <2>1. PICK v \in Clerks :
          clerk[v].i = i /\ clerk[v].pc \in {"insert", "removeSelfie", "purge"}
    BY <1>3
  <2>2. v # w
    BY <2>1
  <2>3. clerk'[v] = clerk[v]
    BY <2>2
  <2> QED
    BY <2>1, <2>3 DEF Accounted
<1> QED
  BY <1>1, <1>2, <1>3 DEF Accounted

LEMMA ApplyBeginKeeps ==
  ASSUME EmploymentInd, NEW w \in Clerks, NEW i \in Applications, NEW s \in Stores,
         NEW a \in Accounts, ApplyBegin(w, i, s, a)
  PROVE  EmploymentInd'
<1>1. /\ application[i].status = "NONE" /\ \A v \in Clerks : clerk[v].i # i
      /\ a \in known /\ selfies' = selfies \cup {i} /\ ClerkTakes(w, "insert", i, s, a)
      /\ UNCHANGED <<known, prof, application, hired, outages>>
  BY DEF ApplyBegin, EligibleApplicant
<1>2. /\ clerk[w] = Free
      /\ clerk' \in [Clerks -> ClerkState]
      /\ clerk'[w] = [pc |-> "insert", i |-> i, store |-> s, account |-> a]
      /\ \A v \in Clerks \ {w} : clerk'[v] = clerk[v]
  BY <1>1, ClerkStarts DEF EmploymentInd, ClerkSteps
<1>3. application[i] = NoApplication
  BY <1>1 DEF EmploymentInd, ApplicationsInHand
<1>4. ApplicationsInHand'
  BY <1>1 DEF EmploymentInd, ApplicationsInHand
<1>5. ClerksInHand'
  <2> SUFFICES ASSUME NEW v \in Clerks
               PROVE  LET c == clerk'[v]
                          x == application'[c.i] IN
                      \/ c = Free
                      \/ /\ c.pc # "free"
                         /\ c.i \in Applications /\ c.store \in Stores /\ c.account \in known'
                         /\ IF c.pc = "insert"
                            THEN /\ x = NoApplication /\ c.i \in selfies'
                                 /\ \A u \in Clerks : clerk'[u].i = c.i => u = v
                            ELSE x.status # "NONE" /\ x.store = c.store /\ x.account = c.account
                         /\ c.pc \in {"removeSelfie", "purge"} => ~x.selfie
    BY Zenon DEF ClerksInHand
  <2>1. CASE v = w
    BY <1>1, <1>2, <1>3, <2>1
  <2>2. CASE v # w /\ clerk[v] # Free
    <3>1. clerk'[v] = clerk[v] /\ clerk[v].pc # "free"
      BY <1>2, <2>2 DEF EmploymentInd, ClerksInHand
    <3>2. clerk'[w].i # clerk[v].i
      BY <1>1, <1>2
    <3> QED
      BY <1>1, <1>2, <3>1, <3>2, ClerkFacts
  <2>3. CASE v # w /\ clerk[v] = Free
    BY <1>2, <2>3
  <2> QED
    BY <2>1, <2>2, <2>3
<1>6. SelfiesMatchRows'
  <2>1. \A j \in Applications : application'[j].selfie => j \in selfies'
    BY <1>1 DEF EmploymentInd, SelfiesMatchRows
  <2>2. ASSUME outages' = 0, NEW j \in selfies' PROVE Accounted(j)'
    <3>1. CASE j = i
      BY <1>2, <3>1 DEF Accounted
    <3>2. CASE j # i
      <4>1. j \in selfies /\ outages = 0
        BY <1>1, <2>2, <3>2
      <4>2. clerk[w].pc \notin {"insert", "removeSelfie", "purge"}
        BY <1>2 DEF Free
      <4> QED
        BY <1>1, <1>2, <4>1, <4>2, OtherFilesAccounted
    <3> QED
      BY <3>1, <3>2
  <2> QED
    BY <2>1, <2>2, FilesMatch
<1>7. /\ outages' \in 0 .. MaxOutages /\ selfies' \in SUBSET Applications
      /\ application' \in [Applications -> JobApplication]
  BY <1>1 DEF EmploymentInd, EmploymentTypeOK
<1> QED
  BY <1>1, <1>2, <1>4, <1>5, <1>6, <1>7, FileStepKeeps

LEMMA ApplyInsertKeeps ==
  ASSUME EmploymentInd, NEW w \in Clerks, ApplyInsert(w)
  PROVE  EmploymentInd'
<1> DEFINE i == clerk[w].i
           x == [NoApplication EXCEPT !.status = "PENDING", !.store = clerk[w].store,
                                      !.account = clerk[w].account, !.selfie = TRUE]
<1>1. /\ clerk[w].pc = "insert" /\ UNCHANGED <<known, prof, hired, outages>>
  BY DEF ApplyInsert
<1>2. /\ i \in Applications /\ clerk[w].store \in Stores /\ clerk[w].account \in known
      /\ clerk[w].account \in Accounts
      /\ application[i] = NoApplication /\ i \in selfies
      /\ \A v \in Clerks : clerk[v].i = i => v = w
  BY <1>1, ClerkFacts
<1>3. outages' \in 0 .. MaxOutages
  BY <1>1 DEF EmploymentInd, EmploymentTypeOK
<1>4. CASE /\ application' = [application EXCEPT ![i] = x]
           /\ ClerkGoes(w, "openProfile") /\ UNCHANGED selfies
  <2>1. x \in JobApplication /\ x.status = "PENDING" /\ x.store = clerk[w].store
        /\ x.account = clerk[w].account /\ x.selfie
    BY <1>2 DEF JobApplication, NoApplication
  <2> HIDE DEF x, i
  <2>2. /\ application' \in [Applications -> JobApplication]
        /\ application'[i] = x
        /\ \A j \in Applications \ {i} : application'[j] = application[j]
    BY <1>2, <1>4, <2>1 DEF EmploymentInd, EmploymentTypeOK
  <2>3. /\ clerk' \in [Clerks -> ClerkState]
        /\ clerk'[w].pc = "openProfile" /\ clerk'[w].i = i
        /\ clerk'[w].store = clerk[w].store /\ clerk'[w].account = clerk[w].account
        /\ \A v \in Clerks \ {w} : clerk'[v] = clerk[v]
    BY <1>4, ClerkMovesOn DEF EmploymentInd, ClerkSteps, i
  <2>4. ApplicationsInHand'
    BY <1>1, <1>2, <2>1, <2>2 DEF EmploymentInd, ApplicationsInHand
  <2>5. ASSUME NEW v \in Clerks
        PROVE  LET c == clerk'[v]
                   y == application'[c.i] IN
               \/ c = Free
               \/ /\ c.pc # "free"
                  /\ c.i \in Applications /\ c.store \in Stores /\ c.account \in known'
                  /\ IF c.pc = "insert"
                     THEN /\ y = NoApplication /\ c.i \in selfies'
                          /\ \A u \in Clerks : clerk'[u].i = c.i => u = v
                     ELSE y.status # "NONE" /\ y.store = c.store /\ y.account = c.account
                  /\ c.pc \in {"removeSelfie", "purge"} => ~y.selfie
    <3>1. CASE v = w
      BY <1>1, <1>2, <2>1, <2>2, <2>3, <3>1
    <3>2. CASE v # w /\ clerk[v] # Free
      <4>1. clerk'[v] = clerk[v] /\ clerk[v].pc # "free"
        BY <2>3, <3>2 DEF EmploymentInd, ClerksInHand
      <4>2. clerk[v].i # i
        BY <1>2, <3>2
      <4>3. /\ clerk[v].i \in Applications
            /\ application'[clerk[v].i] = application[clerk[v].i]
        BY <2>2, <4>1, <4>2, ClerkFacts
      <4>4. \A u \in Clerks : clerk'[u].i = clerk[u].i
        BY <2>3 DEF i
      <4> QED
        BY <1>1, <1>4, <4>1, <4>3, <4>4, ClerkFacts
    <3>3. CASE v # w /\ clerk[v] = Free
      BY <2>3, <3>3
    <3> QED
      BY <3>1, <3>2, <3>3
  <2>6. ClerksInHand'
    BY <2>5, Zenon DEF ClerksInHand
  <2>7. \A j \in Applications : application'[j].selfie => j \in selfies'
    BY <1>2, <1>4, <2>2 DEF EmploymentInd, SelfiesMatchRows
  <2>8. ASSUME outages' = 0, NEW j \in selfies' PROVE Accounted(j)'
    <3>1. CASE j = i
      BY <2>1, <2>2, <3>1 DEF Accounted
    <3>2. CASE j # i
      <4>1. j \in selfies /\ j \in Applications /\ outages = 0
        BY <1>1, <1>4, <2>8 DEF EmploymentInd, EmploymentTypeOK
      <4> QED
        BY <2>2, <2>3, <3>2, <4>1, OtherFilesAccounted DEF i
    <3> QED
      BY <3>1, <3>2
  <2>9. SelfiesMatchRows'
    BY <2>7, <2>8, FilesMatch
  <2>10. selfies' \in SUBSET Applications
    BY <1>4 DEF EmploymentInd, EmploymentTypeOK
  <2> QED
    BY <1>1, <1>3, <2>2, <2>3, <2>4, <2>6, <2>9, <2>10, FileStepKeeps
<1>5. CASE selfies' = selfies \ {i} /\ ClerkEnds(w) /\ UNCHANGED application
  <2> HIDE DEF i
  <2>1. /\ clerk' \in [Clerks -> ClerkState] /\ clerk'[w] = Free
        /\ \A v \in Clerks \ {w} : clerk'[v] = clerk[v]
    BY <1>5, ClerkIsDone DEF EmploymentInd
  <2>2. ApplicationsInHand'
    BY <1>1, <1>5 DEF EmploymentInd, ApplicationsInHand
  <2>3. ASSUME NEW v \in Clerks
        PROVE  LET c == clerk'[v]
                   y == application'[c.i] IN
               \/ c = Free
               \/ /\ c.pc # "free"
                  /\ c.i \in Applications /\ c.store \in Stores /\ c.account \in known'
                  /\ IF c.pc = "insert"
                     THEN /\ y = NoApplication /\ c.i \in selfies'
                          /\ \A u \in Clerks : clerk'[u].i = c.i => u = v
                     ELSE y.status # "NONE" /\ y.store = c.store /\ y.account = c.account
                  /\ c.pc \in {"removeSelfie", "purge"} => ~y.selfie
    <3>1. CASE v = w \/ clerk[v] = Free
      BY <2>1, <3>1
    <3>2. CASE v # w /\ clerk[v] # Free
      <4>1. clerk'[v] = clerk[v] /\ clerk[v].pc # "free"
        BY <2>1, <3>2 DEF EmploymentInd, ClerksInHand
      <4>2. clerk[v].i # i /\ clerk[v].i \in Applications
        BY <1>2, <3>2, <4>1, ClerkFacts
      <4>3. \A u \in Clerks : clerk'[u].i = clerk[v].i => clerk[u].i = clerk[v].i
        BY <2>1, <4>2, EmploymentAssumption DEF Free
      <4> QED
        BY <1>1, <1>5, <4>1, <4>2, <4>3, ClerkFacts
    <3> QED
      BY <3>1, <3>2
  <2>4. ClerksInHand'
    BY <2>3, Zenon DEF ClerksInHand
  <2>5. \A j \in Applications : application'[j].selfie => j \in selfies'
    BY <1>2, <1>5 DEF EmploymentInd, SelfiesMatchRows, NoApplication
  <2>6. ASSUME outages' = 0, NEW j \in selfies' PROVE Accounted(j)'
    <3>1. j \in selfies /\ j # i /\ outages = 0
      BY <1>1, <1>5, <2>6
    <3> QED
      BY <1>5, <2>1, <3>1, OtherFilesAccounted DEF i
  <2>7. SelfiesMatchRows'
    BY <2>5, <2>6, FilesMatch
  <2>8. selfies' \in SUBSET Applications /\ application' \in [Applications -> JobApplication]
    BY <1>5 DEF EmploymentInd, EmploymentTypeOK
  <2> QED
    BY <1>1, <1>3, <2>1, <2>2, <2>4, <2>7, <2>8, FileStepKeeps
<1> QED
  BY <1>4, <1>5 DEF ApplyInsert

\* A row lets go of its selfie, and a clerk goes to remove the file.
LEMMA SelfieReleased ==
  ASSUME EmploymentInd, NEW w \in Clerks, NEW i \in Applications, application[i].status # "NONE",
         NEW pc \in {"removeSelfie", "purge"}, NEW y \in JobApplication,
         y.status # "NONE", y.store = application[i].store,
         y.account = application[i].account, ~y.selfie,
         application' = [application EXCEPT ![i] = y],
         ClerkTakes(w, pc, i, application[i].store, application[i].account),
         UNCHANGED <<known, prof, selfies, hired, outages>>
  PROVE  EmploymentInd'
<1> DEFINE s == application[i].store
           a == application[i].account
<1>1. s \in Stores /\ a \in Accounts
  BY ApplicationFacts
<1>2. /\ clerk[w] = Free
      /\ clerk' \in [Clerks -> ClerkState]
      /\ clerk'[w] = [pc |-> pc, i |-> i, store |-> s, account |-> a]
      /\ \A v \in Clerks \ {w} : clerk'[v] = clerk[v]
  <2>1. pc \in ClerkSteps /\ ClerkTakes(w, pc, i, s, a)
    BY DEF ClerkSteps
  <2> HIDE DEF s, a
  <2> QED
    BY <1>1, <2>1, ClerkStarts DEF EmploymentInd
<1>3. /\ application' \in [Applications -> JobApplication]
      /\ application'[i] = y /\ \A j \in Applications \ {i} : application'[j] = application[j]
  BY DEF EmploymentInd, EmploymentTypeOK
<1>4. PlacesKept
  BY <1>3 DEF PlacesKept
<1>5. ClerkActs(w) /\ \A v \in Clerks \ {w} : ClerkRests(v)
  BY <1>2, <1>3 DEF ClerkActs, ClerkRests
<1>6. ApplicationsInHand' /\ ClerksInHand'
  BY <1>4, <1>5, DesksKept
<1>7. \A j \in Applications : application'[j].selfie => j \in selfies'
  BY <1>3 DEF EmploymentInd, SelfiesMatchRows
<1>8. ASSUME outages' = 0, NEW j \in selfies' PROVE Accounted(j)'
  <2>1. CASE j = i
    BY <1>2, <2>1 DEF Accounted
  <2>2. CASE j # i
    <3>1. j \in selfies /\ j \in Applications /\ outages = 0
      BY <1>8 DEF EmploymentInd, EmploymentTypeOK
    <3>2. clerk[w].pc \notin {"insert", "removeSelfie", "purge"}
      BY <1>2 DEF Free
    <3> QED
      BY <1>2, <1>3, <2>2, <3>1, <3>2, OtherFilesAccounted
  <2> QED
    BY <2>1, <2>2
<1>9. SelfiesMatchRows'
  BY <1>7, <1>8, FilesMatch
<1>10. outages' \in 0 .. MaxOutages /\ selfies' \in SUBSET Applications
  BY DEF EmploymentInd, EmploymentTypeOK
<1> QED
  BY <1>2, <1>3, <1>6, <1>9, <1>10, FileStepKeeps

LEMMA WithdrawKeeps ==
  ASSUME EmploymentInd, NEW w \in Clerks, NEW i \in Applications, Withdraw(w, i)
  PROVE  EmploymentInd'
<1> DEFINE y == [application[i] EXCEPT !.status = "CANCELLED", !.reviewed = TRUE,
                                       !.redacted = TRUE, !.selfie = FALSE]
<1>1. /\ application[i].status = "PENDING"
      /\ ClerkTakes(w, "removeSelfie", i, application[i].store, application[i].account)
      /\ UNCHANGED <<known, prof, selfies, hired, outages>>
  BY DEF Withdraw
<1>2. y \in JobApplication /\ y.status = "CANCELLED" /\ y.store = application[i].store
      /\ y.account = application[i].account /\ ~y.selfie
  BY DEF EmploymentInd, EmploymentTypeOK, JobApplication
<1>3. application' = [application EXCEPT ![i] = y]
  BY DEF Withdraw, EmploymentInd, EmploymentTypeOK
<1> HIDE DEF y
<1> QED
  BY <1>1, <1>2, <1>3, SelfieReleased

LEMMA PurgeStaleSelfieKeeps ==
  ASSUME EmploymentInd, NEW w \in Clerks, NEW i \in Applications, PurgeStaleSelfie(w, i)
  PROVE  EmploymentInd'
<1> DEFINE y == [application[i] EXCEPT !.selfie = FALSE]
<1>1. /\ application[i].selfie
      /\ ClerkTakes(w, "purge", i, application[i].store, application[i].account)
      /\ UNCHANGED <<known, prof, selfies, hired, outages>>
  BY DEF PurgeStaleSelfie
<1>2. application[i].status # "NONE"
  BY <1>1 DEF EmploymentInd, ApplicationsInHand, NoApplication
<1>3. y \in JobApplication /\ y.status # "NONE" /\ y.store = application[i].store
      /\ y.account = application[i].account /\ ~y.selfie
  BY <1>2 DEF EmploymentInd, EmploymentTypeOK, JobApplication
<1>4. application' = [application EXCEPT ![i] = y]
  BY DEF PurgeStaleSelfie, EmploymentInd, EmploymentTypeOK
<1> HIDE DEF y
<1> QED
  BY <1>1, <1>2, <1>3, <1>4, SelfieReleased

LEMMA RemoveSelfieKeeps ==
  ASSUME EmploymentInd, NEW w \in Clerks, RemoveSelfie(w)
  PROVE  EmploymentInd'
<1> DEFINE i == clerk[w].i
<1>1. /\ clerk[w].pc \in {"removeSelfie", "purge"} /\ selfies' = selfies \ {i}
      /\ UNCHANGED <<known, prof, application, hired, outages>>
      /\ ClerkEnds(w) \/ ClerkGoes(w, "closeProfile")
  BY DEF RemoveSelfie
<1>2. /\ i \in Applications /\ application[i].status # "NONE" /\ ~application[i].selfie
      /\ application[i].store = clerk[w].store /\ application[i].account = clerk[w].account
  BY <1>1, ClerkFacts
<1>3. /\ clerk' \in [Clerks -> ClerkState]
      /\ \A v \in Clerks \ {w} : clerk'[v] = clerk[v]
      /\ \/ clerk'[w] = Free
         \/ /\ clerk'[w].pc = "closeProfile" /\ clerk'[w].i = i
            /\ clerk'[w].store = clerk[w].store /\ clerk'[w].account = clerk[w].account
  BY <1>1, ClerkMovesOn, ClerkIsDone DEF EmploymentInd, ClerkSteps
<1>4. PlacesKept
  BY <1>1 DEF PlacesKept
<1>5. \A v \in Clerks : ClerkRests(v) \/ ClerkActs(v)
  BY <1>2, <1>3 DEF ClerkRests, ClerkActs
<1>6. ApplicationsInHand' /\ ClerksInHand'
  BY <1>1, <1>2, <1>4, <1>5, DesksKept
<1> HIDE DEF i
<1>7. \A j \in Applications : application'[j].selfie => j \in selfies'
  BY <1>1, <1>2 DEF EmploymentInd, SelfiesMatchRows
<1>8. ASSUME outages' = 0, NEW j \in selfies' PROVE Accounted(j)'
  <2>1. j \in selfies /\ j # i /\ outages = 0
    BY <1>1, <1>8
  <2> QED
    BY <1>1, <1>3, <2>1, OtherFilesAccounted DEF i
<1>9. SelfiesMatchRows'
  BY <1>7, <1>8, FilesMatch
<1>10. /\ outages' \in 0 .. MaxOutages /\ selfies' \in SUBSET Applications
       /\ application' \in [Applications -> JobApplication]
  BY <1>1 DEF EmploymentInd, EmploymentTypeOK
<1> QED
  BY <1>1, <1>3, <1>6, <1>9, <1>10, FileStepKeeps

\* The process dies: nobody is at anything, and the files are not vouched for any more.
LEMMA OutageKeeps ==
  ASSUME EmploymentInd, Outage
  PROVE  EmploymentInd'
<1>1. /\ outages < MaxOutages /\ outages' = outages + 1 /\ clerk' = [w \in Clerks |-> Free]
      /\ UNCHANGED <<known, prof, application, selfies, hired>>
  BY DEF Outage
<1>2. outages \in 0 .. MaxOutages
  BY DEF EmploymentInd, EmploymentTypeOK
<1>3. outages' \in 0 .. MaxOutages /\ outages' # 0
  BY <1>1, <1>2, EmploymentAssumption
<1>4. clerk' \in [Clerks -> ClerkState]
  <2>1. Free \in ClerkState
    BY DEF Free, ClerkState, ClerkSteps
  <2> QED
    BY <1>1, <2>1
<1>5. PlacesKept /\ \A w \in Clerks : ClerkRests(w)
  BY <1>1 DEF PlacesKept, ClerkRests
<1>6. ApplicationsInHand' /\ ClerksInHand'
  BY <1>1, <1>5, DesksKept
<1>7. SelfiesMatchRows'
  BY <1>1, <1>3 DEF EmploymentInd, SelfiesMatchRows
<1>8. selfies' \in SUBSET Applications /\ application' \in [Applications -> JobApplication]
  BY <1>1 DEF EmploymentInd, EmploymentTypeOK
<1> QED
  BY <1>1, <1>3, <1>4, <1>6, <1>7, <1>8, FileStepKeeps

-----------------------------------------------------------------------------
\* Clerks that write a profile.
LEMMA ClerkProfileKeeps ==
  ASSUME EmploymentInd, NEW w \in Clerks,
         clerk[w].pc \in {"openProfile", "hire", "closeProfile"},
         NEW p \in EmployeeProfile,
         prof' = [prof EXCEPT ![clerk[w].store][clerk[w].account] = p],
         ClerkEnds(w) \/ \E pc \in {"finish", "failed"} : ClerkGoes(w, pc),
         UNCHANGED <<known, application, selfies, outages>>,
         hired' \in SUBSET Applications,
         p.status = "NONE" => p = NoProfile,
         p.status = "PENDING" => p.stint = 0,
         p.deleted <=> p.status = "TERMINATED",
         p.contracts \subseteq {p.stint},
         p.tied => InEmployment(p),
         InEmployment(p) => \A t \in Stores : ~InEmployment(prof[t][clerk[w].account])
  PROVE  EmploymentInd'
<1>0. PICK s \in Stores, a \in Accounts : s = clerk[w].store /\ a = clerk[w].account
  BY ClerkFacts
<1>1. /\ clerk[w].i \in Applications /\ a \in known
      /\ application[clerk[w].i].status # "NONE"
      /\ application[clerk[w].i].store = s /\ application[clerk[w].i].account = a
  BY <1>0, ClerkFacts
<1>2. /\ clerk' \in [Clerks -> ClerkState]
      /\ \A v \in Clerks \ {w} : clerk'[v] = clerk[v]
      /\ \/ clerk'[w] = Free
         \/ /\ clerk'[w].pc \in {"finish", "failed"} /\ clerk'[w].i = clerk[w].i
            /\ clerk'[w].store = s /\ clerk'[w].account = a
  BY <1>0, ClerkMovesOn, ClerkIsDone DEF EmploymentInd, ClerkSteps
<1>3. /\ prof' \in [Stores -> [Accounts -> EmployeeProfile]]
      /\ ProfilesInHand' /\ EmployedOnce' /\ StintStartsClean' /\ CandidatesCanBeHired'
  <2>1. known' \in SUBSET Accounts /\ known \subseteq known' /\ a \in known'
    BY <1>1, KnownStays
  <2>2. /\ prof' = [prof EXCEPT ![s][a] = p]
        /\ InEmployment(p) => \A t \in Stores : ~InEmployment(prof[t][a])
    BY <1>0
  <2>3. /\ p.status = "NONE" => p = NoProfile
        /\ p.status # "NONE" => a \in known'
        /\ p.status = "PENDING" => p.stint = 0
        /\ p.deleted <=> p.status = "TERMINATED"
        /\ p.contracts \subseteq {p.stint}
        /\ p.tied => InEmployment(p)
        /\ InEmployment(p) => \A t \in Stores \ {s} : ~InEmployment(prof[t][a])
    BY <2>1, <2>2
  <2> QED
    BY ONLY EmploymentInd, s \in Stores, a \in Accounts, p \in EmployeeProfile,
       <2>1, <2>2, <2>3, ProfileStepKeeps
<1>4. /\ application' \in [Applications -> JobApplication] /\ PlacesKept
      /\ \A i \in Applications : application'[i].selfie = application[i].selfie
  BY ApplicationsRest
<1>5. \A v \in Clerks : ClerkRests(v) \/ ClerkActs(v)
  BY <1>0, <1>1, <1>2 DEF ClerkRests, ClerkActs
<1>6. ApplicationsInHand' /\ ClerksInHand'
  BY <1>4, <1>5, DesksKept
<1>7. SelfiesMatchRows'
  BY <1>2, <1>4, SelfiesKept
<1>8. EmploymentTypeOK'
  BY <1>2, <1>3, <1>4 DEF EmploymentInd, EmploymentTypeOK
<1> QED
  BY <1>3, <1>6, <1>7, <1>8 DEF EmploymentInd

\* A clerk that leaves the profile as it is.
LEMMA ClerkProfileRests ==
  ASSUME EmploymentInd, NEW w \in Clerks,
         clerk[w].pc \in {"openProfile", "closeProfile"}, ClerkEnds(w),
         UNCHANGED <<known, prof, application, selfies, hired, outages>>
  PROVE  EmploymentInd'
<1>1. /\ clerk' \in [Clerks -> ClerkState] /\ clerk'[w] = Free
      /\ \A v \in Clerks \ {w} : clerk'[v] = clerk[v]
  BY ClerkIsDone DEF EmploymentInd
<1>2. \A v \in Clerks : ClerkRests(v)
  BY <1>1 DEF ClerkRests
<1>3. \A v \in Clerks : clerk[v].pc \in {"insert", "removeSelfie", "purge"} =>
                          clerk'[v] = clerk[v]
  BY <1>1
<1>4. hired' \in SUBSET Applications
  BY DEF EmploymentInd, EmploymentTypeOK
<1> QED
  BY <1>1, <1>2, <1>3, <1>4, ApplicationsRest, OfficeStepKeeps

LEMMA OpenPendingProfileKeeps ==
  ASSUME EmploymentInd, NEW w \in Clerks, OpenPendingProfile(w)
  PROVE  EmploymentInd'
<1> DEFINE s == clerk[w].store
           a == clerk[w].account
           q == [prof[s][a] EXCEPT !.status = "PENDING"]
<1>1. /\ clerk[w].pc = "openProfile" /\ ClerkEnds(w)
      /\ UNCHANGED <<known, application, selfies, hired, outages>>
  BY DEF OpenPendingProfile
<1>2. s \in Stores /\ a \in Accounts
  BY <1>1, ClerkFacts
<1>3. CASE prof[s][a].status = "NONE" /\ prof' = [prof EXCEPT ![s][a].status = "PENDING"]
  <2>1. q = [NoProfile EXCEPT !.status = "PENDING"]
    BY <1>2, <1>3, ProfileFacts
  <2>2. prof' = [prof EXCEPT ![s][a] = q]
    BY <1>2, <1>3 DEF EmploymentInd, EmploymentTypeOK
  <2> HIDE DEF q
  <2>3. q = [status |-> "PENDING", deleted |-> FALSE, stint |-> 0, contracts |-> {},
             tied |-> FALSE]
    BY <2>1 DEF NoProfile
  <2>4. /\ q.status = "PENDING" /\ q.stint = 0 /\ ~q.deleted /\ q.contracts = {} /\ ~q.tied
        /\ q \in EmployeeProfile
    BY <2>3, EmploymentAssumption DEF EmployeeProfile, EmploymentStatus
  <2>5. ~InEmployment(q)
    BY <2>4 DEF InEmployment, EmployedStatuses
  <2>6. hired' \in SUBSET Applications
    BY <1>1 DEF EmploymentInd, EmploymentTypeOK
  <2> QED
    BY <1>1, <2>2, <2>4, <2>5, <2>6, ClerkProfileKeeps
<1>4. CASE prof' = prof
  BY <1>1, <1>4, ClerkProfileRests
<1> QED
  BY <1>3, <1>4 DEF OpenPendingProfile

LEMMA ClosePendingProfileKeeps ==
  ASSUME EmploymentInd, NEW w \in Clerks, ClosePendingProfile(w)
  PROVE  EmploymentInd'
<1>1. /\ clerk[w].pc = "closeProfile" /\ ClerkEnds(w)
      /\ UNCHANGED <<known, application, selfies, hired, outages>>
  BY DEF ClosePendingProfile
<1>2. /\ NoProfile \in EmployeeProfile /\ NoProfile.status = "NONE" /\ ~NoProfile.deleted
      /\ NoProfile.contracts = {} /\ ~NoProfile.tied
  BY EmploymentAssumption DEF NoProfile, EmployeeProfile, EmploymentStatus
<1>3. ~InEmployment(NoProfile)
  BY <1>2 DEF InEmployment, EmployedStatuses
<1>4. hired' \in SUBSET Applications
  BY <1>1 DEF EmploymentInd, EmploymentTypeOK
<1>5. CASE prof' = [prof EXCEPT ![clerk[w].store][clerk[w].account] = NoProfile]
  BY <1>1, <1>2, <1>3, <1>4, <1>5, ClerkProfileKeeps
<1>6. CASE prof' = prof
  BY <1>1, <1>6, ClerkProfileRests
<1> QED
  BY <1>5, <1>6 DEF ClosePendingProfile

LEMMA AcceptHireKeeps ==
  ASSUME EmploymentInd, NEW w \in Clerks, AcceptHire(w)
  PROVE  EmploymentInd'
<1> DEFINE s == clerk[w].store
           a == clerk[w].account
<1>1. clerk[w].pc = "hire" /\ UNCHANGED <<known, application, selfies, outages>>
  BY DEF AcceptHire
<1>2. s \in Stores /\ a \in Accounts /\ clerk[w].i \in Applications
  BY <1>1, ClerkFacts
<1>3. CASE /\ MayAttach(s, a) /\ HireInto(s, a) /\ hired' = hired \cup {clerk[w].i}
           /\ \E pc \in {"finish", "failed"} : ClerkGoes(w, pc)
  <2>1. \A t \in Stores : ~InEmployment(prof[t][a])
    BY <1>3 DEF MayAttach
  <2>2. PICK p \in EmployeeProfile :
           /\ prof' = [prof EXCEPT ![s][a] = p]
           /\ p.status \in EmployedStatuses /\ ~p.deleted /\ ~p.tied
           /\ p.contracts \subseteq {p.stint}
    BY <1>2, <1>3, <2>1, HiredProfile
  <2>3. p.status \notin {"NONE", "PENDING", "TERMINATED"}
    BY <2>2 DEF EmployedStatuses
  <2>4. hired' \in SUBSET Applications
    BY <1>2, <1>3 DEF EmploymentInd, EmploymentTypeOK
  <2> QED
    BY <1>1, <1>3, <2>1, <2>2, <2>3, <2>4, ClerkProfileKeeps
<1>4. CASE ClerkGoes(w, "failed") /\ UNCHANGED <<prof, hired>>
  BY <1>1, <1>4, ApplicationsRest, ClerkStepKeeps
<1> QED
  BY <1>3, <1>4 DEF AcceptHire

-----------------------------------------------------------------------------
LEMMA EmploymentStarts ==
  ASSUME EmploymentInit
  PROVE  EmploymentInd
<1>1. /\ known \subseteq Accounts /\ selfies = {} /\ hired = {} /\ outages = 0
      /\ \A s \in Stores, a \in Accounts : prof[s][a] = NoProfile
      /\ \A i \in Applications : application[i] = NoApplication
      /\ \A w \in Clerks : clerk[w] = Free
  BY DEF EmploymentInit
<1>2. /\ NoProfile \in EmployeeProfile /\ NoProfile.status = "NONE" /\ ~NoProfile.deleted
      /\ NoProfile.contracts = {} /\ ~NoProfile.tied
      /\ NoApplication \in JobApplication /\ ~NoApplication.selfie
      /\ Free \in ClerkState
  BY EmploymentAssumption DEF NoProfile, EmployeeProfile, EmploymentStatus, NoApplication,
     JobApplication, Free, ClerkState, ClerkSteps
<1>3. EmploymentTypeOK
  <2>1. /\ prof \in [Stores -> [Accounts -> EmployeeProfile]]
        /\ application \in [Applications -> JobApplication]
        /\ clerk \in [Clerks -> ClerkState]
    BY <1>2 DEF EmploymentInit
  <2>2. outages \in 0 .. MaxOutages
    BY <1>1, EmploymentAssumption
  <2> QED
    BY <1>1, <2>1, <2>2 DEF EmploymentTypeOK
<1>4. ~InEmployment(NoProfile)
  BY <1>2 DEF InEmployment, EmployedStatuses
<1>5. ProfilesInHand /\ EmployedOnce /\ StintStartsClean
  BY <1>1, <1>2, <1>4 DEF ProfilesInHand, EmployedOnce, StintStartsClean
<1>6. ApplicationsInHand /\ SelfiesMatchRows
  BY <1>1, <1>2 DEF ApplicationsInHand, SelfiesMatchRows
<1>7. ClerksInHand
  BY <1>1 DEF ClerksInHand
<1>8. CandidatesCanBeHired
  BY DEF CandidatesCanBeHired, ExistingEmployeeCandidate, MayAttach, RevivesFormerStint, Visible
<1> QED
  BY <1>3, <1>5, <1>6, <1>7, <1>8 DEF EmploymentInd

\* Every step keeps the invariant.
LEMMA EmploymentStep ==
  ASSUME EmploymentInd, EmploymentNext
  PROVE  EmploymentInd'
<1>1. ASSUME NEW s \in Stores, NEW a \in Accounts, AddEmployee(s, a) PROVE EmploymentInd'
  BY <1>1, AddEmployeeKeeps
<1>2. ASSUME NEW s \in Stores, NEW a \in Accounts, CreateManualEmployee(s, a)
      PROVE EmploymentInd'
  BY <1>2, CreateManualEmployeeKeeps
<1>3. ASSUME NEW s \in Stores, NEW a \in Accounts, DeleteEmployee(s, a) PROVE EmploymentInd'
  BY <1>3, DeleteEmployeeKeeps
<1>4. ASSUME NEW s \in Stores, NEW a \in Accounts, PermanentDeleteEmployee(s, a)
      PROVE EmploymentInd'
  BY <1>4, PermanentDeleteEmployeeKeeps
<1>5. ASSUME NEW s \in Stores, NEW a \in Accounts, RestoreProfile(s, a) PROVE EmploymentInd'
  BY <1>5, RestoreProfileKeeps
<1>6. ASSUME NEW s \in Stores, NEW a \in Accounts, NEW status \in EmployedStatuses,
             ChangeEmploymentType(s, a, status)
      PROVE EmploymentInd'
  BY <1>6, ChangeEmploymentTypeKeeps
<1>7. ASSUME NEW s \in Stores, NEW a \in Accounts, CreateContract(s, a) PROVE EmploymentInd'
  BY <1>7, CreateContractKeeps
<1>8. ASSUME NEW s \in Stores, NEW a \in Accounts, NEW c \in 1 .. MaxStints,
             RenewContract(s, a, c)
      PROVE EmploymentInd'
  BY <1>8, RenewContractKeeps
<1>9. ASSUME NEW s \in Stores, NEW a \in Accounts, Tie(s, a) PROVE EmploymentInd'
  BY <1>9, TieKeeps
<1>10. ASSUME NEW s \in Stores, NEW a \in Accounts, NEW w \in Clerks, NEW i \in Applications,
              ApplyBegin(w, i, s, a)
       PROVE EmploymentInd'
  BY <1>10, ApplyBeginKeeps
<1>11. ASSUME NEW w \in Clerks, NEW i \in Applications, AcceptClaim(w, i) PROVE EmploymentInd'
  BY <1>11, AcceptClaimKeeps
<1>12. ASSUME NEW w \in Clerks, NEW i \in Applications, Reject(w, i) PROVE EmploymentInd'
  BY <1>12, RejectKeeps
<1>13. ASSUME NEW w \in Clerks, NEW i \in Applications, Withdraw(w, i) PROVE EmploymentInd'
  BY <1>13, WithdrawKeeps
<1>14. ASSUME NEW w \in Clerks, NEW i \in Applications, PurgeStaleSelfie(w, i)
       PROVE EmploymentInd'
  BY <1>14, PurgeStaleSelfieKeeps
<1>15. ASSUME NEW w \in Clerks, ClerkStep(w) PROVE EmploymentInd'
  BY <1>15, ApplyInsertKeeps, OpenPendingProfileKeeps, AcceptHireKeeps, AfterFailedHireKeeps,
     AcceptFinishKeeps, RemoveSelfieKeeps, ClosePendingProfileKeeps DEF ClerkStep
<1>16. ASSUME NEW i \in Applications, GrowOld(i) PROVE EmploymentInd'
  BY <1>16, GrowOldKeeps
<1>17. RedactStaleContactDetails => EmploymentInd'
  BY RedactKeeps
<1>18. Outage => EmploymentInd'
  BY OutageKeeps
<1> QED
  BY <1>1, <1>2, <1>3, <1>4, <1>5, <1>6, <1>7, <1>8, <1>9, <1>10, <1>11, <1>12, <1>13, <1>14,
     <1>15, <1>16, <1>17, <1>18, Zenon DEF EmploymentNext

LEMMA EmploymentRests ==
  ASSUME EmploymentInd, UNCHANGED employmentVars
  PROVE  EmploymentInd'
<1>1. UNCHANGED <<known, prof, application, selfies, clerk, hired, outages>>
  BY DEF employmentVars
<1>2. ProfilesInHand' /\ EmployedOnce' /\ StintStartsClean' /\ CandidatesCanBeHired'
  BY <1>1, ProfilesRest
<1>3. ApplicationsInHand' /\ ClerksInHand' /\ SelfiesMatchRows'
  BY <1>1, DeskRests
<1>4. EmploymentTypeOK'
  BY <1>1 DEF EmploymentInd, EmploymentTypeOK
<1> QED
  BY <1>2, <1>3, <1>4 DEF EmploymentInd

\* An accepted application goes back to the pending ones only when its hire left no employee.
HireStands ==
  \A i \in hired :
    LET x == application[i] IN
    x.status = "ACCEPTED" /\ Visible(prof[x.store][x.account])
      => application'[i].status = "ACCEPTED"

LEMMA HiredStandsStep ==
  ASSUME EmploymentInd, EmploymentNext
  PROVE  HireStands
<1> SUFFICES ASSUME NEW i \in hired, application[i].status = "ACCEPTED",
                    Visible(prof[application[i].store][application[i].account])
             PROVE  application'[i].status = "ACCEPTED"
  BY DEF HireStands
<1>1. i \in Applications
  BY DEF EmploymentInd, EmploymentTypeOK
<1>2. CASE application' = application
  BY <1>2
<1>3. ASSUME NEW w \in Clerks, ApplyInsert(w) PROVE application'[i].status = "ACCEPTED"
  <2>1. clerk[w].pc = "insert"
    BY <1>3 DEF ApplyInsert
  <2>2. application[clerk[w].i] = NoApplication
    BY <2>1, ClerkFacts
  <2>3. clerk[w].i # i
    BY <2>2 DEF NoApplication
  <2> QED
    BY <1>1, <1>3, <2>3 DEF ApplyInsert, EmploymentInd, EmploymentTypeOK
<1>4. ASSUME NEW w \in Clerks, AfterFailedHire(w) PROVE application'[i].status = "ACCEPTED"
  <2>1. clerk[w].pc = "failed"
    BY <1>4 DEF AfterFailedHire
  <2>2. /\ clerk[w].i \in Applications
        /\ application[clerk[w].i].store = clerk[w].store
        /\ application[clerk[w].i].account = clerk[w].account
    BY <2>1, ClerkFacts
  <2>3. CASE clerk[w].i = i
    BY <1>4, <2>2, <2>3 DEF AfterFailedHire
  <2>4. CASE clerk[w].i # i
    BY <1>1, <1>4, <2>4 DEF AfterFailedHire, ReleaseClaim, EmploymentInd, EmploymentTypeOK
  <2> QED
    BY <2>3, <2>4
<1>5. ASSUME NEW w \in Clerks, NEW j \in Applications,
             AcceptClaim(w, j) \/ Reject(w, j) \/ Withdraw(w, j) \/ PurgeStaleSelfie(w, j)
      PROVE  application'[i].status = "ACCEPTED"
  <2>1. CASE AcceptClaim(w, j) \/ Reject(w, j) \/ Withdraw(w, j)
    <3>1. j # i
      BY <2>1 DEF AcceptClaim, Reject, Withdraw
    <3> QED
      BY <1>1, <2>1, <3>1 DEF AcceptClaim, Reject, Withdraw, EmploymentInd, EmploymentTypeOK
  <2>2. CASE PurgeStaleSelfie(w, j)
    BY <1>1, <2>2 DEF PurgeStaleSelfie, EmploymentInd, EmploymentTypeOK, JobApplication
  <2> QED
    BY <1>5, <2>1, <2>2
<1>6. ASSUME NEW j \in Applications, GrowOld(j) PROVE application'[i].status = "ACCEPTED"
  BY <1>1, <1>6 DEF GrowOld, EmploymentInd, EmploymentTypeOK, JobApplication
<1>7. CASE RedactStaleContactDetails
  <2>1. i \notin ExpireAbandoned
    BY DEF ExpireAbandoned
  <2>2. application'[i] = IF i \in RedactReviewed
                          THEN [application[i] EXCEPT !.redacted = TRUE] ELSE application[i]
    BY <1>1, <1>7, <2>1 DEF RedactStaleContactDetails
  <2> QED
    BY <1>1, <2>2 DEF EmploymentInd, EmploymentTypeOK, JobApplication
<1>8. ASSUME NEW s \in Stores, NEW a \in Accounts,
             \/ AddEmployee(s, a) \/ CreateManualEmployee(s, a) \/ DeleteEmployee(s, a)
             \/ PermanentDeleteEmployee(s, a) \/ RestoreProfile(s, a)
             \/ \E status \in EmployedStatuses : ChangeEmploymentType(s, a, status)
             \/ CreateContract(s, a) \/ \E c \in 1 .. MaxStints : RenewContract(s, a, c)
             \/ Tie(s, a)
             \/ \E w \in Clerks, j \in Applications : ApplyBegin(w, j, s, a)
      PROVE  application' = application
  BY <1>8 DEF AddEmployee, CreateManualEmployee, DeleteEmployee, PermanentDeleteEmployee,
     RestoreProfile, ChangeEmploymentType, CreateContract, RenewContract, Tie, ApplyBegin
<1>9. ASSUME NEW w \in Clerks,
             \/ OpenPendingProfile(w) \/ AcceptHire(w) \/ AcceptFinish(w) \/ RemoveSelfie(w)
             \/ ClosePendingProfile(w)
      PROVE  application' = application
  BY <1>9 DEF OpenPendingProfile, AcceptHire, AcceptFinish, RemoveSelfie, ClosePendingProfile
<1>10. Outage => application' = application
  BY DEF Outage
<1> QED
  <2>1. CASE \E s \in Stores, a \in Accounts :
               \/ AddEmployee(s, a) \/ CreateManualEmployee(s, a) \/ DeleteEmployee(s, a)
               \/ PermanentDeleteEmployee(s, a) \/ RestoreProfile(s, a)
               \/ \E status \in EmployedStatuses : ChangeEmploymentType(s, a, status)
               \/ CreateContract(s, a) \/ \E c \in 1 .. MaxStints : RenewContract(s, a, c)
               \/ Tie(s, a)
               \/ \E w \in Clerks, j \in Applications : ApplyBegin(w, j, s, a)
    BY <1>2, <1>8, <2>1
  <2>2. CASE \E w \in Clerks, j \in Applications :
               AcceptClaim(w, j) \/ Reject(w, j) \/ Withdraw(w, j) \/ PurgeStaleSelfie(w, j)
    BY <1>5, <2>2
  <2>3. CASE \E w \in Clerks : ClerkStep(w)
    BY <1>2, <1>3, <1>4, <1>9, <2>3 DEF ClerkStep
  <2>4. CASE \E j \in Applications : GrowOld(j)
    BY <1>6, <2>4
  <2> QED
    BY <1>2, <1>7, <1>10, <2>1, <2>2, <2>3, <2>4, Zenon DEF EmploymentNext

\* Hiring (Employment): for any number of stores, accounts, applications, clerks, stints and
\* crashes an account works at one store, a stint starts clean, files match their rows, whoever
\* is offered can be hired, and an application that hired somebody stays accepted.
THEOREM EmploymentKept == EmploymentSpec => EmploymentPromise
<1>1. EmploymentInit => EmploymentInd
  BY EmploymentStarts
<1>2. EmploymentInd /\ [EmploymentNext]_employmentVars => EmploymentInd'
  BY EmploymentStep, EmploymentRests
<1>3. EmploymentInd /\ [EmploymentNext]_employmentVars => [HireStands]_employmentVars
  BY HiredStandsStep
<1>4. EmploymentSpec => [][HireStands]_employmentVars
  BY <1>1, <1>2, <1>3, PTL DEF EmploymentSpec
<1>5. EmploymentSpec => HiredStaysAccepted
  BY <1>4 DEF HireStands, HiredStaysAccepted
<1>6. EmploymentSpec => []EmploymentInd
  BY <1>1, <1>2, PTL DEF EmploymentSpec
<1>7. EmploymentInd => /\ EmployedOnce /\ StintStartsClean
                       /\ SelfiesMatchRows /\ CandidatesCanBeHired
  BY DEF EmploymentInd
<1> QED
  BY <1>5, <1>6, <1>7, PTL DEF EmploymentPromise
=============================================================================
