------------------------------- MODULE Sessions -------------------------------
(***************************************************************************)
(* Signing in to one account (auth.service.ts): the one-time codes that    *)
(* activate it and reset its password, the limits on sending and guessing  *)
(* them, and the refresh tokens that keep a device signed in.              *)
(*                                                                         *)
(* verifyOtp, resendOtp and resetPassword are transactions under the row   *)
(* lock of the account: one step each.  login, refreshToken and            *)
(* forgotPassword are several statements; what one of them has read so far *)
(* is in its desk.  Failed guesses are counted in the memory of the        *)
(* process and are forgotten when it restarts.                             *)
(***************************************************************************)
EXTENDS Integers, FiniteSets, Sequences

CONSTANTS
  MaxCodes,       \* codes that may be sent
  MaxTokens,      \* refresh tokens that may be issued
  AuthDesks,      \* requests in flight
  MaxLive,        \* MAX_LIVE_REFRESH_TOKENS
  SendLimit, SendWindow,
  VerifyLimit, VerifyWindow,
  CodeLife,       \* a code expires after this long
  MaxAuthClock, MaxPasswords, MaxRestarts

ASSUME SessionsAssumption ==
  /\ MaxCodes \in Nat \ {0} /\ MaxTokens \in Nat
  /\ MaxLive \in Nat /\ SendLimit \in Nat \ {0} /\ VerifyLimit \in Nat
  /\ SendWindow \in Nat /\ VerifyWindow \in Nat /\ CodeLife \in Nat
  /\ MaxAuthClock \in Nat /\ MaxPasswords \in Nat /\ MaxRestarts \in Nat

VARIABLES
  authClock,
  account,     \* [status, pw]: pw counts the passwords the account has had
  codes,       \* account_otps, in the order they were sent
  tokens,      \* account_refresh_tokens, in the order they were saved
  resets,      \* the password each reset token in circulation is for
  failures,    \* the failed guesses this process remembers: when, in which order
  authDesk,
  restarts

sessionVars ==
  <<authClock, account, codes, tokens, resets, failures, authDesk, restarts>>

OtpTypes == {"REGISTER", "FORGOT_PASSWORD"}
AccountOtp ==
  [type : OtpTypes, used : BOOLEAN, accepted : BOOLEAN, createdAt : Nat]

(* parent is the token it was exchanged for (0: a sign-in), pw the number  *)
(* of the password when the row was saved.                                 *)
AccountRefreshToken == [revoked : BOOLEAN, parent : Nat, pw : Nat]

FreeAuth == [pc |-> "free", t |-> 0, stale |-> {}]
AuthSteps == {"free", "issue", "prune", "pruneSave", "exchange", "forgot",
              "forgotSave"}

Recent(c) == codes[c].createdAt > authClock - SendWindow
IsOverSendLimit(type) ==
  Cardinality({c \in DOMAIN codes : codes[c].type = type /\ Recent(c)}) >= SendLimit

NewOtp(type) ==
  [type |-> type, used |-> FALSE, accepted |-> FALSE, createdAt |-> authClock]
Superseded(type) ==
  [c \in DOMAIN codes |->
     IF codes[c].type = type THEN [codes[c] EXCEPT !.used = TRUE] ELSE codes[c]]

(* The code verifyOtp compares with: the newest that is not used.          *)
OpenOtps(type) == {c \in DOMAIN codes : codes[c].type = type /\ ~codes[c].used}
CurrentOtp(type, c) == c \in OpenOtps(type) /\ \A d \in OpenOtps(type) : d <= c
Accepts(c) == codes[c].createdAt + CodeLife > authClock

(* SlidingWindowCounter: what is left of the failures of the window.       *)
Pruned == {f \in failures : f.at > authClock - VerifyWindow}

LiveTokens == {t \in DOMAIN tokens : ~tokens[t].revoked}

(* After register: an unverified account and the code that was sent.       *)
SessionsInit ==
  /\ authClock = 0
  /\ account = [status |-> "UNVERIFIED", pw |-> 0]
  /\ codes = <<[type |-> "REGISTER", used |-> FALSE, accepted |-> FALSE,
                createdAt |-> 0]>>
  /\ tokens = << >>
  /\ resets = {}
  /\ failures = {}
  /\ authDesk = [w \in AuthDesks |-> FreeAuth]
  /\ restarts = 0

DeskAt(w, pc) == authDesk[w].pc = pc
DeskGoes(w, o) == authDesk' = [authDesk EXCEPT ![w] = o]
Step(pc) == [FreeAuth EXCEPT !.pc = pc]

-----------------------------------------------------------------------------
(* One-time codes                                                          *)

ResendOtp(type) ==
  /\ type = "REGISTER" => account.status = "UNVERIFIED"
  /\ ~IsOverSendLimit(type)
  /\ Len(codes) < MaxCodes
  /\ codes' = Append(Superseded(type), NewOtp(type))
  /\ UNCHANGED <<authClock, account, tokens, resets, failures, authDesk, restarts>>

(* The limit is looked at, the old codes are cancelled and the new one is  *)
(* saved, each by a statement of its own.                                  *)
ForgotPassword(w) ==
  /\ authDesk[w] = FreeAuth
  /\ ~IsOverSendLimit("FORGOT_PASSWORD")
  /\ DeskGoes(w, Step("forgot"))
  /\ UNCHANGED <<authClock, account, codes, tokens, resets, failures, restarts>>

ForgotSupersedes(w) ==
  /\ DeskAt(w, "forgot")
  /\ codes' = Superseded("FORGOT_PASSWORD")
  /\ DeskGoes(w, Step("forgotSave"))
  /\ UNCHANGED <<authClock, account, tokens, resets, failures, restarts>>

ForgotSaves(w) ==
  /\ DeskAt(w, "forgotSave")
  /\ Len(codes) < MaxCodes
  /\ codes' = Append(codes, NewOtp("FORGOT_PASSWORD"))
  /\ DeskGoes(w, FreeAuth)
  /\ UNCHANGED <<authClock, account, tokens, resets, failures, restarts>>

(* verifyOtp with the code numbered c; 0 is a wrong one.  A failure rolls  *)
(* the transaction back, and is remembered by the process alone.           *)
VerifyOtp(w, type, c) ==
  LET right == CurrentOtp(type, c) /\ Accepts(c)
      register == type = "REGISTER"
  IN
  /\ authDesk[w] = FreeAuth
  /\ Cardinality(Pruned) < VerifyLimit
  /\ register => account.status = "UNVERIFIED"
  /\ IF ~right
     THEN /\ failures' = Pruned \cup {[at |-> authClock, nth |-> Cardinality(Pruned)]}
          /\ UNCHANGED <<account, codes, resets, authDesk>>
     ELSE /\ failures' = {}
          /\ codes' = [d \in DOMAIN codes |->
               IF d = c
               THEN [codes[d] EXCEPT !.used = TRUE, !.accepted = TRUE]
               ELSE IF register /\ codes[d].type = type
               THEN [codes[d] EXCEPT !.used = TRUE] ELSE codes[d]]
          /\ account' = IF register THEN [account EXCEPT !.status = "ACTIVE"]
                        ELSE account
          /\ resets' = IF register THEN resets ELSE resets \cup {account.pw}
          /\ DeskGoes(w, IF register THEN Step("issue") ELSE FreeAuth)
  /\ UNCHANGED <<authClock, tokens, restarts>>

(* resetPassword: the token carries a fingerprint of the password it is    *)
(* for, so it is good until the password changes.  Every session ends.     *)
ResetPassword(pw) ==
  /\ pw \in resets
  /\ pw = account.pw
  /\ account.pw < MaxPasswords
  /\ account' = [account EXCEPT !.pw = @ + 1]
  /\ codes' = Superseded("FORGOT_PASSWORD")
  /\ tokens' = [t \in DOMAIN tokens |-> [tokens[t] EXCEPT !.revoked = TRUE]]
  /\ UNCHANGED <<authClock, resets, failures, authDesk, restarts>>

-----------------------------------------------------------------------------
(* Sessions                                                                *)

(* validateUser found the password right; an unverified account gets no    *)
(* session.                                                                *)
Login(w) ==
  /\ authDesk[w] = FreeAuth
  /\ account.status # "UNVERIFIED"
  /\ DeskGoes(w, Step("issue"))
  /\ UNCHANGED <<authClock, account, codes, tokens, resets, failures, restarts>>

(* login saves the row of the new refresh token, then prunes.              *)
IssueToken(w) ==
  /\ DeskAt(w, "issue")
  /\ Len(tokens) < MaxTokens
  /\ tokens' = Append(tokens, [revoked |-> FALSE, parent |-> authDesk[w].t,
                               pw |-> account.pw])
  /\ DeskGoes(w, Step("prune"))
  /\ UNCHANGED <<authClock, account, codes, resets, failures, restarts>>

(* revokeStaleRefreshTokens: all but the newest are looked up...           *)
RevokeStale(w) ==
  LET newer(t) == {u \in LiveTokens : u > t} IN
  /\ DeskAt(w, "prune")
  /\ DeskGoes(w, [Step("pruneSave") EXCEPT !.stale =
                    {t \in LiveTokens : Cardinality(newer(t)) >= MaxLive}])
  /\ UNCHANGED <<authClock, account, codes, tokens, resets, failures, restarts>>

(* ...and revoked.                                                         *)
RevokeStaleSaves(w) ==
  /\ DeskAt(w, "pruneSave")
  /\ tokens' = [t \in DOMAIN tokens |->
                  IF t \in authDesk[w].stale
                  THEN [tokens[t] EXCEPT !.revoked = TRUE] ELSE tokens[t]]
  /\ DeskGoes(w, FreeAuth)
  /\ UNCHANGED <<authClock, account, codes, resets, failures, restarts>>

(* refreshToken: the live row of the token is looked up, then revoked if   *)
(* nobody has revoked it meanwhile, and only then exchanged.               *)
RefreshToken(w, t) ==
  /\ authDesk[w] = FreeAuth
  /\ t \in LiveTokens
  /\ DeskGoes(w, [Step("exchange") EXCEPT !.t = t])
  /\ UNCHANGED <<authClock, account, codes, tokens, resets, failures, restarts>>

(* The row is revoked whatever has become of it.                           *)
ExchangeUnconditionally(w) ==
  LET t == authDesk[w].t IN
  /\ DeskAt(w, "exchange")
  /\ tokens' = [tokens EXCEPT ![t].revoked = TRUE]
  /\ DeskGoes(w, [Step("issue") EXCEPT !.t = t])
  /\ UNCHANGED <<authClock, account, codes, resets, failures, restarts>>

ExchangeToken(w) ==
  LET t == authDesk[w].t IN
  /\ DeskAt(w, "exchange")
  /\ IF t \in LiveTokens
     THEN /\ tokens' = [tokens EXCEPT ![t].revoked = TRUE]
          /\ DeskGoes(w, [Step("issue") EXCEPT !.t = t])
     ELSE /\ DeskGoes(w, FreeAuth)
          /\ UNCHANGED tokens
  /\ UNCHANGED <<authClock, account, codes, resets, failures, restarts>>

-----------------------------------------------------------------------------
AuthTick ==
  /\ authClock < MaxAuthClock
  /\ authClock' = authClock + 1
  /\ UNCHANGED <<account, codes, tokens, resets, failures, authDesk, restarts>>

(* The process restarts: requests in flight and the failures are gone.     *)
AuthRestart ==
  /\ restarts < MaxRestarts
  /\ restarts' = restarts + 1
  /\ failures' = {}
  /\ authDesk' = [w \in AuthDesks |-> FreeAuth]
  /\ UNCHANGED <<authClock, account, codes, tokens, resets>>

(* A request is taken by a free desk; which one makes no difference.       *)
SessionsNext ==
  \/ \E type \in OtpTypes : ResendOtp(type)
  \/ \E pw \in resets : ResetPassword(pw)
  \/ LET free == {w \in AuthDesks : authDesk[w] = FreeAuth}
         w == CHOOSE w \in free : TRUE
     IN /\ free # {}
        /\ \/ ForgotPassword(w)
           \/ \E type \in OtpTypes, c \in {0} \cup DOMAIN codes :
                VerifyOtp(w, type, c)
           \/ Login(w)
           \/ \E t \in DOMAIN tokens : RefreshToken(w, t)
  \/ \E w \in AuthDesks :
       \/ ForgotSupersedes(w)
       \/ ForgotSaves(w)
       \/ IssueToken(w)
       \/ RevokeStale(w)
       \/ RevokeStaleSaves(w)
       \/ ExchangeToken(w)
  \/ AuthTick
  \/ AuthRestart

SessionsSpec == SessionsInit /\ [][SessionsNext]_sessionVars

-----------------------------------------------------------------------------
SessionsTypeOK ==
  /\ authClock \in 0 .. MaxAuthClock /\ restarts \in Nat
  /\ account \in [status : {"UNVERIFIED", "ACTIVE"}, pw : 0 .. MaxPasswords]
  /\ codes \in Seq(AccountOtp) /\ Len(codes) <= MaxCodes
  /\ tokens \in Seq(AccountRefreshToken) /\ Len(tokens) <= MaxTokens
  /\ resets \subseteq 0 .. account.pw
  /\ \A f \in failures : f \in [at : Nat, nth : Nat]
  /\ IsFiniteSet(failures)
  /\ authDesk \in [AuthDesks -> [pc : AuthSteps, t : Nat, stale : SUBSET Nat]]

(* Every change of the password was proved by a code of its own: however   *)
(* many codes are sent and reset tokens are shown, the password changes at *)
(* most once for every code that was accepted, and a code is accepted only *)
(* while it is the newest and has not been used.                           *)
PasswordChangesAreProven ==
  account.pw <= Cardinality({c \in DOMAIN codes :
                               codes[c].type = "FORGOT_PASSWORD" /\ codes[c].accepted})

(* A refresh token is exchanged once: two devices that show the same one,  *)
(* or a request sent twice, do not both stay signed in.                    *)
ExchangedOnce ==
  \A t \in DOMAIN tokens :
    Cardinality({u \in DOMAIN tokens : tokens[u].parent = t}) <= 1

(* "Whoever knew the old password may hold live sessions; end them all":   *)
(* every session saved before the last reset is over.                      *)
ResetEndsSessions ==
  \A t \in LiveTokens : tokens[t].pw = account.pw

(* However sign-ins race, an account at rest keeps no more live sessions   *)
(* than its limit.  A restart may cut a pruning short.                     *)
SessionCap ==
  (restarts = 0 /\ \A w \in AuthDesks : authDesk[w] = FreeAuth)
    => Cardinality(LiveTokens) <= MaxLive

(* Codes are sent and guessed within their limits: no window holds more    *)
(* than SendLimit codes for activating the account, nor more than          *)
(* VerifyLimit failed guesses in one process.                              *)
WithinLimits ==
  /\ Cardinality(Pruned) <= VerifyLimit
  /\ \A at \in 0 .. authClock :
       Cardinality({c \in DOMAIN codes :
          /\ codes[c].type = "REGISTER"
          /\ codes[c].createdAt \in (at - SendWindow + 1) .. at}) <= SendLimit

(* Why passwords change by proof: a code that was accepted is used up, the *)
(* codes are dated by the clock, and a reset token for the present         *)
(* password rests on a code that no change of the password has consumed.   *)
Accepted == {c \in DOMAIN codes : codes[c].type = "FORGOT_PASSWORD" /\ codes[c].accepted}
ResetsRestOnCodes ==
  /\ \A c \in DOMAIN codes : codes[c].accepted => codes[c].used
  /\ \A c \in DOMAIN codes : codes[c].createdAt <= authClock
  /\ account.pw \in resets => account.pw + 1 <= Cardinality(Accepted)

(* Why a token is exchanged once: a token that has a successor is revoked, *)
(* and one whose successor is about to be saved is revoked, has none yet   *)
(* and is in the hands of one request.                                     *)
Childless(t) == \A u \in DOMAIN tokens : tokens[u].parent # t
OneHeir ==
  /\ \A u, v \in DOMAIN tokens :
       u # v /\ tokens[u].parent # 0 => tokens[u].parent # tokens[v].parent
  /\ \A u \in DOMAIN tokens : tokens[u].parent # 0 =>
       tokens[u].parent \in DOMAIN tokens /\ tokens[tokens[u].parent].revoked
  /\ \A w \in AuthDesks : DeskAt(w, "exchange") => authDesk[w].t \in DOMAIN tokens
  /\ \A w \in AuthDesks : DeskAt(w, "issue") /\ authDesk[w].t # 0 =>
       /\ authDesk[w].t \in DOMAIN tokens /\ tokens[authDesk[w].t].revoked
       /\ Childless(authDesk[w].t)
       /\ \A v \in AuthDesks \ {w} : DeskAt(v, "issue") => authDesk[v].t # authDesk[w].t

(* Why the limit on sessions holds at rest: until a restart, what is over  *)
(* the limit is doomed by a pruning under way, or one is about to look.    *)
Doomed == {t \in DOMAIN tokens : \E w \in AuthDesks : DeskAt(w, "pruneSave") /\ t \in authDesk[w].stale}
OverflowIsDoomed ==
  (restarts = 0 /\ \A w \in AuthDesks : ~DeskAt(w, "prune"))
    => Cardinality(LiveTokens \ Doomed) <= MaxLive

(* What signing in promises: passwords change by proof, sessions are       *)
(* exchanged once, end with a reset and stay within their limits.          *)
SessionsPromise ==
  /\ SessionsTypeOK
  /\ ResetsRestOnCodes /\ OneHeir /\ OverflowIsDoomed
  /\ PasswordChangesAreProven
  /\ ExchangedOnce
  /\ ResetEndsSessions
  /\ SessionCap
  /\ WithinLimits
=============================================================================
