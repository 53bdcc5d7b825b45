--------------------------- MODULE WorkedTimeRules ---------------------------
(***************************************************************************)
(* Which minutes of a shift are paid: those of the shift, or those between *)
(* the readings.  The owner lays down rules for the store or for some      *)
(* employees, each from a minute on, for a period (worked-time-rules.ts    *)
(* and createWorkedTimeRule, deleteWorkedTimeRule of attendance.part.ts).  *)
(* A shift is paid by the rule that covers the minute it begins.           *)
(*                                                                         *)
(* The clock counts half minutes, so that a request may fall within a      *)
(* minute; rules and shifts are keyed by the minute.  An owner's request   *)
(* reads the clock first and writes later.                                 *)
(***************************************************************************)
EXTENDS Integers, FiniteSets

CONSTANTS
  PaidStaff,      \* employees
  RuleIds,        \* the groups of rules that may be made
  RuleWishes,     \* what owners ask for: [for, mode, start, length]
  Endless,        \* the length of the INDEFINITE period
  StartGrace,     \* how far in the past a start may lie: moved to now
  ActualFrom,     \* shifts from here on are paid as worked by default
  RuleDesks,      \* requests in flight
  MaxRuleClock    \* bound on the clock, in half minutes

VARIABLES ruleClock, timeRules, ruleDesk

workedTimeVars == <<ruleClock, timeRules, ruleDesk>>

WorkedTimeModes == {"SHIFT", "ACTUAL"}
ASSUME WorkedTimeAssumption ==
  /\ IsFiniteSet(RuleIds) /\ RuleIds = 1 .. Cardinality(RuleIds)
  /\ Endless \notin Nat \cup PaidStaff /\ MaxRuleClock \in Nat
  /\ RuleWishes \subseteq [for : SUBSET PaidStaff, mode : WorkedTimeModes, start : Nat,
                           length : (Nat \ {0}) \cup {Endless}]
Minutes == 0 .. (MaxRuleClock \div 2)

(* A group: the same rule for each of `for`, for the whole store when it   *)
(* is empty.  cut is the minute it was deleted at.                         *)
StoreWorkedTimeRule ==
  [for : SUBSET PaidStaff, mode : WorkedTimeModes, start : Nat,
   end : Nat \cup {Endless}, cut : Nat \cup {Endless}]
NoTimeRule ==
  [for |-> {}, mode |-> "SHIFT", start |-> 0, end |-> 0, cut |-> 0]

(* vnKeyCeil: the first minute that has not begun.                         *)
VnKeyCeil(at) == (at + 1) \div 2

RuleWindowEnd(start, length) ==
  IF length = Endless THEN Endless ELSE start + length

Before(k, bound) == bound = Endless \/ k < bound

RuleWindowsOverlap(a, b) == Before(a.start, b.end) /\ Before(b.start, a.end)

(* A deleted rule still covers the shifts that began before its deletion.  *)
RuleCovers(r, k) == k >= r.start /\ Before(k, r.end) /\ Before(k, r.cut)

Covering(e, k, rules) ==
  {g \in RuleIds : /\ rules[g] # NoTimeRule
                   /\ RuleCovers(rules[g], k)
                   /\ IF e \in PaidStaff THEN e \in rules[g].for
                      ELSE rules[g].for = {}}

(* An employee's own rule wins over the store's, the newest of each: the   *)
(* groups are numbered in the order they are made.                         *)
ResolveWorkedTimeMode(e, k, rules) ==
  LET newest(S) == CHOOSE g \in S : \A h \in S : h <= g
      own == Covering(e, k, rules)
      store == Covering(Endless, k, rules)
  IN IF own # {} THEN rules[newest(own)].mode
     ELSE IF store # {} THEN rules[newest(store)].mode
     ELSE IF k >= ActualFrom THEN "ACTUAL" ELSE "SHIFT"

FreeDesk ==
  [pc |-> "free", g |-> 0, rule |-> NoTimeRule, since |-> 0]

WorkedTimeInit ==
  /\ ruleClock = 0
  /\ timeRules = [g \in RuleIds |-> NoTimeRule]
  /\ ruleDesk = [w \in RuleDesks |-> FreeDesk]

RuleTick ==
  /\ ruleClock < MaxRuleClock
  /\ ruleClock' = ruleClock + 1
  /\ UNCHANGED <<timeRules, ruleDesk>>

(* A start a few minutes back is kept as it was asked for.                 *)
CreateAsAsked(w, wish) ==
  /\ ruleDesk[w] = FreeDesk
  /\ wish.start >= VnKeyCeil(ruleClock - 2 * StartGrace)
  /\ ruleDesk' = [ruleDesk EXCEPT ![w] =
       [pc |-> "create", g |-> 0, since |-> VnKeyCeil(ruleClock),
        rule |-> [for |-> wish.for, mode |-> wish.mode, start |-> wish.start,
                  end |-> RuleWindowEnd(wish.start, wish.length),
                  cut |-> Endless]]]
  /\ UNCHANGED <<ruleClock, timeRules>>

(* The window of a new rule, from the clock as the request found it.       *)
CreateWorkedTimeRule(w, wish) ==
  LET nowKey == VnKeyCeil(ruleClock)
      from == IF wish.start < nowKey THEN nowKey ELSE wish.start
  IN
  /\ ruleDesk[w] = FreeDesk
  /\ wish.start >= VnKeyCeil(ruleClock - 2 * StartGrace)
  /\ ruleDesk' = [ruleDesk EXCEPT ![w] =
       [pc |-> "create", g |-> 0, since |-> nowKey,
        rule |-> [for |-> wish.for, mode |-> wish.mode, start |-> from,
                  end |-> RuleWindowEnd(from, wish.length),
                  cut |-> Endless]]]
  /\ UNCHANGED <<ruleClock, timeRules>>

(* Two rules speak for the same people: both for the store, or for an      *)
(* employee in common.                                                     *)
SamePeople(a, b) == IF a.for = {} THEN b.for = {} ELSE a.for \cap b.for # {}

(* Under the advisory lock of the store's rules: refused when a rule in    *)
(* force overlaps it.                                                      *)
SaveWorkedTimeRule(w) ==
  LET new == ruleDesk[w].rule
      taken == {g \in RuleIds : timeRules[g] # NoTimeRule}
      clash == {g \in taken : /\ timeRules[g].cut = Endless
                              /\ SamePeople(new, timeRules[g])
                              /\ RuleWindowsOverlap(new, timeRules[g])}
  IN
  /\ ruleDesk[w].pc = "create"
  /\ taken # RuleIds
  /\ timeRules' =
       IF clash # {} THEN timeRules
       ELSE [timeRules EXCEPT ![Cardinality(taken) + 1] = new]
  /\ ruleDesk' = [ruleDesk EXCEPT ![w] = FreeDesk]
  /\ UNCHANGED ruleClock

(* deleteWorkedTimeRule: the group is looked up while it is in force, then *)
(* its end is written, whether or not somebody deleted it meanwhile.       *)
DeleteWorkedTimeRule(w, g) ==
  /\ ruleDesk[w] = FreeDesk
  /\ timeRules[g] # NoTimeRule
  /\ timeRules[g].cut = Endless
  /\ ruleDesk' = [ruleDesk EXCEPT ![w] =
       [pc |-> "delete", g |-> g, rule |-> NoTimeRule, since |-> 0]]
  /\ UNCHANGED <<ruleClock, timeRules>>

CutWorkedTimeRule(w) ==
  /\ ruleDesk[w].pc = "delete"
  /\ timeRules' = [timeRules EXCEPT ![ruleDesk[w].g].cut = VnKeyCeil(ruleClock)]
  /\ ruleDesk' = [ruleDesk EXCEPT ![w] = FreeDesk]
  /\ UNCHANGED ruleClock

(* A request is taken by a free desk; which one makes no difference.       *)
WorkedTimeNext ==
  \/ RuleTick
  \/ LET free == {w \in RuleDesks : ruleDesk[w] = FreeDesk}
         w == CHOOSE w \in free : TRUE
     IN /\ free # {}
        /\ \/ \E wish \in RuleWishes : CreateWorkedTimeRule(w, wish)
           \/ \E g \in RuleIds : DeleteWorkedTimeRule(w, g)
  \/ \E w \in RuleDesks : SaveWorkedTimeRule(w) \/ CutWorkedTimeRule(w)

WorkedTimeSpec == WorkedTimeInit /\ [][WorkedTimeNext]_workedTimeVars

-----------------------------------------------------------------------------
WorkedTimeTypeOK ==
  /\ ruleClock \in 0 .. MaxRuleClock
  /\ timeRules \in [RuleIds -> StoreWorkedTimeRule]
  /\ ruleDesk \in [RuleDesks -> [pc : {"free", "create", "delete"}, g : Nat, since : Nat,
                                 rule : StoreWorkedTimeRule]]

(* Groups are made one after the other, and each covers a minute at least; *)
(* a rule about to be saved is for what had not begun when it was asked    *)
(* for, and one about to be deleted exists.                                *)
RulesInTurn ==
  /\ \E n \in 0 .. Cardinality(RuleIds) :
       {g \in RuleIds : timeRules[g] # NoTimeRule} = 1 .. n
  /\ \A g \in RuleIds :
       timeRules[g] # NoTimeRule => Before(timeRules[g].start, timeRules[g].end)
RequestsAreForTheFuture ==
  \A w \in RuleDesks : LET o == ruleDesk[w] IN
    /\ o.pc = "create" => /\ o.rule.start >= o.since /\ o.rule.cut = Endless
                          /\ Before(o.rule.start, o.rule.end)
    /\ o.pc = "delete" => o.g \in RuleIds /\ timeRules[o.g] # NoTimeRule

(* "Each moment has one way of counting": of the rules in force no two     *)
(* cover the same minute for the same people, however two requests race.   *)
OneRulePerMoment ==
  \A g, h \in RuleIds :
    (/\ g # h
     /\ timeRules[g] # NoTimeRule /\ timeRules[h] # NoTimeRule
     /\ timeRules[g].cut = Endless /\ timeRules[h].cut = Endless
     /\ SamePeople(timeRules[g], timeRules[h]))
      => ~RuleWindowsOverlap(timeRules[g], timeRules[h])

(* A new way of counting is for shifts that have not begun: making or      *)
(* deleting a rule never changes how a shift is paid that began before the *)
(* request was received.  Deleting what another request has just deleted   *)
(* is the exception: the end of the rule moves on.                         *)
BegunShiftsKeepTheirMode ==
  [][\A e \in PaidStaff, k \in Minutes :
       ResolveWorkedTimeMode(e, k, timeRules')
           # ResolveWorkedTimeMode(e, k, timeRules)
         => \E w \in RuleDesks :
              \/ ruleDesk[w].pc = "create" /\ k >= ruleDesk[w].since
              \/ /\ ruleDesk[w].pc = "delete"
                 /\ \/ k >= VnKeyCeil(ruleClock)
                    \/ timeRules[ruleDesk[w].g].cut # Endless]_workedTimeVars

(* What the rules of paid time promise: one rule for a moment, and none    *)
(* for what has already begun.                                             *)
WorkedTimePromise ==
  /\ [](/\ WorkedTimeTypeOK /\ RulesInTurn /\ RequestsAreForTheFuture
        /\ OneRulePerMoment)
  /\ BegunShiftsKeepTheirMode
=============================================================================
