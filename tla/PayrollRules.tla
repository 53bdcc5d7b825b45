----------------------------- MODULE PayrollRules -----------------------------
(***************************************************************************)
(* Versions of a store's fine for lateness (payroll.part.ts) and what they *)
(* come to in a month (payroll-calculation.utils.ts).  A rule whose price  *)
(* changes is closed on the day and followed by a new version of the same  *)
(* lineage, so that the days it applied to keep their price; a waiver      *)
(* takes one occurrence, or the whole line of the month, away.             *)
(***************************************************************************)
EXTENDS Integers, FiniteSets, FiniteSetsExt

CONSTANTS
  Versions,      \* ids of store_payroll_rules, in the order they are created
  Prices,
  LastDay,       \* the month is 1 .. LastDay
  MaxSaves,      \* saves of the rules by the owner
  MaxWaivers

(* Ids and prices are numbers; no row has id 0.                            *)
ASSUME PayrollRulesAssumption ==
  /\ Versions \subseteq Nat \ {0} /\ IsFiniteSet(Versions)
  /\ Prices \subseteq Nat /\ LastDay \in Nat \ {0} /\ MaxSaves \in Nat

VARIABLES
  version,       \* the rule rows
  late,          \* days of the month with a late arrival
  waiver,        \* <<lineage, day>>, day 0 for the line of the month
  day,           \* today
  saves

payrollRulesVars == <<version, late, waiver, day, saves>>

(* A row is live, or soft-deleted; "to" 0 stands for no validTo.           *)
StorePayrollRule ==
  [state : {"NONE", "LIVE", "DELETED"}, lineage : Versions \cup {0},
   from : 0 .. LastDay, to : 0 .. LastDay, price : Prices \cup {0},
   active : BOOLEAN]
NoRule == [state |-> "NONE", lineage |-> 0, from |-> 0, to |-> 0, price |-> 0,
           active |-> FALSE]

LiveRules == {v \in Versions : version[v].state = "LIVE"}
NewRules == {v \in Versions : version[v] = NoRule}

PayrollRulesInit ==
  /\ version = [v \in Versions |-> NoRule]
  /\ late \in SUBSET {1}
  /\ waiver = {}
  /\ day = 1
  /\ saves = 0

-----------------------------------------------------------------------------
(* Saving the rules                                                        *)

(* payrollRulePricingChanged                                               *)
PricingChanged(old, new) == old.price # new.price \/ old.active # new.active

(* The row is rewritten whenever it is saved.                              *)
RewritesAlways(v, new) == TRUE

(* nextPayrollRuleVersion: a price that changes after its first day closes *)
(* the row and goes on in a new one; otherwise the row is rewritten.       *)
Rewrites(v, new) ==
  ~PricingChanged(version[v], new) \/ version[v].from >= day
Close(r) == [r EXCEPT !.state = "DELETED", !.to = day]
NextVersion(v, new) ==
  [state |-> "LIVE", lineage |-> version[v].lineage, from |-> day, to |-> 0,
   price |-> new.price, active |-> new.active]

(* retirePayrollRules: a row that already applied keeps its days.          *)
Retire(r) == IF r.from < day THEN Close(r) ELSE [r EXCEPT !.state = "DELETED"]

(* syncPayrollRulesV2, under the advisory lock of the store's rules: the   *)
(* rows named are kept, the others of the category retired; a preset is    *)
(* refused twice.  "kept" gives the rows named their new price and state,  *)
(* "added" a rule sent without an id: it takes the first row of the preset *)
(* that is not named, or is new.                                           *)
SyncPayrollRulesV2(kept, added) ==
  LET spare == LiveRules \ DOMAIN kept
      matched == IF added = <<>> \/ spare = {} THEN {} ELSE {Min(spare)}
      wanted == [v \in DOMAIN kept \cup matched |->
                   IF v \in DOMAIN kept THEN kept[v] ELSE added[1]]
      moved == {v \in DOMAIN wanted : ~Rewrites(v, wanted[v])}
      fresh == IF added # <<>> /\ matched = {} THEN 1 ELSE 0
      next == CHOOSE f \in [moved -> NewRules] :
                \A u, v \in moved : f[u] = f[v] => u = v
      new == CHOOSE v \in NewRules : v \notin {next[u] : u \in moved}
  IN
  /\ saves < MaxSaves
  /\ Cardinality({v \in DOMAIN kept : kept[v].active})
       + (IF added # <<>> /\ added[1].active THEN 1 ELSE 0) <= 1
  /\ Cardinality(moved) + fresh <= Cardinality(NewRules)
  /\ version' = [v \in Versions |->
       IF v \in moved THEN Close(version[v])
       ELSE IF v \in DOMAIN wanted
         THEN [version[v] EXCEPT !.price = wanted[v].price, !.active = wanted[v].active]
       ELSE IF \E u \in moved : next[u] = v
         THEN LET u == CHOOSE u \in moved : next[u] = v IN NextVersion(u, wanted[u])
       ELSE IF fresh = 1 /\ v = new
         THEN [state |-> "LIVE", lineage |-> v, from |-> day, to |-> 0,
               price |-> added[1].price, active |-> added[1].active]
       ELSE IF v \in spare THEN Retire(version[v]) ELSE version[v]]
  /\ saves' = saves + 1
  /\ UNCHANGED <<late, waiver, day>>

-----------------------------------------------------------------------------
(* Pricing a month                                                         *)

(* loadPayrollRulesForMonth: the live rules and the closed versions.       *)
LoadPayrollRulesForMonth ==
  {v \in Versions : /\ version[v].state # "NONE" /\ version[v].active
                    /\ version[v].state = "LIVE" \/ version[v].to > 1}

(* versionedRuleInputs and factsWithin: the days a version prices.         *)
DaysOf(v) ==
  {d \in 1 .. LastDay : version[v].from <= d
                        /\ (version[v].to = 0 \/ d < version[v].to)}

(* applyPayrollWaivers: by the lineage of the rule.                        *)
Waived(v, d) ==
  <<version[v].lineage, 0>> \in waiver \/ <<version[v].lineage, d>> \in waiver

(* ruleRawLines for a fine per occurrence: the lines of a day, by version. *)
FinedBy(d) ==
  {v \in LoadPayrollRulesForMonth : d \in late /\ d \in DaysOf(v) /\ ~Waived(v, d)}
FineOn(d) == [v \in FinedBy(d) |-> version[v].price]

(* createPayrollWaiver: of an occurrence, by the rule's lineage.           *)
CreatePayrollWaiver(v, d) ==
  /\ version[v].state # "NONE"
  /\ d \in late
  /\ Cardinality(waiver) < MaxWaivers
  /\ waiver' = waiver \cup {<<version[v].lineage, d>>}
  /\ UNCHANGED <<version, late, day, saves>>

NextDay ==
  /\ day < LastDay
  /\ day' = day + 1
  /\ late' \in {late, late \cup {day + 1}}
  /\ UNCHANGED <<version, waiver, saves>>

PayrollRulesNext ==
  \/ \E kept \in UNION {[K -> [price : Prices, active : BOOLEAN]] : K \in SUBSET LiveRules},
        added \in {<<>>} \cup {<<n>> : n \in [price : Prices, active : BOOLEAN]} :
       SyncPayrollRulesV2(kept, added)
  \/ \E v \in Versions, d \in 1 .. LastDay : CreatePayrollWaiver(v, d)
  \/ NextDay

PayrollRulesSpec == PayrollRulesInit /\ [][PayrollRulesNext]_payrollRulesVars

-----------------------------------------------------------------------------
(* Properties                                                              *)

(* The rows keep their shape.                                              *)
PayrollRulesTypeOK ==
  /\ version \in [Versions -> StorePayrollRule]
  /\ late \subseteq 1 .. LastDay
  /\ waiver \subseteq Versions \X (0 .. LastDay)
  /\ day \in 1 .. LastDay
  /\ saves \in 0 .. MaxSaves

(* A late arrival is fined by one version of the preset at most, however   *)
(* often it was repriced, switched off and on, removed and added again.    *)
FinedOnce == \A d \in 1 .. LastDay : Cardinality(FinedBy(d)) <= 1

(* The fines of a day before today, and their amounts, are never changed   *)
(* by saving the rules: only a waiver takes one away.                      *)
PastFinesStand ==
  [][\A d \in 1 .. day - 1 :
       FineOn(d)' = FineOn(d) \/ waiver' # waiver]_payrollRulesVars

(* What makes them inductive.  A version applies from a day that has come  *)
(* until it was closed, and rows that are not there are empty.             *)
VersionsInTime ==
  \A v \in Versions :
    /\ version[v].state = "NONE" => version[v] = NoRule
    /\ version[v].state # "NONE" =>
         /\ version[v].lineage \in Versions
         /\ version[v].from \in 1 .. day /\ version[v].to <= day
    /\ version[v].state = "LIVE" => version[v].to = 0

(* One live version at most is active, and no two versions that were ever  *)
(* active share a day.                                                     *)
OneActiveRule ==
  \A u, v \in LiveRules : version[u].active /\ version[v].active => u = v
PeriodsApart ==
  \A u, v \in LoadPayrollRulesForMonth : u # v => DaysOf(u) \cap DaysOf(v) = {}

PayrollRulesInd ==
  PayrollRulesTypeOK /\ VersionsInTime /\ OneActiveRule /\ PeriodsApart

(* What the versions of a rule promise: one fine for one occurrence, and   *)
(* fines of the past that saving the rules never changes.                  *)
PayrollRulesPromise ==
  /\ [](PayrollRulesInd /\ FinedOnce)
  /\ PastFinesStand
=============================================================================
