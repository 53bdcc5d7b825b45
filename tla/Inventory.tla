------------------------------ MODULE Inventory ------------------------------
(***************************************************************************)
(* Stock of a store's assets and products (stores.service.ts): stock       *)
(* transactions, bulk exports, orders and assignments read a row, compute  *)
(* and save it, each statement on its own; the return, the exchange and    *)
(* the initial and final hand-over of an asset change it in a transaction. *)
(* A keeper carries one request from its reads to its last write.          *)
(***************************************************************************)
EXTENDS Integers, FiniteSets

CONSTANTS
  Goods,        \* assets and products
  Staff,        \* employee profiles
  Issues,       \* employee_asset_assignments
  Slips,        \* what one stock_transaction says of one row: its details
  Keepers,      \* requests served at once
  Quantities,
  MaxStock,     \* the opening stock of a row at most
  MaxRequests,
  Nobody

(* Quantities are whole and above zero, as the requests that check them    *)
(* ask; papers and assignments have names of their own.                    *)
ASSUME InventoryAssumption ==
  /\ IsFiniteSet(Slips) /\ IsFiniteSet(Issues)
  /\ Quantities \subseteq Nat \ {0} /\ MaxStock \in Nat /\ MaxRequests \in Nat
  /\ Nobody \notin Goods \cup Staff \cup Slips \cup Issues
  /\ Slips \cap Issues = {}

VARIABLES
  listed,       \* the rows that exist
  stock,        \* currentStock of each row
  issue,        \* assignments of assets to employees
  slip,         \* transactions with their details
  keeper,       \* what each keeper is doing
  requests,     \* requests begun
  base,         \* history: the last count, less what moved before it
  raced,        \* history: rows of which two copies were out at once
  torn,         \* history: rows a request left between stock and paper
  unchecked     \* history: rows taken from without a check

inventoryVars == <<listed, stock, issue, slip, keeper, requests, base, raced, torn, unchecked>>

AssetAssignment ==
  [status : {"NONE", "ASSIGNED", "RETURNED", "LOST"}, who : Staff \cup {Nobody},
   good : Goods \cup {Nobody}, qty : Nat]
\* qty is the sum of the details, last the quantity of the last one.
StockTransaction ==
  [type : {"NONE", "IMPORT", "EXPORT"}, good : Goods \cup {Nobody}, qty : Nat, last : Nat]
NoIssue == [status |-> "NONE", who |-> Nobody, good |-> Nobody, qty |-> 0]
NoSlip == [type |-> "NONE", good |-> Nobody, qty |-> 0, last |-> 0]

SlipSteps == {"opening", "slip", "paper", "export", "exported", "order", "ordered",
              "unslip", "undone"}
AssetSteps == {"assign", "assigned", "exchange"}
(* noted is the quantity of its paper as the request knows it, owed        *)
(* (history) what it moved the stock by and not yet the papers.            *)
KeeperState ==
  [pc : {"free"} \cup SlipSteps \cup AssetSteps, k : Slips \cup Issues \cup {Nobody},
   good : Goods \cup {Nobody}, qty : Nat, seen : Int, noted : Nat, owed : Int,
   who : Staff \cup {Nobody}, type : {"NONE", "IMPORT", "EXPORT"}]
FreeKeeper ==
  [pc |-> "free", k |-> Nobody, good |-> Nobody, qty |-> 0, seen |-> 0,
   noted |-> 0, owed |-> 0, who |-> Nobody, type |-> "NONE"]

InventoryInit ==
  /\ listed \in {{}, Goods}
  /\ stock \in IF listed = {} THEN [Goods -> {0}] ELSE [Goods -> 0 .. MaxStock]
  /\ issue = [i \in Issues |-> NoIssue]
  /\ slip = [k \in Slips |-> NoSlip]
  /\ keeper = [w \in Keepers |-> FreeKeeper]
  /\ requests = 0
  /\ base = stock
  /\ raced = {}
  /\ torn = {}
  /\ unchecked = {}

(* A request in flight on row g.                                           *)
InFlightOn(g) == {w \in Keepers : keeper[w].good = g}
Races(g, w) == InFlightOn(g) \ {w} # {}
Touch(g, w) == raced' = IF Races(g, w) THEN raced \cup {g} ELSE raced

Requested(w) ==
  /\ keeper[w] = FreeKeeper
  /\ requests < MaxRequests
  /\ requests' = requests + 1
Begins(w, o) ==
  /\ Requested(w)
  /\ keeper' = [keeper EXCEPT ![w] = o]
  /\ Touch(o.good, w)
  /\ UNCHANGED torn
Goes(w, o) == keeper' = [keeper EXCEPT ![w] = o] /\ UNCHANGED <<requests, torn>>
Finishes(w) == Goes(w, FreeKeeper)
FreeSlips == {k \in Slips : slip[k] = NoSlip /\ \A w \in Keepers : keeper[w].k # k}
FreeIssues == {i \in Issues : issue[i] = NoIssue /\ \A w \in Keepers : keeper[w].k # i}
Read(pc, k, g, q) ==
  [FreeKeeper EXCEPT !.pc = pc, !.k = k, !.good = g, !.qty = q,
                     !.seen = stock[g]]

(* A request that fails or dies leaves what it saved, and a row whose      *)
(* stock it moved without the paper, or the other way round.               *)
KeeperDies(w) ==
  /\ keeper[w] # FreeKeeper
  /\ keeper' = [keeper EXCEPT ![w] = FreeKeeper]
  /\ torn' = IF keeper[w].owed # 0 THEN torn \cup {keeper[w].good} ELSE torn
  /\ UNCHANGED <<listed, stock, issue, slip, requests, base, raced, unchecked>>

-----------------------------------------------------------------------------
(* Transactions, exports and orders                                        *)

(* createProduct and createAssetsBulk: a new row brings its opening stock, *)
(* then an import that says so unless it is nought.                        *)
CreateGoods(w, k, g, q) ==
  /\ g \notin listed
  /\ k \in FreeSlips
  /\ listed' = listed \cup {g}
  /\ stock' = [stock EXCEPT ![g] = q]
  /\ Requested(w)
  /\ keeper' = IF q = 0 THEN keeper
               ELSE [keeper EXCEPT ![w] =
                       [FreeKeeper EXCEPT !.pc = "opening", !.k = k, !.good = g, !.qty = q,
                                          !.noted = q, !.owed = q, !.type = "IMPORT"]]
  /\ UNCHANGED <<slip, issue, base, raced, torn, unchecked>>

(* createStockTransaction reads the row a detail will move; nothing checks *)
(* that an export is covered.                                              *)
CreateStockTransaction(w, k, g, q, type) ==
  /\ k \in FreeSlips
  /\ Begins(w, [Read("slip", k, g, q) EXCEPT !.type = type])
  /\ UNCHANGED <<listed, stock, issue, slip, base, unchecked>>

SaveStockLine(w) ==
  LET o == keeper[w]
      by == IF o.type = "IMPORT" THEN o.qty ELSE -o.qty
  IN
  /\ o.pc = "slip"
  /\ stock' = [stock EXCEPT ![o.good] = o.seen + by]
  /\ Goes(w, [o EXCEPT !.pc = "paper", !.noted = @ + o.qty, !.owed = @ + by])
  /\ unchecked' = IF o.type = "EXPORT" THEN unchecked \cup {o.good}
                  ELSE unchecked
  /\ UNCHANGED <<listed, slip, issue, base, raced>>

(* Another detail of the same row reads it again; two at most here.        *)
NextStockLine(w, q) ==
  LET o == keeper[w] IN
  /\ o.pc = "paper" /\ o.noted = o.qty
  /\ Goes(w, [o EXCEPT !.pc = "slip", !.qty = q, !.seen = stock[o.good]])
  /\ UNCHANGED <<listed, stock, slip, issue, base, raced, unchecked>>

\* The details are saved when every row has moved.
SaveStockTransaction(w) ==
  LET o == keeper[w] IN
  /\ o.pc \in {"opening", "paper"}
  /\ slip' = [slip EXCEPT ![o.k] = [type |-> o.type, good |-> o.good,
                                    qty |-> o.noted, last |-> o.qty]]
  /\ Finishes(w)
  /\ UNCHANGED <<listed, stock, issue, base, raced, unchecked>>

(* The balance of row g by its papers, counted piece by piece.             *)
Pieces(table, rows) == UNION {{k} \X (1 .. table[k].qty) : k \in rows}
Slipped(papers, g, type) ==
  Cardinality(Pieces(papers, {k \in Slips : papers[k].good = g /\ papers[k].type = type}))
Issued(out, g) ==
  Cardinality(Pieces(out, {i \in Issues : out[i].good = g
                                           /\ out[i].status \in {"ASSIGNED", "LOST"}}))
Moves(g) == Slipped(slip, g, "IMPORT") - Slipped(slip, g, "EXPORT") - Issued(issue, g)

(* An ADJUST transaction, and an edit of the row, set the stock: the books *)
(* of the row start again.                                                 *)
AdjustStock(w, g, q) ==
  /\ stock' = [stock EXCEPT ![g] = q]
  /\ base' = [base EXCEPT ![g] = q - Moves(g)]
  /\ Requested(w)
  /\ raced' = IF Races(g, w) THEN raced \cup {g} ELSE raced \ {g}
  /\ torn' = torn \ {g}
  /\ UNCHANGED <<listed, issue, slip, keeper, unchecked>>

(* exportAssetsBulk and exportProductsBulk: the whole request is covered   *)
(* by what was read before the first write.  Its items of one row share    *)
(* one copy of it: they stand here as one item of their sum.               *)
ExportBulk(w, k, g, q) ==
  /\ k \in FreeSlips
  /\ q <= stock[g]
  /\ Begins(w, [Read("export", k, g, q) EXCEPT !.type = "EXPORT"])
  /\ UNCHANGED <<listed, stock, issue, slip, base, unchecked>>

\* The paper first ...
SaveExportPaper(w) ==
  LET o == keeper[w] IN
  /\ o.pc = "export"
  /\ slip' = [slip EXCEPT ![o.k] = [type |-> "EXPORT", good |-> o.good,
                                    qty |-> o.qty, last |-> o.qty]]
  /\ Goes(w, [o EXCEPT !.pc = "exported", !.owed = o.qty])
  /\ UNCHANGED <<listed, stock, issue, base, raced, unchecked>>

\* ... then the stock, from the copy.
SaveExport(w) ==
  LET o == keeper[w] IN
  /\ o.pc = "exported"
  /\ stock' = [stock EXCEPT ![o.good] = o.seen - o.qty]
  /\ Finishes(w)
  /\ UNCHANGED <<listed, slip, issue, base, raced, unchecked>>

(* createOrder: the ingredients of every line are read before the first is *)
(* deducted, each line into a copy of its own; nothing checks them.        *)
CreateOrder(w, k, g, q) ==
  /\ k \in FreeSlips
  /\ Begins(w, [Read("order", k, g, q) EXCEPT !.type = "EXPORT"])
  /\ UNCHANGED <<listed, stock, issue, slip, base, unchecked>>

\* A line saves its copy; after another line of the row it is a stale one.
SaveOrderLine(w) ==
  LET o == keeper[w] IN
  /\ o.pc = "order"
  /\ stock' = [stock EXCEPT ![o.good] = o.seen - o.qty]
  /\ Goes(w, [o EXCEPT !.pc = "ordered", !.owed = -o.qty])
  /\ raced' = IF o.noted > 0 THEN raced \cup {o.good} ELSE raced
  /\ unchecked' = unchecked \cup {o.good}
  /\ UNCHANGED <<listed, slip, issue, base>>

(* ... and its detail, of the transaction of the order (which may have     *)
(* been deleted since), and goes to the next line; two at most here.       *)
SaveOrder(w) ==
  LET o == keeper[w]
      deleted == o.noted > 0 /\ slip[o.k] = NoSlip
  IN
  /\ o.pc = "ordered"
  /\ slip' = IF deleted THEN slip
             ELSE [slip EXCEPT ![o.k] = [type |-> "EXPORT", good |-> o.good,
                                         qty |-> o.noted + o.qty, last |-> o.qty]]
  /\ \/ Finishes(w)
     \/ o.noted = 0 /\ \E q \in Quantities :
          Goes(w, [o EXCEPT !.pc = "order", !.qty = q, !.noted = o.qty, !.owed = 0])
  /\ UNCHANGED <<listed, stock, issue, base, raced, unchecked>>

(* deleteStockTransaction reads the details, each with a copy of its row.  *)
DeleteStockTransaction(w, k) ==
  /\ slip[k] # NoSlip
  /\ Begins(w, [Read("unslip", k, slip[k].good, slip[k].last) EXCEPT
                  !.noted = slip[k].qty, !.type = slip[k].type])
  /\ UNCHANGED <<listed, stock, issue, slip, base, unchecked>>

(* Each copy is saved with its own detail undone, an import not below      *)
(* zero: of several details of the row only the last one's undo remains.   *)
UndoStockTransaction(w) ==
  LET o == keeper[w]
      undone == IF o.type = "EXPORT" THEN o.seen + o.qty
                ELSE IF o.seen - o.qty < 0 THEN 0 ELSE o.seen - o.qty
      clamped == o.type = "IMPORT" /\ o.seen - o.qty < 0
  IN
  /\ o.pc = "unslip"
  /\ stock' = [stock EXCEPT ![o.good] = undone]
  /\ Goes(w, [o EXCEPT !.pc = "undone",
                       !.owed = IF o.type = "EXPORT" THEN o.qty ELSE -o.qty])
  /\ base' = IF clamped THEN [base EXCEPT ![o.good] = @ + o.qty - o.seen] ELSE base
  /\ raced' = IF o.noted # o.qty THEN raced \cup {o.good} ELSE raced
  /\ UNCHANGED <<listed, slip, issue, unchecked>>

\* The transaction and its details are deleted last.
DropStockTransaction(w) ==
  LET o == keeper[w] IN
  /\ o.pc = "undone"
  /\ slip' = [slip EXCEPT ![o.k] = NoSlip]
  /\ Finishes(w)
  /\ UNCHANGED <<listed, stock, issue, base, raced, unchecked>>

-----------------------------------------------------------------------------
(* Assets in the hands of employees                                        *)

HeldBy(p, g) == {i \in Issues : issue[i].status = "ASSIGNED"
                                /\ issue[i].who = p /\ issue[i].good = g}

(* assignAssetToEmployee: what the employee holds of the asset grows, or a *)
(* new assignment is made.                                                 *)
AssignAsset(w, i, p, g, q) ==
  /\ q <= stock[g]
  /\ i \in IF HeldBy(p, g) # {} THEN HeldBy(p, g) ELSE FreeIssues
  /\ Begins(w, [Read("assign", i, g, q) EXCEPT !.who = p, !.noted = issue[i].qty])
  /\ UNCHANGED <<listed, stock, issue, slip, base, unchecked>>

\* The assignment is saved first, from what was read of it ...
SaveAssignment(w) ==
  LET o == keeper[w] IN
  /\ o.pc = "assign"
  /\ issue' = [issue EXCEPT ![o.k] =
                 [status |-> "ASSIGNED", who |-> o.who, good |-> o.good,
                  qty |-> o.noted + o.qty]]
  /\ Goes(w, [o EXCEPT !.pc = "assigned", !.owed = o.qty])
  /\ UNCHANGED <<listed, stock, slip, base, raced, unchecked>>

\* ... then the stock.
SaveAssignedStock(w) ==
  LET o == keeper[w] IN
  /\ o.pc = "assigned"
  /\ stock' = [stock EXCEPT ![o.good] = o.seen - o.qty]
  /\ Finishes(w)
  /\ UNCHANGED <<listed, slip, issue, base, raced, unchecked>>

(* reassignAsset: once more what an assignment gave, closed or not.        *)
ReassignAsset(w, old, i, q) ==
  /\ issue[old].status # "NONE"
  /\ AssignAsset(w, i, issue[old].who, issue[old].good, q)

(* What is closed goes back to stock, lost or not.                         *)
ReturnAnyAsset(w, i, status) ==
  /\ issue[i].status = "ASSIGNED"
  /\ issue' = [issue EXCEPT ![i].status = status]
  /\ stock' = [stock EXCEPT ![issue[i].good] = @ + issue[i].qty]
  /\ Requested(w)
  /\ Touch(issue[i].good, w)
  /\ UNCHANGED <<listed, slip, keeper, base, torn, unchecked>>

(* returnAsset: the assignment is locked and closed once; only a returned  *)
(* asset goes back to stock, a damaged or lost one does not.               *)
ReturnAsset(w, i, status) ==
  LET g == issue[i].good IN
  /\ issue[i].status = "ASSIGNED"
  /\ issue' = [issue EXCEPT ![i].status = status]
  /\ stock' = IF status = "RETURNED"
              THEN [stock EXCEPT ![g] = @ + issue[i].qty] ELSE stock
  /\ Requested(w)
  /\ Touch(g, w)
  /\ UNCHANGED <<listed, slip, keeper, base, torn, unchecked>>

(* exchangeAsset: the old assignment and the new asset, which may be the   *)
(* same one, are read and checked, then one transaction closes the one as  *)
(* it was read and counts the other.                                       *)
ExchangeAsset(w, i, g, q) ==
  /\ issue[i].status = "ASSIGNED"
  /\ q <= stock[g]
  /\ FreeIssues \cup (HeldBy(issue[i].who, g) \ {i}) # {}
  /\ Requested(w)
  /\ keeper' = [keeper EXCEPT ![w] = [Read("exchange", i, g, q) EXCEPT
                  !.who = issue[i].who, !.noted = issue[i].qty]]
  /\ raced' = raced \cup {h \in {g, issue[i].good} : Races(h, w)}
  /\ UNCHANGED <<listed, stock, issue, slip, base, torn, unchecked>>

SaveExchange(w, n) ==
  LET o == keeper[w]
      old == issue[o.k]
      held == HeldBy(o.who, o.good) \ {o.k}
  IN
  /\ o.pc = "exchange"
  /\ n \in IF held # {} THEN held ELSE FreeIssues
  /\ issue' = [issue EXCEPT ![o.k].status = "RETURNED", ![o.k].qty = o.noted,
                            ![n] = [status |-> "ASSIGNED", who |-> o.who,
                                    good |-> o.good, qty |-> @.qty + o.qty]]
  /\ stock' = [stock EXCEPT ![old.good] = @ + o.noted, ![o.good] = @ - o.qty]
  /\ raced' = raced \cup {h \in {o.good, old.good} : Races(h, w)}
                    \cup (IF old.status # "ASSIGNED" \/ old.qty # o.noted
                          THEN {old.good} ELSE {})
  /\ Finishes(w)
  /\ UNCHANGED <<listed, slip, base, unchecked>>

(* assignInitialAssets of a hire: one each, under the row locks.           *)
AssignInitialAsset(w, i, p, g) ==
  /\ i \in FreeIssues
  /\ stock[g] > 0
  /\ issue' = [issue EXCEPT ![i] = [status |-> "ASSIGNED", who |-> p,
                                    good |-> g, qty |-> 1]]
  /\ stock' = [stock EXCEPT ![g] = @ - 1]
  /\ Requested(w)
  /\ Touch(g, w)
  /\ UNCHANGED <<listed, slip, keeper, base, torn, unchecked>>

(* resetFormerStintForRehire takes back what a former employee still held. *)
ReturnOnRehire(w, p) ==
  LET mine == {i \in Issues : issue[i].who = p /\ issue[i].status = "ASSIGNED"}
      back(g) == Cardinality(Pieces(issue, {i \in mine : issue[i].good = g}))
  IN
  /\ mine # {}
  /\ stock' = [g \in Goods |-> stock[g] + back(g)]
  /\ issue' = [i \in Issues |-> IF i \in mine
                 THEN [issue[i] EXCEPT !.status = "RETURNED"] ELSE issue[i]]
  /\ Requested(w)
  /\ raced' = raced \cup {g \in {issue[i].good : i \in mine} : Races(g, w)}
  /\ UNCHANGED <<listed, slip, keeper, base, torn, unchecked>>

InventoryNext ==
  \E w \in Keepers :
    \/ \E k \in Slips, g \in listed, q \in Quantities :
         \/ \E type \in {"IMPORT", "EXPORT"} :
              CreateStockTransaction(w, k, g, q, type)
         \/ ExportBulk(w, k, g, q)
         \/ CreateOrder(w, k, g, q)
    \/ \E k \in Slips, g \in Goods, q \in Quantities \cup {0} : CreateGoods(w, k, g, q)
    \/ \E g \in listed, q \in Quantities : AdjustStock(w, g, q)
    \/ \E k \in Slips : DeleteStockTransaction(w, k)
    \/ \E i \in Issues, g \in listed, q \in Quantities :
         \/ \E p \in Staff : AssignAsset(w, i, p, g, q)
         \/ ExchangeAsset(w, i, g, q)
    \/ \E old, i \in Issues, q \in Quantities : ReassignAsset(w, old, i, q)
    \/ \E i \in Issues, status \in {"RETURNED", "LOST"} : ReturnAsset(w, i, status)
    \/ \E i \in Issues, p \in Staff, g \in listed : AssignInitialAsset(w, i, p, g)
    \/ \E p \in Staff : ReturnOnRehire(w, p)
    \/ SaveStockLine(w) \/ SaveStockTransaction(w)
    \/ \E q \in Quantities : NextStockLine(w, q)
    \/ SaveExportPaper(w) \/ SaveExport(w)
    \/ SaveOrderLine(w) \/ SaveOrder(w)
    \/ UndoStockTransaction(w) \/ DropStockTransaction(w)
    \/ SaveAssignment(w) \/ SaveAssignedStock(w)
    \/ KeeperDies(w)
    \/ \E n \in Issues : SaveExchange(w, n)

InventorySpec == InventoryInit /\ [][InventoryNext]_inventoryVars

-----------------------------------------------------------------------------
InventoryTypeOK ==
  /\ listed \subseteq Goods
  /\ stock \in [Goods -> Int]
  /\ issue \in [Issues -> AssetAssignment]
  /\ slip \in [Slips -> StockTransaction]
  /\ keeper \in [Keepers -> KeeperState]
  /\ requests \in 0 .. MaxRequests
  /\ base \in [Goods -> Int]
  /\ raced \subseteq Goods
  /\ torn \subseteq Goods
  /\ unchecked \subseteq Goods

(* The stock of a row agrees with its papers: with the imports and exports *)
(* that were not deleted and the assets that are out, through orders,      *)
(* exchanges, rehires and undone transactions, as long as two copies of    *)
(* the row were never out at once and no request died on it half-way.      *)
StockMatchesPapers ==
  \A g \in Goods \ (raced \cup torn) :
    InFlightOn(g) = {} => stock[g] = base[g] + Moves(g)

(* The checks cover the stock: a row below zero was raced for, or taken    *)
(* from by an order or a transaction, which check nothing.                 *)
OverdrawnOnlyUnchecked ==
  \A g \in Goods : stock[g] < 0 => g \in raced \cup unchecked

(* What makes them inductive.  A request holds a row that exists and, of   *)
(* that row alone, a paper.                                                *)
Holds(w) ==
  LET o == keeper[w] IN
  /\ o.pc = "free" <=> o = FreeKeeper
  /\ o.pc # "free" => o.good \in listed
  /\ o.pc \in SlipSteps =>
       /\ o.k \in Slips /\ o.type # "NONE"
       /\ slip[o.k].good \in {Nobody, o.good}
  /\ o.pc \in AssetSteps => o.k \in Issues /\ o.who \in Staff
  /\ o.pc = "assign" => issue[o.k].good \in {Nobody, o.good}
  /\ o.pc \in {"assigned", "exchange"} => issue[o.k].good # Nobody
(* Two requests hold one paper only on one row.                            *)
Apart(v, w) ==
  keeper[v].k = keeper[w].k
  /\ \/ keeper[v].pc \in SlipSteps /\ keeper[w].pc \in SlipSteps
     \/ keeper[v].pc = "assign" /\ keeper[w].pc = "assign"
  => keeper[v].good = keeper[w].good
PapersInHand == \A w \in Keepers : Holds(w) /\ \A v \in Keepers : Apart(v, w)

(* The one request in flight on a row has read it as it is, it covers what *)
(* that request checked, and its paper is as the request knows it.         *)
Fresh(w) ==
  LET o == keeper[w] IN
  /\ o.pc \in {"slip", "export", "exported", "unslip", "assign", "assigned"}
       \/ (o.pc = "order" /\ o.noted = 0) => o.seen = stock[o.good]
  /\ o.pc \in {"export", "exported", "assign", "assigned", "exchange"} =>
       o.qty <= stock[o.good]
  /\ o.pc \in {"opening", "slip", "paper", "export"} => slip[o.k] = NoSlip
  /\ o.pc \in {"order", "ordered"} =>
       \/ slip[o.k] = NoSlip /\ o.noted = 0
       \/ slip[o.k].type = "EXPORT" /\ slip[o.k].qty = o.noted /\ slip[o.k].good = o.good
  /\ o.pc = "unslip" => slip[o.k].qty = o.noted
  /\ o.pc = "undone" => slip[o.k].qty = o.qty
  /\ o.pc \in {"unslip", "undone"} => slip[o.k].type = o.type /\ slip[o.k].good = o.good
  /\ o.pc = "assign" =>
       /\ issue[o.k].qty = o.noted
       /\ \/ issue[o.k] = NoIssue
          \/ issue[o.k].status = "ASSIGNED" /\ issue[o.k].good = o.good
  /\ o.pc \in {"opening", "paper"} \/ (o.pc = "slip" /\ o.noted > 0) =>
       o.owed = IF o.type = "IMPORT" THEN o.noted ELSE -o.noted
  /\ o.pc \in {"exported", "assigned"} => o.owed = o.qty
  /\ o.pc = "ordered" => o.owed = -o.qty
  /\ o.pc = "undone" => o.owed = IF o.type = "EXPORT" THEN o.qty ELSE -o.qty
  /\ o.pc \in {"export", "order", "unslip", "assign", "exchange"}
       \/ (o.pc = "slip" /\ o.noted = 0) => o.owed = 0
ReadsAreFresh ==
  \A g \in Goods \ raced :
    /\ \A v, w \in InFlightOn(g) : v = w
    /\ \A w \in InFlightOn(g) : Fresh(w)

(* Rows that do not exist yet have no stock and no papers.                 *)
UnlistedIsEmpty ==
  /\ \A g \in Goods \ listed : stock[g] = 0 /\ base[g] = 0
  /\ \A k \in Slips : slip[k].good \in listed \cup {Nobody}
                       /\ (slip[k].good = Nobody => slip[k] = NoSlip)
                       /\ (slip[k].type = "NONE" => slip[k] = NoSlip)
  /\ \A i \in Issues : issue[i].good \in listed \cup {Nobody}
                        /\ (issue[i].status = "NONE" => issue[i] = NoIssue)
                        /\ (issue[i].status # "NONE" => issue[i].who \in Staff)
                        /\ (issue[i].good = Nobody => issue[i] = NoIssue)

\* The books of a row balance with what the request on it still owes them.
StockIsPapers ==
  \A g \in Goods \ (raced \cup torn) :
    /\ InFlightOn(g) = {} => stock[g] = base[g] + Moves(g)
    /\ \A w \in InFlightOn(g) : stock[g] = base[g] + Moves(g) + keeper[w].owed

InventoryInd ==
  /\ InventoryTypeOK /\ PapersInHand /\ ReadsAreFresh /\ UnlistedIsEmpty
  /\ StockIsPapers /\ OverdrawnOnlyUnchecked

(* What the stock promises: it agrees with its papers, and only what       *)
(* checks nothing overdraws it.                                            *)
InventoryPromise ==
  /\ InventoryInd
  /\ StockMatchesPapers
  /\ OverdrawnOnlyUnchecked
=============================================================================
