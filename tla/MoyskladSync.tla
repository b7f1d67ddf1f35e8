---------------------------- MODULE MoyskladSync ----------------------------
(***************************************************************************)
(* The MoySklad stock synchronization (service/moysklad.go): save the      *)
(* warehouses, open a snapshot, read the stock report page by page with    *)
(* offset and limit, add the rows up per product and warehouse, insert the *)
(* sums under the snapshot and overwrite the products' totals.             *)
(*                                                                         *)
(* Data.  A report row is a product and its quantity in each warehouse;    *)
(* stock, reserve and inTransit are handled alike and one stands for the   *)
(* three.  The API counts in fractions: a quantity is in units of 1/Unit,  *)
(* and the code keeps its whole part.  The list of warehouses fits on one  *)
(* page (1000).                                                            *)
(***************************************************************************)
EXTENDS Integers, Sequences, FiniteSets, SequencesExt

CONSTANTS
  Products, Stores,
  Quantities,   \* what the report may say, in units of 1/Unit
  Unit,
  Limit,        \* rows on a page of the report (the code's 1000)
  Jobs,         \* processes that may run `sync --entity=ms_stocks`
  Overlap,      \* may a second process start while one runs?
  Changes,      \* what may happen upstream: "insert", "remove", "quantity", "store"
  MaxChanges,   \* bound: how many times
  FaultKinds,   \* "api", "db", "commit", "crash", "cancel"
  MaxFaults,    \* bound: how many faults
  MaxSnapshots  \* the last id ms_snapshots can give out (SERIAL)

ASSUME FiniteAssumption == IsFiniteSet(Products) /\ IsFiniteSet(Stores)
ASSUME QuantityAssumption == Quantities \subseteq Nat /\ 0 \in Quantities /\ Unit \in Nat \ {0}
ASSUME LimitAssumption == Limit \in Nat \ {0}
ASSUME BoundAssumption == {MaxChanges, MaxFaults, MaxSnapshots} \subseteq Nat

VARIABLES
  \* MoySklad
  report,      \* the products on the stock report, in its order
  qty,         \* [Products -> [Stores -> Quantities]]
  warehouses,  \* the warehouses it lists
  changes,     \* how many changes so far
  \* the database
  stores,      \* ms_stores
  snapshots,   \* ms_snapshots: how many, the ids are 1..snapshots
  details,     \* ms_stock_details: id -> product -> store -> sum, 0: no row
  totals,      \* ms_product_totals: product -> [sum, snapshot], snapshot 0: no row
  \* the processes
  pc, fetched, snapshot, offset, raw, status, live, faults,
  \* history: what the report has said of a product and store during the run
  shown,
  moved        \* and whether a product has entered or left the report since its start

upstream == <<report, qty, warehouses, changes>>
db == <<stores, snapshots, details, totals>>
locals == <<fetched, snapshot, offset, raw, status>>
history == <<shown, moved>>
vars == <<upstream, db, pc, locals, live, faults, history>>

Nothing == [p \in Products |-> [s \in Stores |-> 0]]
NoTotal == [sum |-> 0, snapshot |-> 0]
Running(j) == pc[j] # "idle"

\* int(sbs.Stock): the whole part.
Whole(q) == q \div Unit

\* What the report says now of product p in store s, as the code reads it.
Said(p, s) == IF p \in ToSet(report) THEN Whole(qty[p][s]) ELSE 0

Init ==
  /\ report \in SetToAllKPermutations(Products)
  /\ warehouses \in SUBSET Stores
  /\ qty \in [Products -> [Stores -> Quantities]]
  /\ \A p \in Products, s \in Stores \ warehouses : qty[p][s] = 0
  /\ \A p \in Products \ ToSet(report), s \in Stores : qty[p][s] = 0
  /\ changes = 0
  /\ stores = {} /\ snapshots = 0
  /\ details = [i \in 1..MaxSnapshots |-> Nothing]
  /\ totals = [p \in Products |-> NoTotal]
  /\ pc = [j \in Jobs |-> "idle"]
  /\ fetched = [j \in Jobs |-> {}] /\ snapshot = [j \in Jobs |-> 0]
  /\ offset = [j \in Jobs |-> 0] /\ raw = [j \in Jobs |-> <<>>]
  /\ status = [j \in Jobs |-> "success"]
  /\ live = [j \in Jobs |-> TRUE] /\ faults = 0
  /\ shown = [j \in Jobs |-> [p \in Products |-> [s \in Stores |-> {}]]]
  /\ moved = [j \in Jobs |-> FALSE]

-----------------------------------------------------------------------------
(* MoySklad (external) changes while a run reads it. *)

\* The runs under way see the report as it is from now on.
Show ==
  shown' = [j \in Jobs |->
              IF Running(j)
                THEN [p \in Products |-> [s \in Stores |-> shown[j][p][s] \cup {Said(p, s)'}]]
                ELSE shown[j]]

Move == moved' = [j \in Jobs |-> moved[j] \/ Running(j)]

Changed(kind) ==
  /\ kind \in Changes /\ changes < MaxChanges
  /\ changes' = changes + 1
  /\ UNCHANGED <<db, pc, locals, live, faults>>

\* A product appears somewhere in the report, with some stock.
InsertRow ==
  \E p \in Products \ ToSet(report), i \in 1..Len(report) + 1, q \in [Stores -> Quantities] :
    /\ \A s \in Stores \ warehouses : q[s] = 0
    /\ report' = InsertAt(report, i, p)
    /\ qty' = [qty EXCEPT ![p] = q]
    /\ UNCHANGED warehouses
    /\ Changed("insert") /\ Show /\ Move

\* A product leaves the report.
RemoveRow ==
  \E i \in DOMAIN report :
    /\ report' = RemoveAt(report, i)
    /\ UNCHANGED <<qty, warehouses>>
    /\ Changed("remove") /\ Show /\ Move

\* Goods come and go.
SetQuantity ==
  \E p \in ToSet(report), s \in warehouses, q \in Quantities :
    /\ q # qty[p][s]
    /\ qty' = [qty EXCEPT ![p][s] = q]
    /\ UNCHANGED <<report, warehouses>>
    /\ Changed("quantity") /\ Show /\ UNCHANGED moved

\* A warehouse opens.
OpenStore ==
  \E s \in Stores \ warehouses :
    /\ warehouses' = warehouses \cup {s}
    /\ UNCHANGED <<report, qty>>
    /\ Changed("store") /\ Show /\ UNCHANGED moved

-----------------------------------------------------------------------------
(* Faults, as in CardSync: every call takes ctx. *)

Strikes(kind) == kind \in FaultKinds /\ faults < MaxFaults /\ faults' = faults + 1

Breaks(j, kind) ==
  \/ ~live[j] /\ UNCHANGED faults
  \/ live[j] /\ Strikes(kind)

\* Each of the three batches below is read to its last result and its br.Close
\* deferred, the error dropped: one that fails as it commits counts as stored
\* (repository/moysklad.go:57, 141, 188).  Taken to commit when ~LoseCommit.
LoseCommit == "commit" \in FaultKinds

Goto(j, label) == pc' = [pc EXCEPT ![j] = label]

GiveUp(j) ==
  /\ status' = [status EXCEPT ![j] = "error"]
  /\ Goto(j, "log")

Crash(j) ==
  /\ Running(j) /\ Strikes("crash")
  /\ Goto(j, "idle")
  /\ UNCHANGED <<upstream, db, locals, live, history>>

Cancel(j) ==
  /\ Running(j) /\ live[j] /\ Strikes("cancel")
  /\ live' = [live EXCEPT ![j] = FALSE]
  /\ UNCHANGED <<upstream, db, pc, locals, history>>

-----------------------------------------------------------------------------
(* One run of SyncMoysklad, one action per call. *)

Start(j) ==
  /\ Overlap \/ \A k \in Jobs : ~Running(k)
  /\ ~Running(j)
  /\ Goto(j, "stores")
  /\ live' = [live EXCEPT ![j] = TRUE]
  /\ status' = [status EXCEPT ![j] = "success"]
  /\ fetched' = [fetched EXCEPT ![j] = {}]
  /\ snapshot' = [snapshot EXCEPT ![j] = 0]
  /\ offset' = [offset EXCEPT ![j] = 0]
  /\ raw' = [raw EXCEPT ![j] = <<>>]
  /\ shown' = [shown EXCEPT ![j] = [p \in Products |-> [s \in Stores |-> {Said(p, s)}]]]
  /\ moved' = [moved EXCEPT ![j] = FALSE]
  /\ UNCHANGED <<upstream, db, faults>>

\* FetchStores and parseStores; a malformed answer is an "api" fault too.
FetchStores(j) ==
  /\ pc[j] = "stores"
  /\ \/ /\ live[j]
        /\ fetched' = [fetched EXCEPT ![j] = warehouses]
        /\ Goto(j, IF warehouses = {} THEN "snapshot" ELSE "upsertStores")
        /\ UNCHANGED <<status, faults>>
     \/ Breaks(j, "api") /\ GiveUp(j) /\ UNCHANGED fetched
  /\ UNCHANGED <<upstream, db, live, snapshot, offset, raw, history>>

UpsertStores(j) ==
  /\ pc[j] = "upsertStores"
  /\ \/ /\ live[j]
        /\ \/ stores' = stores \cup fetched[j] /\ UNCHANGED faults
           \/ Strikes("commit") /\ UNCHANGED stores
        /\ Goto(j, "snapshot")
        /\ UNCHANGED status
     \/ /\ Breaks(j, "db")
        /\ stores' \in {stores, stores \cup fetched[j]}
        /\ GiveUp(j)
  /\ UNCHANGED <<upstream, snapshots, details, totals, live, fetched, snapshot, offset, raw,
                 history>>

\* A slip: the insert may fail and its id is used all the same.
CreateSnapshot_IgnoresError(j) ==
  /\ pc[j] = "snapshot" /\ live[j] /\ snapshots < MaxSnapshots
  /\ snapshots' \in {snapshots, snapshots + 1}
  /\ snapshot' = [snapshot EXCEPT ![j] = snapshots + 1]
  /\ Goto(j, "page")
  /\ UNCHANGED <<upstream, stores, details, totals, live, fetched, offset, raw,
                 status, faults, history>>

\* A snapshot whose answer is lost stays behind; so do those of failed runs.
CreateSnapshot(j) ==
  /\ pc[j] = "snapshot"
  /\ \/ /\ live[j] /\ snapshots < MaxSnapshots
        /\ snapshots' = snapshots + 1
        /\ snapshot' = [snapshot EXCEPT ![j] = snapshots']
        /\ Goto(j, "page")
        /\ UNCHANGED <<status, faults>>
     \/ /\ live[j] /\ snapshots = MaxSnapshots
        /\ GiveUp(j)
        /\ UNCHANGED <<snapshots, snapshot, faults>>
     \/ /\ Breaks(j, "db")
        /\ snapshots' \in {snapshots, snapshots + 1} /\ snapshots' <= MaxSnapshots
        /\ GiveUp(j)
        /\ UNCHANGED snapshot
  /\ UNCHANGED <<upstream, stores, details, totals, live, fetched, offset, raw, history>>

\* The sums of normalizeStockData, over rows r: a product that comes twice is
\* added twice, and a sum of 0 makes no detail.
RowsOf(r, p) == {i \in DOMAIN r : r[i].product = p}
Figures(row) == [s \in Stores |-> Whole(row.quantities[s])]

Detail(r, p, s) == SumFunctionOnSet([i \in DOMAIN r |-> Figures(r[i])[s]], RowsOf(r, p))

Details(r) == [p \in Products |-> [s \in Stores |-> Detail(r, p, s)]]

\* The total of a product is added up in the same pass.
Total(r, p) ==
  SumFunctionOnSet([i \in DOMAIN r |-> SumFunctionOnSet(Figures(r[i]), Stores)], RowsOf(r, p))

Named(r) == {r[i].product : i \in DOMAIN r}
DetailRows(d) == {x \in Products \X Stores : d[x[1]][x[2]] # 0}

\* The part of the report at an offset.
PageAt(o) ==
  [i \in 1..Min({Limit, Len(report) - o}) |->
     [product |-> report[o + i], quantities |-> qty[report[o + i]]]]

\* A slip: the offset is computed from the page's number, off by one.
FetchStockByStorePage_FirstTwice(j) ==
  /\ pc[j] = "page" /\ live[j]
  /\ raw' = [raw EXCEPT ![j] = @ \o PageAt(offset[j])]
  /\ IF Len(PageAt(offset[j])) = Limit
       THEN Goto(j, "page") /\ offset' = [offset EXCEPT ![j] = IF raw[j] = <<>> THEN 0 ELSE @ + Limit]
       ELSE Goto(j, "details") /\ UNCHANGED offset
  /\ UNCHANGED <<upstream, db, live, fetched, snapshot, status, faults, history>>

\* One round of FetchAllStockByStore; after the last, the early return on an
\* empty report, and normalizeStockData.
FetchStockByStorePage(j) ==
  /\ pc[j] = "page"
  /\ \/ /\ live[j]
        /\ raw' = [raw EXCEPT ![j] = @ \o PageAt(offset[j])]
        /\ \/ /\ Len(PageAt(offset[j])) = Limit
              /\ offset' = [offset EXCEPT ![j] = @ + Limit]
              /\ Goto(j, "page")
           \/ /\ Len(PageAt(offset[j])) < Limit
              /\ Goto(j, CASE raw'[j] = <<>> -> "log"
                           [] raw'[j] # <<>> /\ DetailRows(Details(raw'[j])) = {} -> "totals"
                           [] OTHER -> "details")
              /\ UNCHANGED offset
        /\ UNCHANGED <<status, faults>>
     \/ Breaks(j, "api") /\ GiveUp(j) /\ UNCHANGED <<raw, offset>>
  /\ UNCHANGED <<upstream, db, live, fetched, snapshot, history>>

\* A slip: the totals are written whatever became of the details.
InsertStockDetails_GoesOn(j) ==
  /\ pc[j] = "details"
  /\ \/ live[j] /\ details' = [details EXCEPT ![snapshot[j]] = Details(raw[j])]
     \/ UNCHANGED details
  /\ Goto(j, "totals")
  /\ UNCHANGED <<upstream, stores, snapshots, totals, live, locals, faults, history>>

\* The foreign keys of ms_stock_details.
StoresKnown(j) == \A x \in DetailRows(Details(raw[j])) : x[2] \in stores

InsertStockDetails(j) ==
  LET inserted == [details EXCEPT ![snapshot[j]] = Details(raw[j])] IN
  /\ pc[j] = "details"
  /\ \/ /\ live[j] /\ StoresKnown(j)
        /\ \/ details' = inserted /\ UNCHANGED faults
           \/ Strikes("commit") /\ UNCHANGED details
        /\ Goto(j, "totals")
        /\ UNCHANGED status
     \/ /\ live[j] /\ ~StoresKnown(j)
        /\ GiveUp(j)
        /\ UNCHANGED <<details, faults>>
     \/ /\ Breaks(j, "db")
        /\ details' \in {details} \cup {d \in {inserted} : StoresKnown(j)}
        /\ GiveUp(j)
  /\ UNCHANGED <<upstream, stores, snapshots, totals, live, fetched, snapshot, offset, raw,
                 history>>

\* A slip: only the products with stock are written, so the others keep the
\* total of an earlier snapshot.
UpsertProductTotals_StockOnly(j) ==
  /\ pc[j] = "totals" /\ live[j]
  /\ totals' = [p \in Products |->
                  IF p \in Named(raw[j]) /\ Total(raw[j], p) > 0
                    THEN [sum |-> Total(raw[j], p), snapshot |-> snapshot[j]]
                    ELSE totals[p]]
  /\ Goto(j, "log")
  /\ UNCHANGED <<upstream, stores, snapshots, details, live, locals, faults, history>>

UpsertProductTotals(j) ==
  LET upserted == [p \in Products |->
                     IF p \in Named(raw[j])
                       THEN [sum |-> Total(raw[j], p), snapshot |-> snapshot[j]]
                       ELSE totals[p]] IN
  /\ pc[j] = "totals"
  /\ \/ /\ live[j]
        /\ \/ totals' = upserted /\ UNCHANGED faults
           \/ Strikes("commit") /\ UNCHANGED totals
        /\ Goto(j, "log")
        /\ UNCHANGED status
     \/ /\ Breaks(j, "db")
        /\ totals' \in {totals, upserted}
        /\ GiveUp(j)
  /\ UNCHANGED <<upstream, stores, snapshots, details, live, fetched, snapshot, offset, raw,
                 history>>

\* The deferred insert into ms_job_log, whether or not it succeeds; then the
\* process exits.  No property reads the row.
InsertMsJobLog(j) ==
  /\ pc[j] = "log"
  /\ Goto(j, "idle")
  /\ UNCHANGED <<upstream, db, locals, live, faults, history>>

Step(j) ==
  \/ FetchStores(j) \/ UpsertStores(j) \/ CreateSnapshot(j) \/ FetchStockByStorePage(j)
  \/ InsertStockDetails(j) \/ UpsertProductTotals(j) \/ InsertMsJobLog(j)

Next ==
  \/ InsertRow \/ RemoveRow \/ SetQuantity \/ OpenStore
  \/ \E j \in Jobs : Start(j) \/ Step(j) \/ Crash(j) \/ Cancel(j)

Spec == Init /\ [][Next]_vars

-----------------------------------------------------------------------------
(* Properties *)

\* The values the variables take; snapshot ids point at snapshots.
TypeOK ==
  /\ report \in Seq(Products) /\ IsInjective(report)
  /\ qty \in [Products -> [Stores -> Quantities]]
  /\ warehouses \subseteq Stores /\ stores \subseteq Stores
  /\ snapshots \in 0..MaxSnapshots
  /\ details \in [1..MaxSnapshots -> [Products -> [Stores -> Nat]]]
  /\ totals \in [Products -> [sum : Nat, snapshot : 0..snapshots]]
  /\ pc \in [Jobs -> {"idle", "stores", "upsertStores", "snapshot", "page", "details",
                      "totals", "log"}]
  /\ snapshot \in [Jobs -> 0..snapshots]
  /\ fetched \in [Jobs -> SUBSET Stores]
  /\ raw \in [Jobs -> Seq([product : Products, quantities : [Stores -> Quantities]])]
  /\ offset \in [Jobs -> Nat]
  /\ status \in [Jobs -> {"success", "error"}] /\ live \in [Jobs -> BOOLEAN]
  /\ shown \in [Jobs -> [Products -> [Stores -> SUBSET Nat]]] /\ moved \in [Jobs -> BOOLEAN]

\* The total of a product agrees with the details of the snapshot it names,
\* wherever a run was cut short, if acked batches commit: details go in first,
\* and both are added up from the same rows (service/moysklad.go:123-141, 227-270).
TotalsMatchDetails ==
  \A p \in Products : totals[p].snapshot # 0 =>
    totals[p].sum = SumFunctionOnSet(details[totals[p].snapshot][p], Stores)

\* The tables are a store of snapshots: one is filled once and as a whole, never
\* changes when a total names it, and every total is the sum of one of them,
\* with two runs side by side and wherever a run was cut short
\* (service/moysklad.go:113-141, repository/moysklad.go:99-200).  This and the
\* two properties of a finished run hold if acked batches commit (~LoseCommit).
Store == INSTANCE SnapshotStore
ImplementsStore == Store!Spec

\* A run that wrote a snapshot and is about to log "success".
Done(j) == pc[j] = "log" /\ status[j] = "success" /\ raw[j] # <<>>

\* README.md:17 promises point-in-time snapshots.  As long as no product enters
\* or leaves the report meanwhile, each figure of a finished one is a figure the
\* report showed for that product and warehouse at some moment of the run (0:
\* none), whatever a run beside it does.
SnapshotWasShown ==
  \A j \in Jobs : Done(j) /\ ~moved[j] =>
    \A p \in Products, s \in Stores : details[snapshot[j]][p][s] \in shown[j][p][s]

\* Under the same condition a run that gets through leaves no product of the
\* report with the total of another snapshot, one without stock included.
SuccessRenewsAll ==
  [][\A j \in Jobs : ~Done(j) /\ Done(j)' /\ ~moved[j] =>
       \A p \in ToSet(report) : totals'[p].snapshot = snapshot[j]]_vars

\* GetStockTotal (repository/moysklad.go:280-288)
StockTotal == SumFunction([p \in Products |-> totals[p].sum])

\* repository/moysklad.go:279 calls it the sum of all stock across all
\* products: once a run has finished, that is the stock of its snapshot.
StockTotalIsStock ==
  \A j \in Jobs : pc[j] = "log" /\ status[j] = "success" =>
    StockTotal = SumFunction([x \in Products \X Stores |-> details[snapshot[j]][x[1]][x[2]]])
=============================================================================
