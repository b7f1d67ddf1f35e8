--------------------------- MODULE OzonStocksSync ---------------------------
(***************************************************************************)
(* The Ozon stock synchronization (service/ozon_stocks.go): walk the       *)
(* product list by last_id, upsert each page, and when the walk is over    *)
(* set to zero every row that was last synced before the run started.      *)
(* The start is read from the program's clock and cut to the second by     *)
(* RFC3339; synced_at is written from the clock of the database.           *)
(*                                                                         *)
(* Data.  Products are their ids, the order of the list.  Time is in ticks *)
(* of the program's clock, Sec of them a second.  A product without a row  *)
(* in ozon_remains is one whose row says 0: ResetStale cannot tell.        *)
(***************************************************************************)
EXTENDS Integers, FiniteSets

CONSTANTS
  Products,     \* product ids, positive
  MaxStock,     \* FBO stock of a product at Ozon: 0..MaxStock
  Limit,        \* products on a page (the code's 100)
  Sec,          \* ticks in a second
  DbAhead, DbBehind, \* the database's clock minus the program's, in ticks
  Gap,          \* least time from the end of a run to the start of the next
  MaxTime,      \* bound: the clock
  MaxChanges,   \* bound: changes at Ozon
  FaultKinds,   \* "api", "db", "commit", "crash", "cancel"
  MaxFaults     \* bound: faults

ASSUME ProductAssumption == Products \subseteq Nat \ {0} /\ IsFiniteSet(Products)
ASSUME NumberAssumption ==
  /\ {Limit, Sec} \subseteq Nat \ {0}
  /\ {MaxStock, Gap, DbAhead, DbBehind, MaxTime, MaxChanges, MaxFaults} \subseteq Nat

Skew == DbAhead - DbBehind

VARIABLES
  now,
  \* Ozon
  listed,   \* the products on the seller's list
  stock,    \* [Products -> 0..MaxStock]
  changes,
  \* ozon_remains
  amount,   \* [Products -> Nat]: fbo_visible_amount (fbo_present_amount is equal)
  synced,   \* [Products -> Int]: synced_at
  \* the process
  pc, startTime, lastID,
  items,    \* the page: [S -> {0, 1}], the amount of each of its products
  newLastID, \* 0 stands for the empty string
  status, live,
  ended,    \* when the last run ended
  faults,
  \* history of the run, read by the properties only
  shown,    \* the amounts Ozon has shown of a product
  lost      \* the products of pages that were acknowledged and did not commit

ozon == <<listed, stock, changes>>
table == <<amount, synced>>
locals == <<startTime, lastID, items, newLastID, status>>
history == <<shown, lost>>
vars == <<now, ozon, table, pc, locals, live, ended, faults, history>>

Running == pc # "idle"

\* normalizeStocks: the API only says whether there is stock, and boolToInt
\* turns that into the amount.
BoolToInt(b) == IF b THEN 1 ELSE 0
Amount(p) == BoolToInt(stock[p] > 0)

\* What the list says of p, 0 when it is not on it.
Said(p) == IF p \in listed THEN Amount(p) ELSE 0

Init ==
  /\ now = 0
  /\ listed \in SUBSET Products /\ stock \in [Products -> 0..MaxStock] /\ changes = 0
  /\ amount = [p \in Products |-> 0] /\ synced = [p \in Products |-> Skew]
  /\ pc = "idle" /\ startTime = 0 /\ lastID = 0 /\ items = <<>> /\ newLastID = 0
  /\ status = "success" /\ live = TRUE /\ ended = -Gap /\ faults = 0
  /\ shown = [p \in Products |-> {}] /\ lost = {}

-----------------------------------------------------------------------------
(* The world. *)

Tick ==
  /\ now < MaxTime
  /\ now' = now + 1
  /\ UNCHANGED <<ozon, table, pc, locals, live, ended, faults, history>>

\* Ozon (external): a product is listed, taken off, or its stock changes.
Change ==
  /\ changes < MaxChanges /\ changes' = changes + 1
  /\ \E p \in Products :
       \/ listed' \in {listed \cup {p}, listed \ {p}} \ {listed} /\ UNCHANGED stock
       \/ /\ \E q \in 0..MaxStock \ {stock[p]} : stock' = [stock EXCEPT ![p] = q]
          /\ UNCHANGED listed
  /\ shown' = IF Running THEN [p \in Products |-> shown[p] \cup {Said(p)'}] ELSE shown
  /\ UNCHANGED <<now, table, pc, locals, live, ended, faults, lost>>

Strikes(kind) == kind \in FaultKinds /\ faults < MaxFaults /\ faults' = faults + 1

Breaks(kind) ==
  \/ ~live /\ UNCHANGED faults
  \/ live /\ Strikes(kind)

GiveUp == status' = "error" /\ pc' = "log"

Crash ==
  /\ Running /\ Strikes("crash")
  /\ pc' = "idle" /\ ended' = now
  /\ UNCHANGED <<now, ozon, table, locals, live, history>>

Cancel ==
  /\ Running /\ live /\ Strikes("cancel")
  /\ live' = FALSE
  /\ UNCHANGED <<now, ozon, table, pc, locals, ended, history>>

-----------------------------------------------------------------------------
(* One run of SyncOzonStocks. *)

Start ==
  /\ ~Running /\ now - ended >= Gap
  /\ pc' = "fetch" /\ live' = TRUE /\ status' = "success"
  /\ startTime' = now
  /\ lastID' = 0 /\ items' = <<>> /\ newLastID' = 0
  /\ shown' = [p \in Products |-> {Said(p)}] /\ lost' = {}
  /\ UNCHANGED <<now, ozon, table, ended, faults>>

Behind(id) == {p \in listed : p > id}

\* The lowest ids after id, as many as fit on a page (external).
Page(id) == {p \in Behind(id) : Cardinality({q \in Behind(id) : q < p}) < Limit}

\* The rest of the loop body of FetchAllStocks: an empty last_id ends it.
EndOfPage == pc' = IF newLastID' = 0 THEN "reset" ELSE "fetch"

\* A slip: only the first page is asked for.
FetchStocksBatch_OnePage ==
  /\ pc = "fetch" /\ live
  /\ items' = [p \in Page(lastID) |-> Amount(p)]
  /\ newLastID' = 0
  /\ IF Page(lastID) = {} THEN EndOfPage ELSE pc' = "upsert"
  /\ UNCHANGED <<now, ozon, table, startTime, lastID, status, live, ended, faults, history>>

\* FetchStocksBatch, and the callback's normalizeStocks.  The answer's last_id
\* is its last product, or empty when nothing is behind it; an empty page ends
\* the list (external).
FetchStocksBatch ==
  /\ pc = "fetch"
  /\ \/ /\ live
        /\ items' = [p \in Page(lastID) |-> Amount(p)]
        /\ \/ Page(lastID) = Behind(lastID) /\ newLastID' = 0
           \/ /\ newLastID' \in Page(lastID)
              /\ \A p \in Page(lastID) : p <= newLastID'
        /\ IF Page(lastID) = {} THEN EndOfPage ELSE pc' = "upsert"
        /\ UNCHANGED <<status, faults>>
     \/ Breaks("api") /\ GiveUp /\ UNCHANGED <<items, newLastID>>
  /\ UNCHANGED <<now, ozon, table, startTime, lastID, live, ended, history>>

\* A slip: the upsert adds to the amount instead of replacing it.
StorePage_Adds ==
  /\ amount' = [p \in Products |-> IF p \in DOMAIN items THEN amount[p] + items[p] ELSE amount[p]]
  /\ synced' = [p \in Products |-> IF p \in DOMAIN items THEN now + Skew ELSE synced[p]]

StorePage ==
  /\ amount' = [p \in Products |-> IF p \in DOMAIN items THEN items[p] ELSE amount[p]]
  /\ synced' = [p \in Products |-> IF p \in DOMAIN items THEN now + Skew ELSE synced[p]]

\* A slip: a page that cannot be saved is skipped.
UpsertBatch_SkipsPage ==
  /\ pc = "upsert"
  /\ StorePage \/ UNCHANGED table
  /\ lastID' = newLastID /\ UNCHANGED newLastID
  /\ EndOfPage
  /\ UNCHANGED <<now, ozon, startTime, items, status, live, ended, faults, history>>

\* A slip: the walk asks for the same page again.
UpsertBatch_SamePage ==
  /\ pc = "upsert" /\ live
  /\ StorePage
  /\ UNCHANGED <<lastID, newLastID>>
  /\ EndOfPage
  /\ UNCHANGED <<now, ozon, startTime, items, status, live, ended, faults, history>>

\* UpsertBatch, and the rest of the loop body.  Only the deferred br.Close
\* learns that a batch did not commit, and its error is dropped: the walk goes
\* on as if the page were stored.
UpsertBatch ==
  /\ pc = "upsert"
  /\ UNCHANGED newLastID
  /\ \/ /\ live
        /\ \/ StorePage /\ UNCHANGED <<faults, lost>>
           \/ Strikes("commit") /\ lost' = lost \cup DOMAIN items /\ UNCHANGED table
        /\ lastID' = newLastID
        /\ EndOfPage
        /\ UNCHANGED status
     \/ /\ Breaks("db")
        /\ StorePage \/ UNCHANGED table
        /\ GiveUp
        /\ UNCHANGED <<lastID, lost>>
  /\ UNCHANGED <<now, ozon, startTime, items, live, ended, shown>>

\* startTime.Format(time.RFC3339)
RFC3339(t) == (t \div Sec) * Sec

Stale == {p \in Products : synced[p] < RFC3339(startTime)}

ZeroStale ==
  /\ amount' = [p \in Products |-> IF p \in Stale THEN 0 ELSE amount[p]]
  /\ synced' = [p \in Products |-> IF p \in Stale THEN now + Skew ELSE synced[p]]

ResetStale ==
  /\ pc = "reset"
  /\ \/ live /\ ZeroStale /\ pc' = "log" /\ UNCHANGED <<status, faults>>
     \/ Breaks("db") /\ (ZeroStale \/ UNCHANGED table) /\ GiveUp
  /\ UNCHANGED <<now, ozon, startTime, lastID, items, newLastID, live, ended, history>>

\* The deferred insert into ozon_sync_logs, whether or not it succeeds.
InsertOzonLog ==
  /\ pc = "log"
  /\ pc' = "idle" /\ ended' = now
  /\ UNCHANGED <<now, ozon, table, locals, live, faults, history>>

Step == FetchStocksBatch \/ UpsertBatch \/ ResetStale \/ InsertOzonLog

Next == Tick \/ Change \/ Crash \/ Cancel \/ Start \/ Step

Spec == Init /\ [][Next]_vars
FairSpec == Spec /\ WF_vars(Step)

-----------------------------------------------------------------------------
(* Properties *)

\* The values the variables take.
TypeOK ==
  /\ now \in 0..MaxTime /\ listed \subseteq Products /\ stock \in [Products -> 0..MaxStock]
  /\ amount \in [Products -> {0, 1}] /\ synced \in [Products -> Int]
  /\ pc \in {"idle", "fetch", "upsert", "reset", "log"}
  /\ startTime \in 0..now /\ {lastID, newLastID} \subseteq Products \cup {0}
  /\ items \in UNION {[S -> {0, 1}] : S \in SUBSET Products}
  /\ status \in {"success", "error"} /\ live \in BOOLEAN
  /\ lost \subseteq Products

\* What a row may say: an amount Ozon showed of the product during the run, or
\* 0 when its page was acknowledged and lost.
Justified(p, n) == n \in shown[p] \/ (p \in lost /\ n = 0)

\* Whatever a run writes, in whichever order its pages fail, is something Ozon
\* showed of the product during the run: no row is zeroed because its page was
\* never read, the call that stores it failed or its timestamp looked old.  A
\* page lost at commit goes unnoticed: its rows, and no others, may be zeroed
\* although they are in stock (br.Close, repository/ozon_stocks.go:62).
WritesWereShown ==
  [][\A p \in Products : amount'[p] # amount[p] => Justified(p, amount'[p])]_vars

\* After a successful run every row agrees with something Ozon showed during
\* the run: a product gone from the list is 0, one that stayed is not, unless
\* its page was lost at commit, which leaves it 0.
StockWasShown ==
  pc = "log" /\ status = "success" => \A p \in Products : Justified(p, amount[p])

\* Every run ends: the walk always moves on.
RunEnds == Running ~> ~Running
=============================================================================
