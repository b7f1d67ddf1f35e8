------------------------- MODULE OzonStocksSyncProofs -------------------------
(***************************************************************************)
(* Proofs about OzonStocksSync for every product list, page size, second   *)
(* and number of changes and faults.                                       *)
(***************************************************************************)
EXTENDS OzonStocksSync, FiniteSetTheorems, TLAPS

USE DEF ozon, table, locals, history

-----------------------------------------------------------------------------
(* Facts about seconds and pages. *)

\* Cutting a time to the second takes off less than a second.
LEMMA CutToSecond ==
  ASSUME NEW t \in Nat
  PROVE  RFC3339(t) \in Int /\ RFC3339(t) <= t /\ t - Sec < RFC3339(t)
<1>1. Sec \in Nat \ {0}
  BY NumberAssumption
<1>2. t = Sec * (t \div Sec) + (t % Sec) /\ t % Sec \in 0..Sec - 1
  BY <1>1
<1>3. t \div Sec \in Int
  BY <1>1
<1>4. Sec * (t \div Sec) = (t \div Sec) * Sec /\ (t \div Sec) * Sec \in Int
  BY <1>1, <1>3
<1> QED
  BY <1>1, <1>2, <1>3, <1>4 DEF RFC3339

LEMMA Numbers ==
  /\ Products \subseteq Nat \ {0} /\ Gap \in Nat /\ Sec \in Nat \ {0} /\ Skew \in Int
  /\ \A p \in Products : Amount(p) \in {0, 1} /\ Said(p) \in {0, 1}
  BY ProductAssumption, NumberAssumption DEF Skew, Amount, BoolToInt, Said

\* A page has no holes: what is listed behind id and not behind a product of the
\* page is on the page.
LEMMA PageIsPrefix ==
  ASSUME TypeOK, NEW id \in Products \cup {0}, NEW p \in Behind(id), NEW q \in Page(id), p <= q
  PROVE  p \in Page(id)
<1> DEFINE Before(x) == {y \in Behind(id) : y < x}
<1>1. Behind(id) \subseteq Products /\ Products \subseteq Nat
  BY Numbers DEF Behind, TypeOK
<1>2. q \in Behind(id) /\ Cardinality(Before(q)) < Limit
  BY DEF Page
<1>3. Before(p) \subseteq Before(q)
  <2> SUFFICES ASSUME NEW y \in Before(p) PROVE y \in Before(q)
    OBVIOUS
  <2>1. y \in Nat /\ p \in Nat /\ q \in Nat /\ y < p
    BY <1>1, <1>2
  <2> QED
    BY <2>1
<1>4. IsFiniteSet(Before(q))
  BY <1>1, FS_Subset, ProductAssumption
<1>5. Cardinality(Before(p)) <= Cardinality(Before(q))
  BY <1>3, <1>4, FS_Subset
<1>6. Cardinality(Before(p)) \in Nat /\ Cardinality(Before(q)) \in Nat
  BY <1>3, <1>4, FS_Subset, FS_CardinalityType
<1>7. Cardinality(Before(p)) < Limit
  BY <1>2, <1>5, <1>6, NumberAssumption
<1> QED
  BY <1>7 DEF Page

-----------------------------------------------------------------------------
(* Type correctness. *)

LEMMA PageType ==
  ASSUME items \in UNION {[S -> {0, 1}] : S \in SUBSET Products}
  PROVE  DOMAIN items \subseteq Products /\ \A p \in DOMAIN items : items[p] \in {0, 1}
  OBVIOUS

LEMMA IdType == TypeOK => lastID \in Nat /\ newLastID \in Nat
<1>1. Products \cup {0} \subseteq Nat
  BY Numbers
<1> QED
  BY <1>1 DEF TypeOK

LEMMA InitTypeOK == Init => TypeOK
<1>1. <<>> \in [{} -> {0, 1}]
  OBVIOUS
<1>2. <<>> \in UNION {[S -> {0, 1}] : S \in SUBSET Products}
  BY <1>1
<1> SUFFICES ASSUME Init PROVE TypeOK
  OBVIOUS
<1>3. synced \in [Products -> Int] /\ amount \in [Products -> {0, 1}]
  BY Numbers DEF Init
<1>4. {lastID, newLastID} \subseteq Products \cup {0}
  BY DEF Init
<1>5. now \in 0..MaxTime /\ startTime \in 0..now
  BY NumberAssumption DEF Init
<1> QED
  BY <1>2, <1>3, <1>4, <1>5 DEF Init, TypeOK

LEMMA NextTypeOK == TypeOK /\ [Next]_vars => TypeOK'
<1> SUFFICES ASSUME TypeOK, [Next]_vars PROVE TypeOK'
  OBVIOUS
<1>1. ASSUME Tick PROVE TypeOK'
  BY <1>1, NumberAssumption DEF Tick, TypeOK
<1>2. ASSUME Change PROVE TypeOK'
  <2>1. listed' \subseteq Products
    BY <1>2 DEF Change, TypeOK
  <2>2. stock' \in [Products -> 0..MaxStock]
    BY <1>2 DEF Change, TypeOK
  <2> QED
    BY <1>2, <2>1, <2>2 DEF Change, TypeOK
<1>3. ASSUME Crash \/ Cancel PROVE TypeOK'
  BY <1>3 DEF Crash, Cancel, TypeOK
<1>4. ASSUME Start PROVE TypeOK'
  <2>1. items' \in [{} -> {0, 1}]
    BY <1>4 DEF Start
  <2>2. items' \in UNION {[S -> {0, 1}] : S \in SUBSET Products}
    BY <2>1
  <2>3. {lastID', newLastID'} \subseteq Products \cup {0} /\ startTime' \in 0..now'
    BY <1>4, NumberAssumption DEF Start, TypeOK
  <2> QED
    BY <1>4, <2>2, <2>3 DEF Start, TypeOK
<1>5. ASSUME FetchStocksBatch PROVE TypeOK'
  <2>1. UNCHANGED <<now, ozon, table, startTime, lastID, live, ended, history>>
    BY <1>5 DEF FetchStocksBatch
  <2>2. Page(lastID) \subseteq Products
    BY DEF Page, Behind, TypeOK
  <2>3. items' \in UNION {[S -> {0, 1}] : S \in SUBSET Products}
    <3>1. CASE items' = items
      BY <3>1 DEF TypeOK
    <3>2. CASE items' = [p \in Page(lastID) |-> Amount(p)]
      <4>1. items' \in [Page(lastID) -> {0, 1}]
        BY <2>2, <3>2, Numbers
      <4> QED
        BY <2>2, <4>1
    <3> QED
      BY <1>5, <3>1, <3>2 DEF FetchStocksBatch
  <2>4. newLastID' \in Products \cup {0}
    BY <1>5, <2>2 DEF FetchStocksBatch, TypeOK
  <2>5. pc' \in {"upsert", "fetch", "reset", "log"} /\ status' \in {"success", "error"}
    BY <1>5 DEF FetchStocksBatch, EndOfPage, GiveUp, TypeOK
  <2> QED
    BY <2>1, <2>3, <2>4, <2>5 DEF TypeOK
<1>6. ASSUME UpsertBatch PROVE TypeOK'
  <2>1. UNCHANGED <<now, ozon, startTime, items, newLastID, live, ended, shown>>
    BY <1>6 DEF UpsertBatch
  <2>2. amount' \in [Products -> {0, 1}] /\ synced' \in [Products -> Int]
    <3>1. CASE StorePage
      BY <3>1, PageType, Numbers DEF StorePage, TypeOK
    <3> QED
      BY <1>6, <3>1 DEF UpsertBatch, TypeOK
  <2>3. lastID' \in Products \cup {0}
    BY <1>6 DEF UpsertBatch, TypeOK
  <2>4. pc' \in {"fetch", "reset", "log"} /\ status' \in {"success", "error"}
    BY <1>6 DEF UpsertBatch, EndOfPage, GiveUp, TypeOK
  <2>5. lost' \subseteq Products
    BY <1>6, PageType DEF UpsertBatch, TypeOK
  <2> QED
    BY <2>1, <2>2, <2>3, <2>4, <2>5 DEF TypeOK
<1>7. ASSUME ResetStale PROVE TypeOK'
  <2>1. amount' \in [Products -> {0, 1}] /\ synced' \in [Products -> Int]
    <3>1. CASE ZeroStale
      BY <3>1, Numbers DEF ZeroStale, TypeOK
    <3> QED
      BY <1>7, <3>1 DEF ResetStale, TypeOK
  <2> QED
    BY <1>7, <2>1 DEF ResetStale, GiveUp, TypeOK
<1>8. ASSUME InsertOzonLog \/ UNCHANGED vars PROVE TypeOK'
  BY <1>8 DEF InsertOzonLog, vars, TypeOK
<1> QED
  BY <1>1, <1>2, <1>3, <1>4, <1>5, <1>6, <1>7, <1>8 DEF Next, Step

\* Every variable keeps its type; in particular no amount is anything but the 0
\* or 1 of boolToInt.
THEOREM TypeCorrect == Spec => []TypeOK
  BY InitTypeOK, NextTypeOK, PTL DEF Spec

-----------------------------------------------------------------------------
(* What a run writes was shown to it.  ShownInv is inductive when the       *)
(* database's clock is not behind and runs are a second and the skew apart. *)

ClockAssumption == DbBehind <= DbAhead /\ Gap >= Sec + Skew

\* The row says what Ozon showed, and this run said so.
Fresh(p) == amount[p] \in shown[p] /\ synced[p] >= startTime + Skew

\* The row is of an earlier run; only its age tells it from a fresh one.
Old(p) == amount[p] = 0 \/ synced[p] <= ended + Skew

\* The walk has nothing more to do about the row: ResetStale will see to it.
Done(p) == Fresh(p) \/ (Old(p) /\ (0 \in shown[p] \/ p \in lost))

Clocks ==
  /\ ended \in Int
  /\ \A p \in Products : synced[p] <= now + Skew
  /\ Running => startTime - ended >= Gap

\* Ozon has shown at least what it shows now.
SaidIsShown == Running => \A p \in Products : Said(p) \in shown[p]

Accounted == \A p \in Products : Old(p) \/ (Running /\ Fresh(p))

PassedDone == \A p \in Products :
  (pc \in {"fetch", "upsert"} /\ p <= lastID) \/ pc = "reset" => Done(p)

\* The page says what was shown, and what it skips was not on the list.
PageSaid == pc = "upsert" =>
  /\ \A p \in DOMAIN items : items[p] \in shown[p]
  /\ \A p \in Products : lastID < p /\ (newLastID = 0 \/ p <= newLastID) =>
       p \in DOMAIN items \/ 0 \in shown[p]

ShownInv ==
  TypeOK /\ Clocks /\ SaidIsShown /\ Accounted /\ PassedDone /\ PageSaid /\ StockWasShown

LEMMA InitShownInv == Init => ShownInv
<1> SUFFICES ASSUME Init PROVE ShownInv
  OBVIOUS
<1>1. TypeOK
  BY InitTypeOK
<1>2. Clocks
  BY Numbers DEF Init, Clocks, Running
<1>3. SaidIsShown /\ Accounted /\ PassedDone /\ PageSaid /\ StockWasShown
  BY DEF Init, SaidIsShown, Accounted, Old, PassedDone, PageSaid, StockWasShown, Running
<1> QED
  BY <1>1, <1>2, <1>3 DEF ShownInv

LEMMA TickShownInv == ShownInv /\ Tick => ShownInv'
<1> SUFFICES ASSUME ShownInv, Tick PROVE ShownInv'
  OBVIOUS
<1>1. UNCHANGED <<ozon, table, pc, locals, live, ended, faults, history>> /\ now' = now + 1
  BY DEF Tick
<1>2. TypeOK'
  BY NextTypeOK DEF ShownInv, Next
<1>3. Clocks'
  BY <1>1, Numbers DEF ShownInv, Clocks, TypeOK, Running
<1>4. SaidIsShown' /\ Accounted' /\ PassedDone' /\ PageSaid' /\ StockWasShown'
  BY <1>1 DEF ShownInv, SaidIsShown, Said, Amount, Accounted, Fresh, Old, Done, PassedDone,
              PageSaid, StockWasShown, Justified, Running
<1> QED
  BY <1>2, <1>3, <1>4 DEF ShownInv

\* Ozon's changes only add to what was shown.
LEMMA ChangeShownInv == ShownInv /\ Change => ShownInv'
<1> SUFFICES ASSUME ShownInv, Change PROVE ShownInv'
  OBVIOUS
<1>1. UNCHANGED <<now, table, pc, locals, live, ended, faults, lost>>
  BY DEF Change
<1>2. shown' = IF Running THEN [p \in Products |-> shown[p] \cup {Said(p)'}] ELSE shown
  BY DEF Change
<1>3. TypeOK'
  BY NextTypeOK DEF ShownInv, Next
<1>4. \A p \in Products : shown[p] \subseteq shown'[p]
  BY <1>2
<1>5. Running => \A p \in Products : Said(p)' \in shown'[p]
  BY <1>2
<1>6. Clocks' /\ SaidIsShown'
  BY <1>1, <1>5 DEF ShownInv, Clocks, SaidIsShown, Running
<1>7. Accounted'
  BY <1>1, <1>4 DEF ShownInv, Accounted, Fresh, Old, Running
<1>8. PassedDone'
  BY <1>1, <1>4 DEF ShownInv, PassedDone, Done, Fresh, Old
<1>9. PageSaid'
  BY <1>1, <1>4, PageType DEF ShownInv, PageSaid, TypeOK
<1>10. StockWasShown'
  BY <1>1, <1>4 DEF ShownInv, StockWasShown, Justified
<1> QED
  BY <1>3, <1>6, <1>7, <1>8, <1>9, <1>10 DEF ShownInv

\* A run ends: what it leaves is of an earlier run now.
LEMMA EndShownInv ==
  ASSUME ShownInv, Running, TypeOK', UNCHANGED <<now, ozon, table, locals, history>>,
         pc' = "idle", ended' = now
  PROVE  ShownInv'
<1>1. \A p \in Products : Old(p)'
  BY DEF ShownInv, Clocks, Old
<1>2. Clocks'
  BY DEF ShownInv, Clocks, TypeOK, Running
<1>3. SaidIsShown' /\ Accounted' /\ PassedDone' /\ PageSaid' /\ StockWasShown'
  BY <1>1 DEF SaidIsShown, Accounted, PassedDone, PageSaid, StockWasShown, Running
<1> QED
  BY <1>2, <1>3 DEF ShownInv

LEMMA CancelShownInv ==
  ASSUME ShownInv, TypeOK', UNCHANGED <<now, ozon, table, pc, locals, ended, history>>
  PROVE  ShownInv'
  BY DEF ShownInv, Clocks, SaidIsShown, Said, Amount, Accounted, Fresh, Old, Done, PassedDone,
         PageSaid, StockWasShown, Justified, Running

LEMMA StartShownInv == ShownInv /\ Start => ShownInv'
<1> SUFFICES ASSUME ShownInv, Start PROVE ShownInv'
  OBVIOUS
<1>1. UNCHANGED <<now, ozon, table, ended>> /\ pc' = "fetch" /\ startTime' = now /\ lastID' = 0
  BY DEF Start
<1>2. ~Running /\ now - ended >= Gap /\ \A p \in Products : Said(p) \in shown'[p]
  BY DEF Start
<1>3. TypeOK'
  BY NextTypeOK DEF ShownInv, Next
<1>4. Clocks' /\ SaidIsShown'
  BY <1>1, <1>2 DEF ShownInv, Clocks, SaidIsShown, Said, Amount
<1>5. Accounted'
  BY <1>1, <1>2 DEF ShownInv, Accounted, Old
<1>6. PassedDone'
  BY <1>1, Numbers DEF PassedDone
<1> QED
  BY <1>1, <1>3, <1>4, <1>5, <1>6 DEF ShownInv, PageSaid, StockWasShown

\* The page is what Ozon shows at this moment; a product the walk passes
\* without finding it shows as 0.
LEMMA FetchShownInv == ShownInv /\ FetchStocksBatch => ShownInv'
<1> SUFFICES ASSUME ShownInv, FetchStocksBatch PROVE ShownInv'
  OBVIOUS
<1>1. UNCHANGED <<now, ozon, table, startTime, lastID, ended, history>> /\ pc = "fetch"
  BY DEF FetchStocksBatch
<1>2. TypeOK'
  BY NextTypeOK DEF ShownInv, Next, Step
<1>3. Running /\ (Clocks /\ SaidIsShown /\ Accounted)'
  <2>1. Running /\ Running'
    BY <1>1 DEF Running, FetchStocksBatch, EndOfPage, GiveUp
  <2> QED
    BY <1>1, <2>1 DEF ShownInv, Clocks, SaidIsShown, Said, Amount, Accounted, Fresh, Old
<1>4. ASSUME GiveUp PROVE ShownInv'
  BY <1>2, <1>3, <1>4 DEF GiveUp, ShownInv, PassedDone, PageSaid, StockWasShown
<1>5. ASSUME items' = [p \in Page(lastID) |-> Amount(p)],
             \/ Page(lastID) = Behind(lastID) /\ newLastID' = 0
             \/ /\ newLastID' \in Page(lastID)
                /\ \A p \in Page(lastID) : p <= newLastID',
             IF Page(lastID) = {} THEN EndOfPage ELSE pc' = "upsert"
      PROVE  ShownInv'
  <2>1. Page(lastID) \subseteq listed /\ Page(lastID) \subseteq Products
    BY DEF Page, Behind, ShownInv, TypeOK
  <2>2. \A p \in Page(lastID) : items'[p] = Said(p)
    BY <1>5, <2>1 DEF Said
  <2>3. ASSUME NEW p \in Products, lastID < p, newLastID' = 0 \/ p <= newLastID',
               p \notin Page(lastID)
        PROVE  0 \in shown[p]
    <3>1. p \notin Behind(lastID)
      <4>1. CASE Page(lastID) = Behind(lastID)
        BY <2>3, <4>1
      <4>2. CASE newLastID' \in Page(lastID)
        <5>1. newLastID' # 0
          BY <2>1, <4>2, Numbers
        <5> QED
          BY <2>3, <4>2, <5>1, PageIsPrefix DEF ShownInv, TypeOK
      <4> QED
        BY <1>5, <4>1, <4>2
    <3>2. Said(p) = 0
      BY <2>3, <3>1 DEF Behind, Said
    <3> QED
      BY <1>3, <3>2 DEF ShownInv, SaidIsShown
  <2>4. DOMAIN items' = Page(lastID)
    BY <1>5
  <2>5. CASE pc' = "upsert"
    <3>1. PageSaid'
      BY <1>1, <1>3, <2>1, <2>2, <2>3, <2>4 DEF PageSaid, ShownInv, SaidIsShown
    <3>2. PassedDone'
      BY <1>1, <2>5 DEF ShownInv, PassedDone, Done, Fresh, Old
    <3> QED
      BY <1>2, <1>3, <2>5, <3>1, <3>2 DEF ShownInv, StockWasShown
  <2>6. CASE Page(lastID) = {}
    <3>1. newLastID' = 0 /\ pc' = "reset"
      BY <1>5, <2>6 DEF EndOfPage
    <3>2. \A p \in Products : lastID < p => 0 \in shown[p]
      BY <2>3, <2>6, <3>1
    <3>3. \A p \in Products : Done(p)
      <4> SUFFICES ASSUME NEW p \in Products PROVE Done(p)
        OBVIOUS
      <4>1. p <= lastID \/ lastID < p
        BY IdType, Numbers DEF ShownInv
      <4> QED
        BY <1>1, <1>3, <3>2, <4>1 DEF ShownInv, PassedDone, Accounted, Done, Fresh, Old
    <3>4. PassedDone'
      BY <1>1, <3>3 DEF PassedDone, Done, Fresh, Old
    <3> QED
      BY <1>2, <1>3, <3>1, <3>4 DEF ShownInv, PageSaid, StockWasShown
  <2> QED
    BY <1>5, <2>5, <2>6
<1> QED
  BY <1>4, <1>5 DEF FetchStocksBatch

\* A row that is stored is fresh, and stays known for that.
LEMMA UpsertShownInv == ShownInv /\ UpsertBatch /\ ClockAssumption => ShownInv'
<1> SUFFICES ASSUME ShownInv, UpsertBatch, ClockAssumption PROVE ShownInv'
  OBVIOUS
<1>1. UNCHANGED <<now, ozon, startTime, items, newLastID, ended, shown>> /\ pc = "upsert"
  BY DEF UpsertBatch
<1>2. TypeOK'
  BY NextTypeOK DEF ShownInv, Next, Step
<1>3. \A p \in DOMAIN items : p \in Products /\ items[p] \in shown[p]
  BY <1>1, PageType DEF ShownInv, TypeOK, PageSaid
<1>4. \A p \in Products : (StorePage /\ p \in DOMAIN items) => Fresh(p)'
  BY <1>1, <1>3, Numbers DEF StorePage, Fresh, ShownInv, TypeOK
<1>5. \A p \in Products : (UNCHANGED table \/ (StorePage /\ p \notin DOMAIN items)) =>
        amount'[p] = amount[p] /\ synced'[p] = synced[p]
  BY DEF StorePage
<1>6. StorePage \/ UNCHANGED table
  BY DEF UpsertBatch
<1>7. Running /\ Running'
  BY <1>1 DEF UpsertBatch, EndOfPage, GiveUp, Running
<1>8. Accounted'
  BY <1>1, <1>4, <1>5, <1>6, <1>7 DEF ShownInv, Accounted, Fresh, Old
<1>9. Clocks'
  <2>1. \A p \in Products : synced'[p] <= now + Skew
    BY <1>6, Numbers DEF ShownInv, Clocks, StorePage, TypeOK
  <2> QED
    BY <1>1, <1>7, <2>1 DEF ShownInv, Clocks
<1>10. SaidIsShown'
  BY <1>1, <1>7 DEF ShownInv, SaidIsShown, Said, Amount
<1>11. ASSUME GiveUp PROVE ShownInv'
  BY <1>2, <1>8, <1>9, <1>10, <1>11
     DEF GiveUp, ShownInv, PassedDone, PageSaid, StockWasShown
<1>12. ASSUME \/ StorePage /\ lost' = lost
              \/ UNCHANGED table /\ lost' = lost \cup DOMAIN items,
              lastID' = newLastID, EndOfPage
       PROVE  ShownInv'
  <2>1. ASSUME NEW p \in Products, p <= lastID \/ newLastID = 0 \/ p <= newLastID
        PROVE  Done(p)'
    <3>1. CASE p \in DOMAIN items
      <4>1. CASE StorePage
        BY <1>4, <3>1, <4>1 DEF Done
      <4>2. CASE UNCHANGED table /\ p \in lost'
        BY <1>8, <4>2 DEF Accounted, Done
      <4> QED
        BY <1>12, <3>1, <4>1, <4>2
    <3>2. CASE p \notin DOMAIN items
      <4>1. amount'[p] = amount[p] /\ synced'[p] = synced[p] /\ (p \in lost => p \in lost')
        BY <1>5, <1>12, <3>2
      <4>2. CASE p <= lastID
        BY <1>1, <4>1, <4>2 DEF ShownInv, PassedDone, Done, Fresh, Old
      <4>3. CASE lastID < p
        <5>1. 0 \in shown[p] /\ (Old(p) \/ Fresh(p))
          <6>1. ~(p <= lastID)
            BY <4>3, IdType, Numbers DEF ShownInv
          <6> QED
            BY <1>1, <2>1, <3>2, <4>3, <6>1 DEF ShownInv, PageSaid, Accounted
        <5> QED
          BY <1>1, <4>1, <5>1 DEF Done, Fresh, Old
      <4> QED
        BY <4>2, <4>3, IdType, Numbers DEF ShownInv
    <3> QED
      BY <3>1, <3>2
  <2>2. PassedDone'
    BY <1>1, <1>12, <2>1 DEF PassedDone, EndOfPage
  <2>3. pc' \in {"fetch", "reset"}
    BY <1>12 DEF EndOfPage
  <2> QED
    BY <1>2, <1>8, <1>9, <1>10, <2>2, <2>3 DEF ShownInv, PageSaid, StockWasShown
<1> QED
  BY <1>11, <1>12 DEF UpsertBatch

\* After the walk a row is reset only if it says what was not shown any more.
LEMMA ResetWrites ==
  ASSUME ShownInv, pc = "reset", ZeroStale, shown' = shown, ClockAssumption, NEW p \in Products
  PROVE  amount'[p] \in shown[p] \/ (p \in lost /\ amount'[p] = 0)
<1>1. Done(p)
  BY DEF ShownInv, PassedDone
<1>2. RFC3339(startTime) \in Int /\ RFC3339(startTime) <= startTime
      /\ startTime - Sec < RFC3339(startTime) /\ startTime \in Nat
  BY CutToSecond DEF ShownInv, TypeOK
<1>3. synced[p] \in Int /\ ended \in Int /\ startTime - ended >= Gap
  BY DEF ShownInv, TypeOK, Clocks, Running
<1>4. DbBehind <= DbAhead /\ Gap >= Sec + Skew /\ Skew >= 0
  BY NumberAssumption DEF ClockAssumption, Skew
<1>5. CASE Fresh(p)
  <2>1. p \notin Stale
    BY <1>2, <1>3, <1>4, <1>5, Numbers DEF Stale, Fresh
  <2> QED
    BY <1>5, <2>1 DEF ZeroStale, Fresh
<1>6. CASE Old(p) /\ (0 \in shown[p] \/ p \in lost)
  <2>1. p \in Stale => amount'[p] = 0
    BY DEF ZeroStale
  <2>2. p \notin Stale => amount'[p] = amount[p] /\ amount[p] = 0
    <3>1. p \notin Stale => synced[p] >= RFC3339(startTime)
      BY <1>2, <1>3 DEF Stale
    <3>2. p \notin Stale => ~(synced[p] <= ended + Skew)
      BY <1>2, <1>3, <1>4, <3>1, Numbers
    <3> QED
      BY <1>6, <3>2 DEF Old, ZeroStale
  <2> QED
    BY <1>6, <2>1, <2>2
<1> QED
  BY <1>1, <1>5, <1>6 DEF Done

LEMMA ResetShownInv == ShownInv /\ ResetStale /\ ClockAssumption => ShownInv'
<1> SUFFICES ASSUME ShownInv, ResetStale, ClockAssumption PROVE ShownInv'
  OBVIOUS
<1>1. UNCHANGED <<now, ozon, startTime, lastID, items, newLastID, ended, history>>
      /\ pc = "reset" /\ pc' = "log"
  BY DEF ResetStale, GiveUp
<1>2. TypeOK'
  BY NextTypeOK DEF ShownInv, Next, Step
<1>3. ZeroStale \/ UNCHANGED table
  BY DEF ResetStale
<1>4. SaidIsShown' /\ PassedDone' /\ PageSaid'
  BY <1>1 DEF ShownInv, SaidIsShown, Said, Amount, PassedDone, PageSaid, Running
<1>5. Clocks'
  <2>1. \A p \in Products : synced'[p] <= now + Skew
    BY <1>3, Numbers DEF ShownInv, Clocks, ZeroStale, TypeOK
  <2> QED
    BY <1>1, <2>1 DEF ShownInv, Clocks, Running
<1>6. Accounted'
  BY <1>1, <1>3 DEF ShownInv, Accounted, ZeroStale, Fresh, Old, Running, Stale
<1>7. StockWasShown'
  <2>1. ZeroStale => \A p \in Products : Justified(p, amount[p])'
    BY <1>1, ResetWrites DEF Justified
  <2>2. status' = "success" => ZeroStale
    BY DEF ResetStale, GiveUp
  <2> QED
    BY <2>1, <2>2 DEF StockWasShown
<1> QED
  BY <1>2, <1>4, <1>5, <1>6, <1>7 DEF ShownInv

LEMMA NextShownInv == ShownInv /\ [Next]_vars /\ ClockAssumption => ShownInv'
<1> SUFFICES ASSUME ShownInv, [Next]_vars, ClockAssumption PROVE ShownInv'
  OBVIOUS
<1>1. TypeOK'
  BY NextTypeOK DEF ShownInv
<1>2. ASSUME Crash \/ InsertOzonLog PROVE ShownInv'
  BY <1>1, <1>2, EndShownInv DEF Crash, InsertOzonLog, Running
<1>3. ASSUME Cancel \/ UNCHANGED vars PROVE ShownInv'
  BY <1>1, <1>3, CancelShownInv DEF Cancel, vars
<1> QED
  BY <1>2, <1>3, TickShownInv, ChangeShownInv, StartShownInv, FetchShownInv, UpsertShownInv,
     ResetShownInv DEF Next, Step

\* With a database whose clock is not behind the program's and runs at least a
\* second and the skew apart, a successful run leaves every row with something
\* Ozon showed of the product during the run; a row whose page was lost at
\* commit, which the run does not notice, says that or 0.
THEOREM StockAlwaysShown ==
  ASSUME ClockAssumption
  PROVE  Spec => []StockWasShown
<1>1. ShownInv /\ [Next]_vars => ShownInv'
  BY NextShownInv
<1>2. ShownInv => StockWasShown
  BY DEF ShownInv
<1> QED
  BY <1>1, <1>2, InitShownInv, PTL DEF Spec

\* Under the same clocks a row only ever changes to something Ozon showed of its
\* product during the run: none is zeroed because its page was not read, the
\* call that stores it failed or its timestamp looked old.  Only rows of pages
\* lost at commit may be.
THEOREM WritesAlwaysShown ==
  ASSUME ClockAssumption
  PROVE  Spec => WritesWereShown
<1>1. ShownInv /\ [Next]_vars => ShownInv'
  BY NextShownInv
<1>2. ShownInv /\ [Next]_vars =>
        [\A p \in Products : amount'[p] # amount[p] => Justified(p, amount'[p])]_vars
  <2> SUFFICES ASSUME ShownInv, Next, NEW p \in Products, amount'[p] # amount[p]
               PROVE  Justified(p, amount'[p])
    OBVIOUS
  <2>1. UpsertBatch \/ ResetStale
    BY DEF Next, Step, Tick, Change, Crash, Cancel, Start, FetchStocksBatch, InsertOzonLog
  <2>2. CASE UpsertBatch
    <3>1. StorePage /\ pc = "upsert"
      BY <2>2 DEF UpsertBatch
    <3> QED
      BY <3>1 DEF StorePage, ShownInv, PageSaid, Justified
  <2>3. CASE ResetStale
    <3>1. ZeroStale /\ pc = "reset" /\ shown' = shown
      BY <2>3 DEF ResetStale
    <3> QED
      BY <3>1, ResetWrites DEF Justified
  <2> QED
    BY <2>1, <2>2, <2>3
<1> QED
  BY <1>1, <1>2, InitShownInv, PTL DEF Spec, WritesWereShown
=============================================================================
