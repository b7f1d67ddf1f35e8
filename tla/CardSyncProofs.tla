--------------------------- MODULE CardSyncProofs ---------------------------
(***************************************************************************)
(* Proofs about CardSync for every set of cards, every page size, every    *)
(* number of edits and faults.                                             *)
(***************************************************************************)
EXTENDS CardSync, FiniteSetTheorems, TLAPS

USE DEF upstream, db, locals

-----------------------------------------------------------------------------
(* Facts about pages. *)

\* What is on a page can be counted.
LEMMA OnPageCount ==
  ASSUME NEW j \in Jobs
  PROVE  Cardinality(OnPage(j)) \in Nat
<1>1. IsFiniteSet(OnPage(j))
  BY FS_Subset, CardsAssumption DEF OnPage
<1> QED
  BY <1>1, FS_CardinalityType

\* The batch limit is positive whatever was configured (NewCardsService).
LEMMA LimitPositive == Limit \in Nat \ {0}
  BY PageAssumption DEF Limit

\* Where no commit is lost, an acknowledged batch is stored.
LEMMA AckedCommits == ~LoseCommit => ~Strikes("commit")
  BY DEF LoseCommit, Strikes

-----------------------------------------------------------------------------
(* Type correctness. *)

LEMMA InitTypeOK == Init => TypeOK
  BY RowAssumption DEF Init, TypeOK, EmptyPage, Statuses, Labels

\* A cursor waiting to be saved is never nil; this is what keeps the saved
\* one a position.
SavesPosition == \A j \in Jobs : pc[j] = "save" => next[j] # 0

LEMMA NextTypeOK == TypeOK /\ SavesPosition /\ [Next]_vars => TypeOK'
<1> SUFFICES ASSUME TypeOK, SavesPosition, [Next]_vars PROVE TypeOK'
  OBVIOUS
<1> USE DEF TypeOK, Statuses, Labels
<1>1. ASSUME NEW c \in Cards, Publish(c) PROVE TypeOK'
  BY <1>1 DEF Publish
<1>2. ASSUME NEW c \in Cards, Withdraw(c) PROVE TypeOK'
  BY <1>2 DEF Withdraw
<1>3. ASSUME NEW j \in Jobs, Start(j) PROVE TypeOK'
  BY <1>3 DEF Start, Goto, EmptyPage
<1>4. ASSUME NEW j \in Jobs, GetCursor(j) PROVE TypeOK'
  <2>1. UNCHANGED <<upstream, db, live, page, next, total, seen, written>>
    BY <1>4 DEF GetCursor
  <2>2. cur' \in [Jobs -> Nat]
    <3>1. stored # NullRow => (IF stored = NoRow THEN 0 ELSE stored) \in Nat
      OBVIOUS
    <3> QED
      BY <1>4, <3>1 DEF GetCursor
  <2>3. pc' \in [Jobs -> Labels]
    <3>1. \E l \in {"fetch", "log"} : pc' = [pc EXCEPT ![j] = l]
      BY <1>4, Zenon DEF GetCursor, Goto, GiveUp
    <3> QED
      BY <3>1
  <2>4. status' \in [Jobs -> Statuses]
    BY <1>4 DEF GetCursor, GiveUp
  <2>5. faults' \in Nat
    <3>1. faults' = faults \/ faults' = faults + 1
      BY <1>4, Zenon DEF GetCursor, Breaks, Strikes
    <3> QED
      BY <3>1
  <2> QED
    BY <2>1, <2>2, <2>3, <2>4, <2>5
<1>5. ASSUME NEW j \in Jobs, FetchCardsBatch(j) PROVE TypeOK'
  <2>1. UNCHANGED <<upstream, db, live, cur, total, written>>
    BY <1>5 DEF FetchCardsBatch
  <2>2. page' \in [Jobs -> [Cards -> Nat]]
    BY <1>5 DEF FetchCardsBatch
  <2>3. next' \in [Jobs -> Nat]
    BY <1>5 DEF FetchCardsBatch, Pages, Pending
  <2>4. seen' \in [Jobs -> Nat]
    BY <1>5 DEF FetchCardsBatch
  <2>5. pc' \in [Jobs -> Labels]
    <3>1. \E l \in {"upsert", "log"} : pc' = [pc EXCEPT ![j] = l]
      BY <1>5, Zenon DEF FetchCardsBatch, Goto, GiveUp
    <3> QED
      BY <3>1
  <2>7. faults' \in Nat
    BY <1>5 DEF FetchCardsBatch, Breaks, Strikes
  <2>6. status' \in [Jobs -> Statuses]
    BY <1>5 DEF FetchCardsBatch, GiveUp
  <2> QED
    BY <2>1, <2>2, <2>3, <2>4, <2>5, <2>6, <2>7
<1>6. ASSUME NEW j \in Jobs, UpsertBatch(j) PROVE TypeOK'
  <2>1. UNCHANGED <<upstream, stored, logged, live, page, next, seen>>
    BY <1>6 DEF UpsertBatch
  <2>2. rows' \in [Cards -> Nat]
    BY <1>6 DEF UpsertBatch, StorePage
  <2>3. total' \in [Jobs -> Nat] /\ written' \in [Jobs -> Nat]
    <3>1. Cardinality(OnPage(j)) \in Nat
      BY OnPageCount
    <3>2. \E n \in {0, Cardinality(OnPage(j))} : total' = [total EXCEPT ![j] = @ + n]
      BY <1>6, <3>1 DEF UpsertBatch
    <3>3. \E n \in {0, Cardinality(OnPage(j))} : written' = [written EXCEPT ![j] = @ + n]
      BY <1>6, <3>1 DEF UpsertBatch, StorePage
    <3> QED
      BY <3>1, <3>2, <3>3
  <2>4. cur' \in [Jobs -> Nat]
    BY <1>6 DEF UpsertBatch, NextPage
  <2>5. pc' \in [Jobs -> Labels]
    <3>1. \E l \in {"save", "fetch", "log"} : pc' = [pc EXCEPT ![j] = l]
      BY <1>6, Zenon DEF UpsertBatch, NextPage, Goto, GiveUp
    <3> QED
      BY <3>1
  <2>6. status' \in [Jobs -> Statuses] /\ faults' \in Nat
    BY <1>6, SMTT(30) DEF UpsertBatch, GiveUp, Breaks, Strikes
  <2> QED
    BY <2>1, <2>2, <2>3, <2>4, <2>5, <2>6
<1>7. ASSUME NEW j \in Jobs, SaveCursor(j) PROVE TypeOK'
  <2>1. UNCHANGED <<upstream, rows, logged, live, page, next, total, seen, written>>
    BY <1>7 DEF SaveCursor
  <2>2. stored' \in {NoRow, NullRow} \cup (Nat \ {0})
    BY <1>7 DEF SaveCursor, SavesPosition
  <2>3. cur' \in [Jobs -> Nat]
    BY <1>7 DEF SaveCursor, NextPage
  <2>4. pc' \in [Jobs -> Labels]
    BY <1>7 DEF SaveCursor, NextPage, Goto, GiveUp
  <2>5. status' \in [Jobs -> Statuses] /\ faults' \in Nat
    BY <1>7 DEF SaveCursor, GiveUp, Breaks, Strikes
  <2> QED
    BY <2>1, <2>2, <2>3, <2>4, <2>5
<1>8. ASSUME NEW j \in Jobs, InsertLog(j) PROVE TypeOK'
  <2>1. UNCHANGED <<upstream, rows, stored, live, locals>>
    BY <1>8 DEF InsertLog
  <2>2. logged' \in [Jobs -> Statuses \cup {"none"}]
    BY <1>8 DEF InsertLog
  <2>3. pc' \in [Jobs -> Labels]
    BY <1>8 DEF InsertLog, Goto
  <2>4. faults' \in Nat
    BY <1>8 DEF InsertLog, Breaks, Strikes
  <2> QED
    BY <2>1, <2>2, <2>3, <2>4
<1>9. ASSUME NEW j \in Jobs, Crash(j) PROVE TypeOK'
  BY <1>9 DEF Crash, Goto, Strikes
<1>10. ASSUME NEW j \in Jobs, Cancel(j) PROVE TypeOK'
  BY <1>10 DEF Cancel, Strikes
<1>11. ASSUME UNCHANGED vars PROVE TypeOK'
  BY <1>11 DEF vars
<1> QED
  BY <1>1, <1>2, <1>3, <1>4, <1>5, <1>6, <1>7, <1>8, <1>9, <1>10, <1>11 DEF Next, Step

LEMMA NextSavesPosition == TypeOK /\ SavesPosition /\ [Next]_vars => SavesPosition'
<1> SUFFICES ASSUME TypeOK, SavesPosition, [Next]_vars PROVE SavesPosition'
  OBVIOUS
<1> USE DEF TypeOK, SavesPosition
<1>1. ASSUME NEW c \in Cards, Publish(c) \/ Withdraw(c) PROVE SavesPosition'
  BY <1>1 DEF Publish, Withdraw
<1>2. ASSUME NEW j \in Jobs, Start(j) \/ Crash(j) \/ Cancel(j) \/ InsertLog(j)
      PROVE SavesPosition'
  BY <1>2 DEF Start, Crash, Cancel, InsertLog, Goto
<1>3. ASSUME NEW j \in Jobs, GetCursor(j) PROVE SavesPosition'
  BY <1>3 DEF GetCursor, Goto, GiveUp
<1>4. ASSUME NEW j \in Jobs, FetchCardsBatch(j) PROVE SavesPosition'
  BY <1>4 DEF FetchCardsBatch, Goto, GiveUp
<1>5. ASSUME NEW j \in Jobs, UpsertBatch(j) PROVE SavesPosition'
  BY <1>5 DEF UpsertBatch, NextPage, Goto, GiveUp
<1>6. ASSUME NEW j \in Jobs, SaveCursor(j) PROVE SavesPosition'
  BY <1>6 DEF SaveCursor, NextPage, Goto, GiveUp
<1>7. ASSUME UNCHANGED vars PROVE SavesPosition'
  BY <1>7 DEF vars
<1> QED
  BY <1>1, <1>2, <1>3, <1>4, <1>5, <1>6, <1>7 DEF Next, Step

\* Every variable keeps its type, whatever runs side by side and whatever
\* fails; in particular SaveCursor never writes a nil cursor.
THEOREM TypeCorrect == Spec => []TypeOK
<1>1. Init => SavesPosition
  BY DEF Init, SavesPosition
<1>2. TypeOK /\ SavesPosition /\ [Next]_vars => (TypeOK /\ SavesPosition)'
  BY NextTypeOK, NextSavesPosition
<1> QED
  BY <1>1, <1>2, InitTypeOK, PTL DEF Spec

-----------------------------------------------------------------------------
(* The saved cursor never vouches for a version that is not stored.         *)
(* CoverInv is the inductive invariant of one process at a time (~Overlap)  *)
(* whose acked batches commit (~LoseCommit).                                *)

OneRunner == \A j, k \in Jobs : Running(j) /\ Running(k) => j = k

\* Nobody holds a position the catalog has not given out.
Bounded ==
  /\ \A c \in Cards : catalog[c] <= clock
  /\ Mark <= clock
  /\ \A j \in Jobs : next[j] <= clock /\ seen[j] <= clock

Walking(j) == pc[j] \in {"fetch", "upsert", "save"}
Holding(j) == pc[j] \in {"upsert", "save"}

\* A walk stands where the saved cursor is.
Resumes == \A j \in Jobs : Walking(j) => cur[j] = Mark

\* A page holds versions past the cursor, and none the catalog has not reached.
PageAhead ==
  \A j \in Jobs : Holding(j) =>
    \A c \in OnPage(j) : /\ page[j][c] \in cur[j] + 1..clock
                         /\ catalog[c] # 0 => page[j][c] <= catalog[c]

\* Every current version in 1..m that the cursor has not passed is on the page.
OnPageUpTo(j, m) ==
  \A c \in Cards : catalog[c] \in 1..m => catalog[c] <= cur[j] \/ page[j][c] = catalog[c]

PageComplete == \A j \in Jobs : Holding(j) => OnPageUpTo(j, next[j])

\* When the cursor is about to be saved its page is in wb_cards.
PageStored == \A j \in Jobs : pc[j] = "save" => \A c \in OnPage(j) : rows[c] = page[j][c]

CoverInv ==
  OneRunner /\ Bounded /\ Resumes /\ PageAhead /\ PageComplete /\ PageStored /\ CursorCovers

LEMMA MarkType == TypeOK => Mark \in Nat
  BY DEF TypeOK, Mark

LEMMA MarkSame == UNCHANGED stored => Mark' = Mark
  BY DEF Mark

LEMMA InitCoverInv == Init => CoverInv
<1> SUFFICES ASSUME Init PROVE CoverInv
  OBVIOUS
<1>1. Mark = 0
  BY RowAssumption DEF Init, Mark
<1>2. \A j \in Jobs : pc[j] = "idle"
  BY DEF Init
<1>3. Bounded
  BY <1>1 DEF Init, Bounded
<1>4. CursorCovers
  BY <1>1 DEF Init, CursorCovers, StoredUpTo
<1> QED
  BY <1>2, <1>3, <1>4
  DEF CoverInv, OneRunner, Running, Resumes, Walking, PageAhead, Holding, PageComplete, PageStored

\* What the seller does leaves every promise standing: a new position is past
\* every position in use.
LEMMA SellerCoverInv ==
  ASSUME TypeOK, CoverInv, NEW c \in Cards, Publish(c) \/ Withdraw(c)
  PROVE  CoverInv'
<1> USE DEF TypeOK, CoverInv
<1>1. UNCHANGED <<db, pc, locals, live>>
  BY DEF Publish, Withdraw
<1>2. Mark \in Nat /\ Mark' = Mark
  BY <1>1, MarkType, MarkSame
<1>3. /\ clock' \in Nat /\ clock' >= clock
      /\ \A d \in Cards : \/ catalog'[d] = catalog[d]
                          \/ d = c /\ catalog'[d] = 0
                          \/ d = c /\ catalog'[d] = clock' /\ clock' = clock + 1
  BY DEF Publish, Withdraw
<1>4. OneRunner' /\ Resumes' /\ PageStored'
  BY <1>1, <1>2 DEF OneRunner, Running, Resumes, Walking, PageStored, OnPage
<1>5. Bounded'
  BY <1>1, <1>2, <1>3 DEF Bounded
<1>6. PageAhead'
  BY <1>1, <1>3 DEF PageAhead, Holding, OnPage
<1>7. PageComplete'
  BY <1>1, <1>3, SMTT(30) DEF PageComplete, Holding, OnPageUpTo, Bounded
<1>8. CursorCovers'
  BY <1>1, <1>2, <1>3, SMTT(30) DEF CursorCovers, StoredUpTo, Bounded
<1> QED
  BY <1>4, <1>5, <1>6, <1>7, <1>8

\* A step of process j that touches neither the catalog nor the tables and
\* puts j where no page is held.
LEMMA QuietCoverInv ==
  ASSUME TypeOK, CoverInv, NEW j \in Jobs,
         UNCHANGED <<upstream, rows, stored>>,
         NEW l \in {"idle", "cursor", "log"}, pc' = [pc EXCEPT ![j] = l],
         l # "idle" => \A k \in Jobs \ {j} : ~Running(k),
         \A k \in Jobs \ {j} : /\ cur'[k] = cur[k] /\ next'[k] = next[k]
                               /\ page'[k] = page[k] /\ seen'[k] = seen[k],
         next'[j] <= clock, seen'[j] <= clock
  PROVE  CoverInv'
<1> USE DEF TypeOK, CoverInv
<1>1. Mark' = Mark
  BY MarkSame
<1>2. OneRunner'
  BY DEF OneRunner, Running
<1>3. Bounded'
  BY <1>1 DEF Bounded
<1>4. \A k \in Jobs : pc'[k] \notin {"idle", "cursor", "log"} => k # j /\ pc'[k] = pc[k]
  OBVIOUS
<1>5. Resumes' /\ PageStored' /\ PageAhead' /\ PageComplete'
  BY <1>1, <1>4 DEF Resumes, Walking, PageStored, PageAhead, Holding, PageComplete, OnPageUpTo, OnPage
<1>6. CursorCovers'
  BY <1>1 DEF CursorCovers, StoredUpTo
<1> QED
  BY <1>2, <1>3, <1>5, <1>6

\* With one runner, the others hold nothing that a step of j could disturb.
LEMMA OthersIdle ==
  ASSUME OneRunner, NEW j \in Jobs, Running(j)
  PROVE  \A k \in Jobs \ {j} : ~Running(k)
  BY DEF OneRunner

LEMMA StartCoverInv ==
  ASSUME TypeOK, CoverInv, ~Overlap, NEW j \in Jobs, Start(j)
  PROVE  CoverInv'
<1>1. /\ UNCHANGED <<upstream, rows, stored>>
      /\ pc' = [pc EXCEPT ![j] = "cursor"]
      /\ \A k \in Jobs \ {j} : ~Running(k)
  BY DEF Start, Goto
<1>2. \A k \in Jobs \ {j} : /\ cur'[k] = cur[k] /\ next'[k] = next[k]
                            /\ page'[k] = page[k] /\ seen'[k] = seen[k]
  BY DEF Start, TypeOK
<1>3. next'[j] <= clock /\ seen'[j] <= clock
  BY DEF Start, TypeOK
<1> QED
  BY <1>1, <1>2, <1>3, QuietCoverInv

LEMMA EndCoverInv ==
  ASSUME TypeOK, CoverInv, NEW j \in Jobs, Crash(j) \/ InsertLog(j)
  PROVE  CoverInv'
<1>1. /\ UNCHANGED <<upstream, rows, stored, locals>>
      /\ pc' = [pc EXCEPT ![j] = "idle"]
  BY DEF Crash, InsertLog, Goto
<1>2. next'[j] <= clock /\ seen'[j] <= clock
  BY <1>1 DEF CoverInv, Bounded
<1> QED
  BY <1>1, <1>2, QuietCoverInv

LEMMA CancelCoverInv ==
  ASSUME CoverInv, NEW j \in Jobs, Cancel(j) \/ UNCHANGED vars
  PROVE  CoverInv'
<1>1. UNCHANGED <<upstream, db, pc, locals>>
  BY DEF Cancel, vars
<1> QED
  BY <1>1
  DEF CoverInv, OneRunner, Running, Bounded, Resumes, Walking, PageAhead, Holding,
      PageComplete, OnPageUpTo, OnPage, PageStored, CursorCovers, StoredUpTo, Mark

\* The walk starts from the saved cursor, or from the beginning without one.
LEMMA GetCursorCoverInv ==
  ASSUME TypeOK, CoverInv, NEW j \in Jobs, GetCursor(j)
  PROVE  CoverInv'
<1> USE DEF TypeOK, CoverInv
<1>1. UNCHANGED <<upstream, db, live, page, next, total, seen, written>>
  BY DEF GetCursor
<1>2. pc[j] = "cursor" /\ \A k \in Jobs \ {j} : ~Running(k)
  BY OthersIdle DEF GetCursor, Running
<1>3. CASE GiveUp(j) /\ UNCHANGED cur
  BY <1>1, <1>2, <1>3, QuietCoverInv DEF GiveUp, Bounded
<1>4. CASE /\ pc' = [pc EXCEPT ![j] = "fetch"] /\ stored # NullRow
           /\ cur' = [cur EXCEPT ![j] = IF stored = NoRow THEN 0 ELSE stored]
  <2>1. Mark' = Mark /\ cur' = [cur EXCEPT ![j] = Mark]
    BY <1>1, <1>4, RowAssumption, MarkSame DEF Mark
  <2>2. \A k \in Jobs \ {j} : pc'[k] = "idle"
    BY <1>2, <1>4 DEF Running
  <2>3. pc'[j] = "fetch" /\ cur'[j] = Mark
    BY <2>1, <1>4
  <2>4. OneRunner' /\ Resumes' /\ PageAhead' /\ PageComplete' /\ PageStored'
    BY <2>1, <2>2, <2>3
    DEF OneRunner, Running, Resumes, Walking, PageAhead, Holding, PageComplete, PageStored
  <2>5. Bounded' /\ CursorCovers'
    BY <1>1, <2>1 DEF Bounded, CursorCovers, StoredUpTo
  <2> QED
    BY <2>4, <2>5
<1> QED
  BY <1>3, <1>4, Zenon DEF GetCursor, Goto

\* The page is cut from the catalog as it is: what it does not hold is either
\* behind the cursor or past the page's own cursor.
LEMMA FetchCoverInv ==
  ASSUME TypeOK, CoverInv, NEW j \in Jobs, FetchCardsBatch(j)
  PROVE  CoverInv'
<1> USE DEF TypeOK, CoverInv
<1>1. UNCHANGED <<upstream, db, live, cur, total, written>>
  BY DEF FetchCardsBatch
<1>2. pc[j] = "fetch" /\ \A k \in Jobs \ {j} : ~Running(k)
  BY OthersIdle DEF FetchCardsBatch, Running
<1>3. CASE GiveUp(j) /\ UNCHANGED <<page, next, seen>>
  BY <1>1, <1>2, <1>3, QuietCoverInv DEF GiveUp, Bounded
<1>4. CASE \E S \in Pages(cur[j]) :
             /\ page' = [page EXCEPT ![j] = [c \in Cards |-> IF c \in S THEN catalog[c] ELSE 0]]
             /\ next' = [next EXCEPT ![j] = 0]
             /\ seen' = [seen EXCEPT ![j] = clock]
             /\ pc' = [pc EXCEPT ![j] = "log"]
  <2>1. PICK p \in [Cards -> Nat] : page' = [page EXCEPT ![j] = p]
    BY <1>4
  <2>2. \A k \in Jobs \ {j} : /\ cur'[k] = cur[k] /\ next'[k] = next[k]
                              /\ page'[k] = page[k] /\ seen'[k] = seen[k]
    BY <1>1, <1>4, <2>1
  <2>3. next'[j] <= clock /\ seen'[j] <= clock
    BY <1>4
  <2>4. pc' = [pc EXCEPT ![j] = "log"]
    BY <1>4
  <2> QED
    BY <1>1, <1>2, <2>2, <2>3, <2>4, QuietCoverInv
<1>5. ASSUME NEW S \in Pages(cur[j]),
             page' = [page EXCEPT ![j] = [c \in Cards |-> IF c \in S THEN catalog[c] ELSE 0]],
             seen' = [seen EXCEPT ![j] = clock],
             pc' = [pc EXCEPT ![j] = "upsert"],
             NEW m \in Nat, next' = [next EXCEPT ![j] = m],
             m = 0 \/ \E c \in S : m = catalog[c]
      PROVE  CoverInv'
  <2>1. Mark \in Nat /\ Mark' = Mark /\ cur[j] = Mark
    BY <1>1, <1>2, MarkType, MarkSame DEF Resumes, Walking
  <2>2. \A k \in Jobs \ {j} : pc'[k] = "idle"
    BY <1>2, <1>5 DEF Running
  <2>3. /\ pc'[j] = "upsert" /\ next'[j] = m /\ seen'[j] = clock
        /\ \A c \in Cards : page'[j][c] = IF c \in S THEN catalog[c] ELSE 0
    BY <1>5
  <2>4. /\ S \in SUBSET Cards /\ \A c \in S : catalog[c] > cur[j]
        /\ \A c \in S, d \in Cards : catalog[d] > cur[j] /\ catalog[d] <= catalog[c] => d \in S
    BY DEF Pages, Pending
  <2>5. m <= clock
    BY <1>5, <2>4 DEF Bounded
  <2>6. OneRunner' /\ PageStored'
    BY <2>2, <2>3 DEF OneRunner, Running, PageStored
  <2>7. Resumes'
    BY <1>1, <2>1, <2>2 DEF Resumes, Walking
  <2>8. Bounded'
    BY <1>1, <1>5, <2>1, <2>5 DEF Bounded
  <2>9. PageAhead'
    <3> SUFFICES ASSUME NEW c \in Cards, page'[j][c] # 0
                 PROVE  /\ page'[j][c] \in cur'[j] + 1..clock'
                        /\ catalog'[c] # 0 => page'[j][c] <= catalog'[c]
      BY <2>2 DEF PageAhead, Holding, OnPage
    <3>1. c \in S /\ page'[j][c] = catalog[c] /\ catalog[c] > cur[j] /\ catalog[c] <= clock
      BY <2>3, <2>4 DEF Bounded
    <3> QED
      BY <1>1, <3>1
  <2>10. PageComplete'
    <3> SUFFICES ASSUME NEW c \in Cards, catalog[c] \in 1..m, ~(catalog[c] <= cur[j])
                 PROVE  page'[j][c] = catalog[c]
      BY <1>1, <2>2, <2>3 DEF PageComplete, Holding, OnPageUpTo
    <3>1. PICK d \in S : m = catalog[d]
      BY <1>5
    <3>2. c \in S
      BY <2>4, <3>1
    <3> QED
      BY <2>3, <3>2
  <2>11. CursorCovers'
    BY <1>1, <2>1 DEF CursorCovers, StoredUpTo
  <2> QED
    BY <2>6, <2>7, <2>8, <2>9, <2>10, <2>11
<1>6. \/ GiveUp(j) /\ UNCHANGED <<page, next, seen>>
      \/ /\ seen' = [seen EXCEPT ![j] = clock]
         /\ \E S \in Pages(cur[j]) :
              /\ page' = [page EXCEPT ![j] = [c \in Cards |-> IF c \in S THEN catalog[c] ELSE 0]]
              /\ \/ next' = [next EXCEPT ![j] = 0] /\ pc' = [pc EXCEPT ![j] = "log"]
                 \/ /\ pc' = [pc EXCEPT ![j] = "upsert"]
                    /\ \/ \E c \in S : next' = [next EXCEPT ![j] = catalog[c]]
                       \/ next' = [next EXCEPT ![j] = 0]
  BY Zenon DEF FetchCardsBatch, Goto
<1>7. \A S \in Pages(cur[j]) : \A c \in S : catalog[c] \in Nat
  BY DEF Pages, Pending
<1>8. ASSUME NEW S \in Pages(cur[j]),
             page' = [page EXCEPT ![j] = [c \in Cards |-> IF c \in S THEN catalog[c] ELSE 0]],
             seen' = [seen EXCEPT ![j] = clock],
             pc' = [pc EXCEPT ![j] = "upsert"],
             \/ \E c \in S : next' = [next EXCEPT ![j] = catalog[c]]
             \/ next' = [next EXCEPT ![j] = 0]
      PROVE  CoverInv'
  <2>1. PICK m \in Nat : /\ next' = [next EXCEPT ![j] = m]
                         /\ m = 0 \/ \E c \in S : m = catalog[c]
    BY <1>7, <1>8
  <2> QED
    BY <1>5, <1>8, <2>1
<1> QED
  <2>1. CASE GiveUp(j) /\ UNCHANGED <<page, next, seen>>
    BY <1>3, <2>1
  <2>2. CASE \E S \in Pages(cur[j]) :
               /\ page' = [page EXCEPT ![j] = [c \in Cards |-> IF c \in S THEN catalog[c] ELSE 0]]
               /\ seen' = [seen EXCEPT ![j] = clock]
               /\ next' = [next EXCEPT ![j] = 0] /\ pc' = [pc EXCEPT ![j] = "log"]
    BY <1>4, <2>2, Zenon
  <2>3. CASE \E S \in Pages(cur[j]) :
               /\ page' = [page EXCEPT ![j] = [c \in Cards |-> IF c \in S THEN catalog[c] ELSE 0]]
               /\ seen' = [seen EXCEPT ![j] = clock]
               /\ pc' = [pc EXCEPT ![j] = "upsert"]
               /\ \/ \E c \in S : next' = [next EXCEPT ![j] = catalog[c]]
                  \/ next' = [next EXCEPT ![j] = 0]
    BY <1>8, <2>3, Zenon
  <2> QED
    BY <1>6, <2>1, <2>2, <2>3, Zenon

\* Storing the page disturbs no row the cursor vouches for, and makes exact
\* every row the page's own cursor will vouch for.
LEMMA UpsertCoverInv ==
  ASSUME TypeOK, CoverInv, ~LoseCommit, NEW j \in Jobs, UpsertBatch(j)
  PROVE  CoverInv'
<1> USE DEF TypeOK, CoverInv
<1>1. UNCHANGED <<upstream, stored, logged, live, page, next, seen>>
  BY DEF UpsertBatch
<1>2. pc[j] = "upsert" /\ \A k \in Jobs \ {j} : ~Running(k)
  BY OthersIdle DEF UpsertBatch, Running
<1>3. Mark \in Nat /\ Mark' = Mark /\ cur[j] = Mark
  BY <1>1, <1>2, MarkType, MarkSame DEF Resumes, Walking
<1>4. /\ UNCHANGED cur
      /\ \/ pc' = [pc EXCEPT ![j] = "save"] /\ StorePage(j)
         \/ pc' = [pc EXCEPT ![j] = "log"] /\ (StorePage(j) \/ UNCHANGED rows)
  BY AckedCommits, Zenon DEF UpsertBatch, NextPage, LastPage, Goto, GiveUp
<1>5. \A c \in Cards : \/ rows'[c] = rows[c]
                       \/ c \in OnPage(j) /\ rows'[c] = page[j][c]
  BY <1>4 DEF StorePage
<1>6. \A k \in Jobs \ {j} : pc'[k] = "idle"
  BY <1>2, <1>4 DEF Running
<1>7. OneRunner'
  BY <1>6 DEF OneRunner, Running
<1>8. Bounded'
  BY <1>1, <1>3 DEF Bounded
<1>9. Resumes'
  BY <1>3, <1>4, <1>6 DEF Resumes, Walking
<1>10. PageAhead' /\ PageComplete'
  <2>1. \A k \in Jobs : Holding(k)' => k = j /\ Holding(k)
    BY <1>2, <1>6 DEF Holding
  <2>2. PageAhead'
    BY <1>1, <1>4, <2>1 DEF PageAhead, OnPage
  <2>3. PageComplete'
    BY <1>1, <1>4, <2>1 DEF PageComplete, OnPageUpTo
  <2> QED
    BY <2>2, <2>3
<1>11. PageStored'
  <2>1. pc'[j] = "save" => \A c \in OnPage(j) : rows'[c] = page[j][c]
    BY <1>4 DEF StorePage, OnPage
  <2> QED
    BY <1>1, <1>6, <2>1 DEF PageStored, OnPage
<1>12. CursorCovers'
  <2> SUFFICES ASSUME NEW c \in Cards, catalog[c] \in 1..Mark
               PROVE  rows'[c] = catalog[c]
    BY <1>1, <1>3 DEF CursorCovers, StoredUpTo
  <2>1. rows[c] = catalog[c]
    BY DEF CursorCovers, StoredUpTo
  <2>2. c \notin OnPage(j)
    BY <1>2, <1>3 DEF PageAhead, Holding
  <2> QED
    BY <1>5, <2>1, <2>2
<1> QED
  BY <1>7, <1>8, <1>9, <1>10, <1>11, <1>12

\* Saving the cursor moves the mark over versions that are all stored, whether
\* or not the answer reaches the process.
LEMMA SaveCoverInv ==
  ASSUME TypeOK, SavesPosition, CoverInv, NEW j \in Jobs, SaveCursor(j)
  PROVE  CoverInv'
<1> USE DEF TypeOK, CoverInv
<1>1. UNCHANGED <<upstream, rows, logged, live, page, next, total, seen, written>>
  BY DEF SaveCursor
<1>2. pc[j] = "save" /\ \A k \in Jobs \ {j} : ~Running(k)
  BY OthersIdle DEF SaveCursor, Running
<1>3. Mark \in Nat /\ cur[j] = Mark
  BY <1>2, MarkType DEF Resumes, Walking
<1>4. next[j] \in Nat /\ next[j] <= clock
  BY DEF Bounded
<1>5. \/ pc' = [pc EXCEPT ![j] = "log"] /\ stored' \in {stored, next[j]}
      \/ /\ pc' = [pc EXCEPT ![j] = "fetch"] /\ stored' = next[j]
         /\ cur' = [cur EXCEPT ![j] = next[j]]
  BY Zenon DEF SaveCursor, NextPage, Goto, GiveUp
<1>6. Mark' \in {Mark, next[j]}
  BY <1>4, <1>5 DEF Mark
<1>7. \A k \in Jobs \ {j} : pc'[k] = "idle"
  BY <1>2, <1>5 DEF Running
<1>8. OneRunner' /\ PageAhead' /\ PageComplete' /\ PageStored'
  <2>1. OneRunner'
    BY <1>7 DEF OneRunner, Running
  <2>2. \A k \in Jobs : pc'[k] \notin {"upsert", "save"}
    BY <1>5, <1>7
  <2> QED
    BY <2>1, <2>2 DEF PageAhead, PageComplete, Holding, PageStored
<1>9. Bounded'
  BY <1>1, <1>4, <1>6 DEF Bounded
<1>10. Resumes'
  <2>1. pc'[j] = "fetch" => cur'[j] = next[j] /\ Mark' = next[j]
    BY <1>4, <1>5 DEF Mark
  <2> QED
    BY <1>5, <1>7, <2>1 DEF Resumes, Walking
<1>11. CursorCovers'
  <2> SUFFICES ASSUME NEW c \in Cards, catalog[c] \in 1..Mark'
               PROVE  rows[c] = catalog[c]
    BY <1>1 DEF CursorCovers, StoredUpTo
  <2>1. CASE catalog[c] <= Mark
    BY <1>3, <2>1 DEF CursorCovers, StoredUpTo
  <2>2. CASE ~(catalog[c] <= Mark)
    <3>1. catalog[c] \in 1..next[j]
      BY <1>3, <1>4, <1>6, <2>2
    <3>2. page[j][c] = catalog[c] /\ c \in OnPage(j)
      BY <1>2, <1>3, <2>2, <3>1 DEF PageComplete, Holding, OnPageUpTo, OnPage
    <3> QED
      BY <1>2, <3>2 DEF PageStored
  <2> QED
    BY <2>1, <2>2
<1> QED
  BY <1>8, <1>9, <1>10, <1>11

LEMMA NextCoverInv ==
  ASSUME TypeOK, SavesPosition, CoverInv, ~Overlap, ~LoseCommit, [Next]_vars
  PROVE  CoverInv'
<1>1. ASSUME NEW j \in Jobs, Step(j) PROVE CoverInv'
  BY <1>1, GetCursorCoverInv, FetchCoverInv, UpsertCoverInv, SaveCoverInv, EndCoverInv DEF Step
<1>2. ASSUME UNCHANGED vars PROVE CoverInv'
  BY <1>2, CancelCoverInv, JobsAssumption
<1> QED
  BY <1>1, <1>2, SellerCoverInv, StartCoverInv, EndCoverInv, CancelCoverInv DEF Next

\* With one process at a time and acked batches that commit, the saved cursor
\* vouches only for versions that wb_cards holds: for every page size and
\* whatever fails, crashes or is cancelled between the two statements.
THEOREM CursorAlwaysCovers ==
  ASSUME ~Overlap, ~LoseCommit
  PROVE  Spec => []CursorCovers
<1> DEFINE Inv == TypeOK /\ SavesPosition /\ CoverInv
<1>1. Init => Inv
  BY InitTypeOK, InitCoverInv DEF Init, SavesPosition
<1>2. Inv /\ [Next]_vars => Inv'
  BY NextTypeOK, NextSavesPosition, NextCoverInv
<1>3. Inv => CursorCovers
  BY DEF CoverInv
<1> QED
  BY <1>1, <1>2, <1>3, PTL DEF Spec

-----------------------------------------------------------------------------
(* A run that ends in success has caught up.                                *)

\* A full page is never mistaken for the last one: with a page size the API
\* serves, what is short leaves nothing behind.
LEMMA ShortIsLast ==
  ASSUME Limit <= PageMax, NEW p \in Nat, NEW S \in Pages(p), Cardinality(S) < Limit
  PROVE  S = Pending(p)
  BY LimitPositive, PageAssumption DEF Pages

\* A page the API has just cut: if it looks like the last, it holds everything
\* past the cursor.
LEMMA FetchLastIsLast ==
  ASSUME TypeOK, Limit <= PageMax, NEW j \in Jobs, FetchCardsBatch(j), pc'[j] # "log"
  PROVE  LastPage(j)' => OnPageUpTo(j, seen[j])'
<1> USE DEF TypeOK
<1>1. UNCHANGED <<upstream, cur>>
  BY DEF FetchCardsBatch
<1>2. PICK S \in Pages(cur[j]) :
        /\ page' = [page EXCEPT ![j] = [c \in Cards |-> IF c \in S THEN catalog[c] ELSE 0]]
        /\ \/ \E c \in S : next' = [next EXCEPT ![j] = catalog[c]]
           \/ S = Pending(cur[j])
  BY Zenon DEF FetchCardsBatch, GiveUp, Goto, TypeOK
<1>3. S \in SUBSET Cards /\ \A c \in S : catalog[c] > cur[j] /\ catalog[c] \in Nat
  BY DEF Pages, Pending
<1>4. \A c \in Cards : page'[j][c] = IF c \in S THEN catalog[c] ELSE 0
  BY <1>2
<1>5. OnPage(j)' = S
  BY <1>3, <1>4 DEF OnPage
<1>6. ASSUME LastPage(j)' PROVE S = Pending(cur[j])
  <2>1. CASE next'[j] = 0
    <3>1. ~ \E c \in S : next' = [next EXCEPT ![j] = catalog[c]]
      BY <1>3, <2>1
    <3> QED
      BY <1>2, <3>1
  <2>2. CASE Cardinality(S) < Limit
    BY <2>2, ShortIsLast
  <2> QED
    BY <1>5, <1>6, <2>1, <2>2 DEF LastPage, Limit
<1>7. ASSUME S = Pending(cur[j]), NEW c \in Cards, ~(catalog[c] <= cur[j])
      PROVE  page'[j][c] = catalog[c]
  BY <1>4, <1>7 DEF Pending
<1> QED
  BY <1>1, <1>6, <1>7 DEF OnPageUpTo

\* A last page leaves nothing of what the API had when it answered.
LastIsLast == \A j \in Jobs : Holding(j) /\ LastPage(j) => OnPageUpTo(j, seen[j])

CaughtUpInv == LastIsLast /\ SuccessMeansCaughtUp

LEMMA InitCaughtUpInv == Init => CaughtUpInv
  BY DEF Init, CaughtUpInv, LastIsLast, Holding, SuccessMeansCaughtUp

\* A new position is past everything a run has asked for.
LEMMA SellerCaughtUpInv ==
  ASSUME TypeOK, Bounded, CaughtUpInv, NEW c \in Cards, Publish(c) \/ Withdraw(c)
  PROVE  CaughtUpInv'
<1> USE DEF TypeOK, CaughtUpInv
<1>1. UNCHANGED <<db, pc, locals, live>>
  BY DEF Publish, Withdraw
<1>2. \A d \in Cards : \/ catalog'[d] = catalog[d]
                       \/ d = c /\ catalog'[d] = 0
                       \/ d = c /\ catalog'[d] = clock + 1
  BY DEF Publish, Withdraw
<1>3. \A j \in Jobs : seen[j] <= clock
  BY DEF Bounded
<1>4. LastIsLast'
  <2>1. \A j \in Jobs : (Holding(j)' <=> Holding(j)) /\ (LastPage(j)' <=> LastPage(j))
    BY <1>1 DEF Holding, LastPage, OnPage
  <2>2. \A j \in Jobs : OnPageUpTo(j, seen[j]) => OnPageUpTo(j, seen[j])'
    BY <1>1, <1>2, <1>3 DEF OnPageUpTo
  <2> QED
    BY <2>1, <2>2 DEF LastIsLast
<1>5. SuccessMeansCaughtUp'
  BY <1>1, <1>2, <1>3 DEF SuccessMeansCaughtUp, StoredUpTo
<1> QED
  BY <1>4, <1>5

\* A step of process j that changes no row, and after which j neither holds a
\* page nor ends in success.
LEMMA QuietCaughtUpInv ==
  ASSUME TypeOK, CaughtUpInv, NEW j \in Jobs, UNCHANGED <<catalog, rows>>,
         \A k \in Jobs \ {j} :
            /\ pc'[k] = pc[k] /\ status'[k] = status[k] /\ cur'[k] = cur[k]
            /\ next'[k] = next[k] /\ page'[k] = page[k] /\ seen'[k] = seen[k],
         pc'[j] \notin {"upsert", "save"},
         pc'[j] = "log" => status'[j] = "error"
  PROVE  CaughtUpInv'
<1> USE DEF TypeOK, CaughtUpInv
<1>1. LastIsLast'
  <2>1. ~Holding(j)'
    BY DEF Holding
  <2>2. \A k \in Jobs \ {j} : (Holding(k)' <=> Holding(k)) /\ (LastPage(k)' <=> LastPage(k))
    <3>1. TAKE k \in Jobs \ {j}
    <3>2. OnPage(k)' = OnPage(k)
      BY DEF OnPage
    <3>3. next'[k] = next[k] /\ pc'[k] = pc[k]
      OBVIOUS
    <3> QED
      BY <3>2, <3>3, Zenon DEF LastPage, Holding
  <2>3. \A k \in Jobs \ {j} : OnPageUpTo(k, seen[k]) => OnPageUpTo(k, seen[k])'
    BY DEF OnPageUpTo
  <2> QED
    BY <2>1, <2>2, <2>3 DEF LastIsLast
<1>2. SuccessMeansCaughtUp'
  BY DEF SuccessMeansCaughtUp, StoredUpTo
<1> QED
  BY <1>1, <1>2

LEMMA CallFreeCaughtUpInv ==
  ASSUME TypeOK, CaughtUpInv, NEW j \in Jobs,
         Start(j) \/ Crash(j) \/ GetCursor(j) \/ InsertLog(j)
  PROVE  CaughtUpInv'
<1> USE DEF TypeOK
<1>1. UNCHANGED <<catalog, rows>>
  BY DEF Start, Crash, GetCursor, InsertLog
<1>2. \A k \in Jobs \ {j} :
         /\ cur'[k] = cur[k] /\ next'[k] = next[k] /\ page'[k] = page[k] /\ seen'[k] = seen[k]
  BY DEF Start, Crash, GetCursor, InsertLog
<1>3. /\ \A k \in Jobs \ {j} : pc'[k] = pc[k] /\ status'[k] = status[k]
      /\ pc'[j] \notin {"upsert", "save"}
      /\ pc'[j] = "log" => status'[j] = "error"
  BY DEF Start, Crash, GetCursor, InsertLog, Goto, GiveUp
<1> QED
  BY <1>1, <1>2, <1>3, QuietCaughtUpInv

LEMMA CancelCaughtUpInv ==
  ASSUME CaughtUpInv, NEW j \in Jobs, Cancel(j) \/ UNCHANGED vars
  PROVE  CaughtUpInv'
<1>1. UNCHANGED <<upstream, db, pc, locals>>
  BY DEF Cancel, vars
<1> QED
  BY <1>1 DEF CaughtUpInv, LastIsLast, Holding, LastPage, OnPage, OnPageUpTo,
              SuccessMeansCaughtUp, StoredUpTo

LEMMA FetchCaughtUpInv ==
  ASSUME TypeOK, CoverInv, CaughtUpInv, Limit <= PageMax, NEW j \in Jobs, FetchCardsBatch(j)
  PROVE  CaughtUpInv'
<1> USE DEF TypeOK, CaughtUpInv
<1>1. UNCHANGED <<upstream, db, live, cur, total, written>>
  BY DEF FetchCardsBatch
<1>2. pc[j] = "fetch" /\ cur[j] = Mark /\ \A k \in Jobs \ {j} : ~Running(k)
  BY OthersIdle DEF FetchCardsBatch, Running, CoverInv, Resumes, Walking
<1>3. \A k \in Jobs \ {j} : pc'[k] = "idle"
  BY <1>2 DEF FetchCardsBatch, Goto, GiveUp, Running
<1>4. LastIsLast'
  <2>1. \A k \in Jobs : Holding(k)' => k = j /\ pc'[j] # "log"
    BY <1>3 DEF Holding
  <2> QED
    BY <2>1, FetchLastIsLast DEF LastIsLast
<1>5. SuccessMeansCaughtUp'
  <2> SUFFICES ASSUME pc'[j] = "log", status'[j] = "success", NEW c \in Cards,
                      catalog[c] \in 1..seen'[j]
               PROVE  rows[c] = catalog[c]
    BY <1>1, <1>3 DEF SuccessMeansCaughtUp, StoredUpTo
  <2>1. {} \in Pages(cur[j])
    BY DEF FetchCardsBatch, Goto, GiveUp
  <2>2. Pending(cur[j]) = {}
    BY <2>1, FS_EmptySet, LimitPositive, ShortIsLast
  <2>3. catalog[c] \in 1..Mark
    BY <1>2, <2>2, MarkType DEF Pending
  <2> QED
    BY <2>3 DEF CoverInv, CursorCovers, StoredUpTo
<1> QED
  BY <1>4, <1>5

\* Storing a page without a cursor ends the walk, and what the page holds is
\* all that was missing.
LEMMA UpsertCaughtUpInv ==
  ASSUME TypeOK, CoverInv, CaughtUpInv, ~LoseCommit, NEW j \in Jobs, UpsertBatch(j)
  PROVE  CaughtUpInv'
<1> USE DEF TypeOK, CaughtUpInv
<1>1. UNCHANGED <<upstream, stored, logged, live, page, next, seen>>
  BY DEF UpsertBatch
<1>2. pc[j] = "upsert" /\ cur[j] = Mark /\ \A k \in Jobs \ {j} : ~Running(k)
  BY OthersIdle DEF UpsertBatch, Running, CoverInv, Resumes, Walking
<1>3. /\ UNCHANGED cur
      /\ \E l \in {"save", "log"} : pc' = [pc EXCEPT ![j] = l]
      /\ pc' = [pc EXCEPT ![j] = "log"] => (LastPage(j) /\ StorePage(j)) \/ status'[j] = "error"
  <2>1. \/ /\ StorePage(j)
           /\ \/ next[j] = 0 /\ NextPage(j)
              \/ Goto(j, "save") /\ UNCHANGED cur
        \/ GiveUp(j) /\ UNCHANGED cur
    BY AckedCommits, Zenon DEF UpsertBatch
  <2>2. GiveUp(j) => status'[j] = "error" /\ pc' = [pc EXCEPT ![j] = "log"]
    BY DEF GiveUp
  <2>3. next[j] = 0 => LastPage(j)
    BY DEF LastPage
  <2> QED
    BY <2>1, <2>2, <2>3 DEF NextPage, Goto
<1>4. \A k \in Jobs \ {j} : pc'[k] = "idle"
  BY <1>2, <1>3 DEF Running
<1>5. LastIsLast'
  <2>1. \A k \in Jobs : Holding(k)' => k = j /\ Holding(k)
    BY <1>2, <1>4 DEF Holding
  <2>2. LastPage(j)' <=> LastPage(j)
    BY <1>1 DEF LastPage, OnPage
  <2>3. OnPageUpTo(j, seen[j]) => OnPageUpTo(j, seen[j])'
    BY <1>1, <1>3 DEF OnPageUpTo
  <2> QED
    BY <2>1, <2>2, <2>3 DEF LastIsLast
<1>6. SuccessMeansCaughtUp'
  <2> SUFFICES ASSUME pc'[j] = "log", status'[j] = "success", NEW c \in Cards,
                      catalog[c] \in 1..seen[j]
               PROVE  rows'[c] = catalog[c]
    BY <1>1, <1>4 DEF SuccessMeansCaughtUp, StoredUpTo
  <2>1. LastPage(j) /\ StorePage(j)
    BY <1>3
  <2>2. catalog[c] <= Mark \/ page[j][c] = catalog[c]
    BY <1>2, <2>1 DEF LastIsLast, Holding, OnPageUpTo
  <2>3. CASE page[j][c] = catalog[c]
    BY <2>1, <2>3 DEF StorePage, OnPage
  <2>4. CASE catalog[c] <= Mark
    <3>1. rows[c] = catalog[c]
      BY <2>4, MarkType DEF CoverInv, CursorCovers, StoredUpTo
    <3>2. c \notin OnPage(j)
      <4>1. \A d \in OnPage(j) : catalog[d] # 0 => cur[j] < catalog[d]
        BY <1>2 DEF CoverInv, PageAhead, Holding, OnPage
      <4> QED
        BY <1>2, <2>4, <4>1, MarkType
    <3> QED
      BY <2>1, <3>1, <3>2 DEF StorePage
  <2> QED
    BY <2>2, <2>3, <2>4
<1> QED
  BY <1>5, <1>6

\* Saving the cursor of a last page ends the walk; the page is in the table.
LEMMA SaveCaughtUpInv ==
  ASSUME TypeOK, CoverInv, CaughtUpInv, NEW j \in Jobs, SaveCursor(j)
  PROVE  CaughtUpInv'
<1> USE DEF TypeOK, CaughtUpInv
<1>1. UNCHANGED <<upstream, rows, logged, live, page, next, total, seen, written>>
  BY DEF SaveCursor
<1>2. pc[j] = "save" /\ cur[j] = Mark /\ \A k \in Jobs \ {j} : ~Running(k)
  BY OthersIdle DEF SaveCursor, Running, CoverInv, Resumes, Walking
<1>3. /\ \E l \in {"fetch", "log"} : pc' = [pc EXCEPT ![j] = l]
      /\ pc' = [pc EXCEPT ![j] = "log"] => LastPage(j) \/ status'[j] = "error"
  <2>1. NextPage(j) \/ GiveUp(j)
    BY Zenon DEF SaveCursor
  <2>2. GiveUp(j) => status'[j] = "error" /\ pc' = [pc EXCEPT ![j] = "log"]
    BY DEF GiveUp
  <2> QED
    BY <2>1, <2>2 DEF NextPage, Goto
<1>4. \A k \in Jobs \ {j} : pc'[k] = "idle"
  BY <1>2, <1>3 DEF Running
<1>5. LastIsLast'
  BY <1>3, <1>4 DEF LastIsLast, Holding
<1>6. SuccessMeansCaughtUp'
  <2> SUFFICES ASSUME pc'[j] = "log", status'[j] = "success", NEW c \in Cards,
                      catalog[c] \in 1..seen[j]
               PROVE  rows[c] = catalog[c]
    BY <1>1, <1>4 DEF SuccessMeansCaughtUp, StoredUpTo
  <2>1. catalog[c] <= Mark \/ page[j][c] = catalog[c]
    BY <1>2, <1>3 DEF LastIsLast, Holding, OnPageUpTo
  <2>2. CASE page[j][c] = catalog[c]
    BY <1>2, <2>2 DEF CoverInv, PageStored, OnPage
  <2>3. CASE catalog[c] <= Mark
    BY <2>3, MarkType DEF CoverInv, CursorCovers, StoredUpTo
  <2> QED
    BY <2>1, <2>2, <2>3
<1> QED
  BY <1>5, <1>6

LEMMA NextCaughtUpInv ==
  ASSUME TypeOK, CoverInv, CaughtUpInv, ~LoseCommit, Limit <= PageMax, [Next]_vars
  PROVE  CaughtUpInv'
<1>1. ASSUME NEW j \in Jobs, Step(j) PROVE CaughtUpInv'
  BY <1>1, CallFreeCaughtUpInv, FetchCaughtUpInv, UpsertCaughtUpInv, SaveCaughtUpInv DEF Step
<1>2. ASSUME NEW c \in Cards, Publish(c) \/ Withdraw(c) PROVE CaughtUpInv'
  BY <1>2, SellerCaughtUpInv DEF CoverInv
<1>3. ASSUME UNCHANGED vars PROVE CaughtUpInv'
  BY <1>3, CancelCaughtUpInv, JobsAssumption
<1> QED
  BY <1>1, <1>2, <1>3, CallFreeCaughtUpInv, CancelCaughtUpInv DEF Next

\* If moreover the API serves pages of the size asked for, a run that ends in
\* success has stored every version there was when it asked for its last page:
\* no missing cursor, short page or failed call ends a walk early with success.
THEOREM SuccessIsCaughtUp ==
  ASSUME ~Overlap, ~LoseCommit, Limit <= PageMax
  PROVE  Spec => []SuccessMeansCaughtUp
<1> DEFINE Inv == TypeOK /\ SavesPosition /\ CoverInv /\ CaughtUpInv
<1>1. Init => Inv
  BY InitTypeOK, InitCoverInv, InitCaughtUpInv DEF Init, SavesPosition
<1>2. Inv /\ [Next]_vars => Inv'
  BY NextTypeOK, NextSavesPosition, NextCoverInv, NextCaughtUpInv
<1>3. Inv => SuccessMeansCaughtUp
  BY DEF CaughtUpInv
<1> QED
  BY <1>1, <1>2, <1>3, PTL DEF Spec

-----------------------------------------------------------------------------
(* CardSync implements CatalogMirror.                                       *)

\* No row is ahead of the catalog, or of the page that will replace it, and a
\* page's cursor lies past the saved one: this is why nothing goes back.
RowsBehind ==
  /\ \A c \in Cards : rows[c] <= clock /\ (catalog[c] # 0 => rows[c] <= catalog[c])
  /\ \A j \in Jobs : Holding(j) => \A c \in OnPage(j) : rows[c] <= page[j][c]

NextAhead == \A j \in Jobs : Holding(j) /\ next[j] # 0 => next[j] >= cur[j]

ForwardInv == RowsBehind /\ NextAhead

LEMMA InitForwardInv == Init => ForwardInv
  BY DEF Init, ForwardInv, RowsBehind, NextAhead, Holding

LEMMA SellerForwardInv ==
  ASSUME TypeOK, ForwardInv, NEW c \in Cards, Publish(c) \/ Withdraw(c)
  PROVE  ForwardInv'
<1> USE DEF TypeOK, ForwardInv
<1>1. UNCHANGED <<db, pc, locals, live>>
  BY DEF Publish, Withdraw
<1>2. /\ clock' \in Nat /\ clock' >= clock
      /\ \A d \in Cards : \/ catalog'[d] = catalog[d]
                          \/ catalog'[d] = 0
                          \/ catalog'[d] = clock + 1
  BY DEF Publish, Withdraw
<1>3. RowsBehind'
  BY <1>1, <1>2 DEF RowsBehind, Holding, OnPage
<1>4. NextAhead'
  BY <1>1 DEF NextAhead, Holding
<1> QED
  BY <1>3, <1>4

\* A step of process j after which it holds no page, and which changes no row.
LEMMA QuietForwardInv ==
  ASSUME TypeOK, ForwardInv, NEW j \in Jobs, UNCHANGED <<upstream, rows>>,
         \A k \in Jobs \ {j} :
            pc'[k] = pc[k] /\ cur'[k] = cur[k] /\ next'[k] = next[k] /\ page'[k] = page[k],
         pc'[j] \notin {"upsert", "save"}
  PROVE  ForwardInv'
<1> USE DEF TypeOK, ForwardInv
<1>1. ~Holding(j)' /\ \A k \in Jobs \ {j} : Holding(k)' <=> Holding(k)
  BY DEF Holding
<1>2. RowsBehind'
  BY <1>1 DEF RowsBehind, OnPage
<1>3. NextAhead'
  BY <1>1 DEF NextAhead
<1> QED
  BY <1>2, <1>3

LEMMA CallFreeForwardInv ==
  ASSUME TypeOK, ForwardInv, NEW j \in Jobs,
         Start(j) \/ Crash(j) \/ GetCursor(j) \/ SaveCursor(j) \/ InsertLog(j)
  PROVE  ForwardInv'
<1> USE DEF TypeOK
<1>1. UNCHANGED <<upstream, rows>>
  BY DEF Start, Crash, GetCursor, SaveCursor, InsertLog
<1>2. \A k \in Jobs \ {j} : cur'[k] = cur[k] /\ next'[k] = next[k] /\ page'[k] = page[k]
  BY DEF Start, Crash, GetCursor, SaveCursor, NextPage, InsertLog
<1>3. /\ \A k \in Jobs \ {j} : pc'[k] = pc[k]
      /\ pc'[j] \notin {"upsert", "save"}
  BY DEF Start, Crash, GetCursor, SaveCursor, NextPage, InsertLog, Goto, GiveUp
<1> QED
  BY <1>1, <1>2, <1>3, QuietForwardInv

LEMMA CancelForwardInv ==
  ASSUME ForwardInv, NEW j \in Jobs, Cancel(j) \/ UNCHANGED vars
  PROVE  ForwardInv'
<1>1. UNCHANGED <<upstream, db, pc, locals>>
  BY DEF Cancel, vars
<1> QED
  BY <1>1 DEF ForwardInv, RowsBehind, NextAhead, Holding, OnPage

\* A page is cut from the catalog, which no row is ahead of.
LEMMA FetchForwardInv ==
  ASSUME TypeOK, CoverInv, ForwardInv, NEW j \in Jobs, FetchCardsBatch(j)
  PROVE  ForwardInv'
<1> USE DEF TypeOK, ForwardInv
<1>1. UNCHANGED <<upstream, rows, cur>>
  BY DEF FetchCardsBatch
<1>2. \A k \in Jobs \ {j} : ~Holding(k)'
  <2>1. pc[j] = "fetch"
    BY DEF FetchCardsBatch
  <2>2. \A k \in Jobs \ {j} : ~Running(k)
    BY <2>1, OthersIdle DEF Running, CoverInv
  <2> QED
    BY <2>2 DEF FetchCardsBatch, Goto, GiveUp, Running, Holding
<1>3. CASE GiveUp(j)
  <2>1. ~Holding(j)'
    BY <1>3 DEF GiveUp, Holding
  <2> QED
    BY <1>1, <1>2, <2>1 DEF RowsBehind, NextAhead
<1>4. CASE ~GiveUp(j)
  <2>1. PICK S \in Pages(cur[j]) :
          /\ page' = [page EXCEPT ![j] = [c \in Cards |-> IF c \in S THEN catalog[c] ELSE 0]]
          /\ \/ \E c \in S : next' = [next EXCEPT ![j] = catalog[c]]
             \/ next' = [next EXCEPT ![j] = 0]
    BY <1>4, Zenon DEF FetchCardsBatch
  <2>2. S \in SUBSET Cards /\ \A c \in S : catalog[c] > cur[j] /\ catalog[c] \in Nat
    BY DEF Pages, Pending
  <2>3. \A c \in Cards : page'[j][c] \in {0, catalog[c]}
    BY <2>1
  <2>4. RowsBehind'
    <3>1. \A c \in OnPage(j)' : rows[c] <= page'[j][c]
      BY <2>3 DEF RowsBehind, OnPage
    <3> QED
      BY <1>1, <1>2, <3>1 DEF RowsBehind
  <2>5. next'[j] # 0 => next'[j] >= cur[j]
    BY <2>1, <2>2
  <2>6. NextAhead'
    BY <1>1, <1>2, <2>5 DEF NextAhead
  <2> QED
    BY <2>4, <2>6
<1> QED
  BY <1>3, <1>4

LEMMA UpsertForwardInv ==
  ASSUME TypeOK, CoverInv, ForwardInv, NEW j \in Jobs, UpsertBatch(j)
  PROVE  ForwardInv'
<1> USE DEF TypeOK, ForwardInv
<1>1. UNCHANGED <<upstream, stored, logged, live, page, next, seen>>
  BY DEF UpsertBatch
<1>2. pc[j] = "upsert" /\ \A k \in Jobs \ {j} : ~Running(k)
  BY OthersIdle DEF UpsertBatch, Running, CoverInv
<1>3. /\ UNCHANGED cur
      /\ \E l \in {"save", "log"} : pc' = [pc EXCEPT ![j] = l]
      /\ StorePage(j) \/ UNCHANGED rows
  BY AckedCommits, Zenon DEF UpsertBatch, NextPage, LastPage, Goto, GiveUp
<1>4. \A k \in Jobs : Holding(k)' => k = j /\ Holding(k)
  BY <1>2, <1>3 DEF Holding, Running
<1>5. \A c \in Cards : \/ rows'[c] = rows[c]
                       \/ c \in OnPage(j) /\ rows'[c] = page[j][c]
  BY <1>3 DEF StorePage
<1>6. RowsBehind'
  <2>1. \A c \in OnPage(j) : page[j][c] <= clock /\ (catalog[c] # 0 => page[j][c] <= catalog[c])
    BY <1>2 DEF CoverInv, PageAhead, Holding, OnPage
  <2>2. \A c \in Cards : rows'[c] <= clock /\ (catalog[c] # 0 => rows'[c] <= catalog[c])
    BY <1>5, <2>1 DEF RowsBehind
  <2>3. Holding(j)' => \A c \in OnPage(j) : rows'[c] <= page[j][c]
    BY <1>4, <1>5 DEF RowsBehind, OnPage
  <2>4. OnPage(j)' = OnPage(j)
    BY <1>1 DEF OnPage
  <2> QED
    BY <1>1, <1>4, <2>2, <2>3, <2>4 DEF RowsBehind
<1>7. NextAhead'
  BY <1>1, <1>3, <1>4 DEF NextAhead
<1> QED
  BY <1>6, <1>7

LEMMA NextForwardInv ==
  ASSUME TypeOK, CoverInv, ForwardInv, [Next]_vars
  PROVE  ForwardInv'
<1>1. ASSUME NEW j \in Jobs, Step(j) PROVE ForwardInv'
  BY <1>1, CallFreeForwardInv, FetchForwardInv, UpsertForwardInv DEF Step
<1>2. ASSUME UNCHANGED vars PROVE ForwardInv'
  BY <1>2, CancelForwardInv, JobsAssumption
<1> QED
  BY <1>1, <1>2, SellerForwardInv, CallFreeForwardInv, CancelForwardInv DEF Next

LEMMA InitMirror == Init => Mirror!Init
  BY RowAssumption DEF Init, Mirror!Init, Mark

\* What the seller does is what the mirror's seller does.
LEMMA SellerMirror ==
  ASSUME NEW c \in Cards, Publish(c) \/ Withdraw(c)
  PROVE  Mirror!Next
<1>1. UNCHANGED <<rows, Mark>>
  BY MarkSame DEF Publish, Withdraw
<1>2. Mirror!Publish(c) \/ Mirror!Withdraw(c)
  BY <1>1 DEF Publish, Withdraw, Mirror!Publish, Mirror!Withdraw
<1> QED
  BY <1>2 DEF Mirror!Next

\* An upsert copies versions that are not older than the rows they replace.
LEMMA UpsertMirror ==
  ASSUME TypeOK, CoverInv, CoverInv', RowsBehind, RowsBehind', NEW j \in Jobs, UpsertBatch(j)
  PROVE  Mirror!Copy
<1> USE DEF TypeOK
<1>1. UNCHANGED <<catalog, clock, stored>> /\ Holding(j)
  BY DEF UpsertBatch, Holding
<1>2. Mark' = Mark /\ Mark \in Nat
  BY <1>1, MarkSame, MarkType
<1>3. \A c \in Cards : \/ rows'[c] = rows[c]
                       \/ c \in OnPage(j) /\ rows'[c] = page[j][c]
  BY DEF UpsertBatch, StorePage
<1>4. \A c \in Cards : rows'[c] \in rows[c]..clock
  <2>1. \A c \in OnPage(j) : page[j][c] \in Nat /\ rows[c] <= page[j][c]
    <3>1. \A c \in OnPage(j) : rows[c] <= page[j][c]
      BY <1>1 DEF RowsBehind
    <3>2. \A c \in Cards : page[j][c] \in Nat
      OBVIOUS
    <3> QED
      BY <3>1, <3>2 DEF OnPage
  <2>2. \A c \in Cards : rows'[c] \in Nat /\ rows[c] <= rows'[c]
    <3>1. \A c \in Cards : rows[c] \in Nat
      OBVIOUS
    <3> HIDE DEF TypeOK
    <3> QED
      BY <1>3, <2>1, <3>1
  <2>3. \A c \in Cards : rows'[c] <= clock
    BY <1>1 DEF RowsBehind
  <2> QED
    BY <2>2, <2>3
<1>5. \A c \in Cards : catalog[c] \in 1..Mark => rows'[c] = catalog[c]
  BY <1>1, <1>2 DEF CoverInv, CursorCovers, StoredUpTo
<1> QED
  BY <1>1, <1>2, <1>4, <1>5 DEF Mirror!Copy

\* A saved cursor advances the mark, unless the row is not written.
LEMMA SaveMirror ==
  ASSUME TypeOK, SavesPosition, CoverInv, CoverInv', NextAhead, NEW j \in Jobs, SaveCursor(j)
  PROVE  Mirror!Advance \/ UNCHANGED Mirror!mvars
<1> USE DEF TypeOK
<1>1. UNCHANGED <<catalog, clock, rows>>
  BY DEF SaveCursor
<1>2. cur[j] = Mark /\ Mark \in Nat /\ next[j] # 0 /\ Holding(j)
  BY MarkType DEF SaveCursor, SavesPosition, CoverInv, Resumes, Walking, Holding
<1>3. CASE UNCHANGED stored
  BY <1>1, <1>3, MarkSame DEF Mirror!mvars
<1>4. CASE stored' = next[j]
  <2>1. Mark' = next[j]
    BY <1>4 DEF Mark
  <2>2. Mark' \in Mark..clock
    BY <1>2, <2>1 DEF NextAhead, CoverInv, Bounded
  <2>3. Mirror!ExactUpTo(Mark')
    BY <1>1 DEF CoverInv, CursorCovers, StoredUpTo, Mirror!ExactUpTo
  <2> QED
    BY <1>1, <2>2, <2>3 DEF Mirror!Advance
<1> QED
  BY <1>3, <1>4 DEF SaveCursor

\* Every step of a run is a step of the mirror or changes nothing it shows.
LEMMA NextMirror ==
  ASSUME TypeOK, SavesPosition, CoverInv, CoverInv', ForwardInv, ForwardInv', [Next]_vars
  PROVE  [Mirror!Next]_Mirror!mvars
<1>1. ASSUME UNCHANGED <<upstream, rows, stored>> PROVE UNCHANGED Mirror!mvars
  BY <1>1, MarkSame DEF Mirror!mvars
<1>2. ASSUME NEW j \in Jobs, Start(j) \/ Crash(j) \/ Cancel(j) PROVE UNCHANGED Mirror!mvars
  BY <1>1, <1>2 DEF Start, Crash, Cancel
<1>3. ASSUME NEW j \in Jobs, GetCursor(j) \/ FetchCardsBatch(j) \/ InsertLog(j)
      PROVE UNCHANGED Mirror!mvars
  BY <1>1, <1>3 DEF GetCursor, FetchCardsBatch, InsertLog
<1>4. ASSUME NEW j \in Jobs, UpsertBatch(j) \/ SaveCursor(j)
      PROVE [Mirror!Next]_Mirror!mvars
  BY <1>4, UpsertMirror, SaveMirror DEF ForwardInv, Mirror!Next
<1>5. ASSUME UNCHANGED vars PROVE UNCHANGED Mirror!mvars
  BY <1>1, <1>5 DEF vars
<1> QED
  BY <1>2, <1>3, <1>4, <1>5, SellerMirror DEF Next, Step

\* With one process at a time and acked batches that commit, the tables behave
\* as the mirror does: no row goes back to an older version, the cursor never
\* goes back, and it only moves over what is stored.
THEOREM CardSyncImplementsMirror ==
  ASSUME ~Overlap, ~LoseCommit
  PROVE  Spec => ImplementsMirror
<1> DEFINE Inv == TypeOK /\ SavesPosition /\ CoverInv /\ ForwardInv
<1>1. Init => Inv
  BY InitTypeOK, InitCoverInv, InitForwardInv DEF Init, SavesPosition
<1>2. Inv /\ [Next]_vars => Inv'
  BY NextTypeOK, NextSavesPosition, NextCoverInv, NextForwardInv
<1>3. Inv /\ Inv' /\ [Next]_vars => [Mirror!Next]_Mirror!mvars
  BY NextMirror
<1> QED
  BY <1>1, <1>2, <1>3, InitMirror, PTL DEF Spec, ImplementsMirror, Mirror!Spec

-----------------------------------------------------------------------------
(* The count in the log.  Overlapping runs do not matter to it.             *)

\* A batch is counted once it is acked, when its rows are in the table; the
\* counts of a run that is over stay what they were.
Counted == \A j \in Jobs : total[j] <= written[j]

LEMMA NextCounted ==
  ASSUME TypeOK, Counted, ~LoseCommit, [Next]_vars
  PROVE  Counted'
<1> USE DEF TypeOK, Counted
<1>1. ASSUME UNCHANGED <<total, written>> PROVE Counted'
  BY <1>1
<1>2. ASSUME NEW c \in Cards, Publish(c) \/ Withdraw(c) PROVE Counted'
  BY <1>1, <1>2 DEF Publish, Withdraw
<1>3. ASSUME NEW j \in Jobs, Start(j) PROVE Counted'
  BY <1>3 DEF Start
<1>4. ASSUME NEW j \in Jobs,
             \/ GetCursor(j) \/ FetchCardsBatch(j) \/ SaveCursor(j) \/ InsertLog(j)
             \/ Crash(j) \/ Cancel(j)
      PROVE Counted'
  BY <1>1, <1>4 DEF GetCursor, FetchCardsBatch, SaveCursor, InsertLog, Crash, Cancel
<1>5. ASSUME NEW j \in Jobs, UpsertBatch(j) PROVE Counted'
  <2>1. Cardinality(OnPage(j)) \in Nat
    BY OnPageCount
  <2>2. CASE StorePage(j)
    <3>1. \E n \in {0, Cardinality(OnPage(j))} : total' = [total EXCEPT ![j] = @ + n]
      BY <1>5, <2>1 DEF UpsertBatch
    <3> QED
      BY <2>1, <2>2, <3>1 DEF StorePage
  <2>3. CASE UNCHANGED <<rows, written>> /\ UNCHANGED total
    BY <1>1, <2>3
  <2> QED
    BY <1>5, <2>2, <2>3, AckedCommits DEF UpsertBatch
<1>6. ASSUME UNCHANGED vars PROVE Counted'
  BY <1>1, <1>6 DEF vars
<1> QED
  BY <1>2, <1>3, <1>4, <1>5, <1>6 DEF Next, Step

\* Where acked batches commit, no run, however it ends and whatever runs beside
\* it, claims more records than it has put in wb_cards.
THEOREM NeverReportsMore ==
  ASSUME ~LoseCommit
  PROVE  Spec => []NeverOverReports
<1> DEFINE Inv == TypeOK /\ SavesPosition /\ Counted
<1>1. Init => Inv
  BY InitTypeOK DEF Init, SavesPosition, Counted
<1>2. Inv /\ [Next]_vars => Inv'
  BY NextTypeOK, NextSavesPosition, NextCounted
<1>3. Inv => NeverOverReports
  BY DEF Counted, NeverOverReports
<1> QED
  BY <1>1, <1>2, <1>3, PTL DEF Spec
=============================================================================
