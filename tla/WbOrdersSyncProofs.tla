-------------------------- MODULE WbOrdersSyncProofs --------------------------
(***************************************************************************)
(* Proofs about WbOrdersSync for every set of orders, page size, second    *)
(* and number of changes and faults.                                       *)
(***************************************************************************)
EXTENDS WbOrdersSync, FiniteSetTheorems, TLAPS

USE DEF wb, db, locals

-----------------------------------------------------------------------------
(* Facts about seconds and pages. *)

LEMMA Numbers ==
  /\ MaxTime \in Nat \ {0} /\ Sec \in Nat \ {0} /\ PageMax \in Nat \ {0} /\ Burst \in Nat \ {0}
  /\ \A l \in Limits : l \in Int
  BY NumberAssumption

\* Cutting a time to the second never moves it forward, nor below 0, and moves
\* it back unless it is the beginning of a second.
LEMMA CutToSecond ==
  ASSUME NEW t \in Nat
  PROVE  RFC3339(t) \in 0..t /\ (t % Sec # 0 => RFC3339(t) < t)
<1>1. t = Sec * (t \div Sec) + (t % Sec) /\ t % Sec \in 0..Sec - 1
  BY Numbers
<1>2. t \div Sec \in Nat
  BY Numbers
<1>3. Sec * (t \div Sec) = (t \div Sec) * Sec /\ (t \div Sec) * Sec \in Nat
  BY Numbers, <1>2
<1> QED
  BY Numbers, <1>1, <1>2, <1>3 DEF RFC3339

LEMMA SetCount ==
  ASSUME NEW S \in SUBSET Orders
  PROVE  IsFiniteSet(S) /\ Cardinality(S) \in Nat
  BY FS_Subset, FS_CardinalityType, OrdersAssumption

\* What the walk does after a page: it ends, or goes on from the last change on
\* the page, plus a millisecond, cut to the second.
LEMMA AfterPageGoesOn ==
  ASSUME now \in Nat, NEW f \in [Orders -> 0..now], AfterPage(f)
  PROVE  /\ pc' \in {"log", "wait"}
         /\ pc' = "log" =>
              /\ dateFrom' = dateFrom
              /\ Cardinality(OnPage(f)) < limit \/ OnPage(f) = {}
         /\ pc' = "wait" =>
              /\ dateFrom' \in 0..now + 1
              /\ \E o \in OnPage(f) : dateFrom' = RFC3339(f[o] + 1)
<1>1. CASE pc' = "log"
  BY <1>1 DEF AfterPage
<1>2. CASE pc' = "wait"
  <2>1. PICK o \in OnPage(f) : dateFrom' = RFC3339(f[o] + 1)
    BY <1>2 DEF AfterPage
  <2>2. f[o] \in 0..now
    BY DEF OnPage
  <2>3. dateFrom' \in 0..f[o] + 1
    BY <2>1, <2>2, CutToSecond
  <2> QED
    BY <1>2, <2>1, <2>2, <2>3
<1> QED
  BY <1>1, <1>2 DEF AfterPage

\* A page the API answers with, as the process keeps it.
LEMMA PageHolds ==
  ASSUME TypeOK, NEW S \in Pages,
         page' = [o \in Orders |-> IF o \in S THEN changed[o] ELSE 0]
  PROVE  /\ page' \in [Orders -> 0..now]
         /\ OnPage(page') = S /\ S \subseteq Due
         /\ \A o \in S : page'[o] = changed[o]
<1>1. S \subseteq Due /\ Due \subseteq Orders
  BY DEF Pages, Due
<1>2. page' \in [Orders -> 0..now]
  BY Numbers DEF TypeOK
<1>3. \A o \in Orders : o \in S <=> page'[o] # 0
  BY <1>1 DEF Due
<1> QED
  BY <1>1, <1>2, <1>3 DEF OnPage

-----------------------------------------------------------------------------
(* Type correctness. *)

LEMMA InitTypeOK == Init => TypeOK
  BY Numbers DEF Init, TypeOK, None

LEMMA NextTypeOK == TypeOK /\ [Next]_vars => TypeOK'
<1> SUFFICES ASSUME TypeOK, [Next]_vars PROVE TypeOK'
  OBVIOUS
<1>1. ASSUME Tick PROVE TypeOK'
  <2>1. now' = now + 1 /\ now' \in 1..MaxTime
    BY <1>1, Numbers DEF Tick, TypeOK
  <2>2. 0..now \subseteq 0..now' /\ 0..now + 1 \subseteq 0..now' + 1
    BY <2>1 DEF TypeOK
  <2>3. /\ changed' \in [Orders -> 0..now'] /\ rows' \in [Orders -> 0..now']
        /\ page' \in [Orders -> 0..now'] /\ dateFrom' \in 0..now' + 1
    BY <1>1, <2>2 DEF Tick, TypeOK
  <2> QED
    BY <1>1, <2>1, <2>3 DEF Tick, TypeOK
<1>2. ASSUME Midnight PROVE TypeOK'
  BY <1>2 DEF Midnight, TypeOK
<1>3. ASSUME NEW o \in Orders, ChangeOrder(o) PROVE TypeOK'
  BY <1>3, Numbers DEF ChangeOrder, Excuse, TypeOK
<1>4. None \in [Orders -> 0..now] /\ 0 \in 0..now + 1
  BY Numbers DEF None, TypeOK
<1>5. ASSUME Crash PROVE TypeOK'
  BY <1>4, <1>5 DEF Crash, EndRun, TypeOK
<1>6. ASSUME Cancel PROVE TypeOK'
  BY <1>6 DEF Cancel, TypeOK
<1>7. ASSUME Start PROVE TypeOK'
  BY <1>7, Numbers DEF Start, None, TypeOK
<1>8. ASSUME FetchOrders PROVE TypeOK'
  <2>1. UNCHANGED <<now, wb, db, window, live, owed>> /\ now \in Nat
    BY <1>8, Numbers DEF FetchOrders, TypeOK
  <2>2. CASE GiveUp /\ UNCHANGED <<page, dateFrom>>
    BY <2>1, <2>2 DEF GiveUp, TypeOK
  <2>3. CASE /\ \E S \in Pages : page' = [o \in Orders |-> IF o \in S THEN changed[o] ELSE 0]
             /\ \/ pc' = "upsert" /\ UNCHANGED dateFrom
                \/ AfterPage(page')
             /\ UNCHANGED status
    <3>1. page' \in [Orders -> 0..now]
      BY <2>3, PageHolds
    <3>2. pc' \in {"upsert", "log", "wait"} /\ dateFrom' \in 0..now + 1
      BY <2>1, <2>3, <3>1, AfterPageGoesOn DEF TypeOK
    <3> QED
      BY <2>1, <2>3, <3>1, <3>2 DEF TypeOK
  <2> QED
    BY <1>8, <2>2, <2>3 DEF FetchOrders
<1>9. ASSUME UpsertBatch PROVE TypeOK'
  <2>1. UNCHANGED <<now, wb, logged, window, page, live>> /\ now \in Nat
    BY <1>9, Numbers DEF UpsertBatch, TypeOK
  <2>2. rows' \in [Orders -> 0..now]
    BY <1>9 DEF UpsertBatch, StorePage, TypeOK
  <2>3. pc' \in {"log", "wait"} /\ dateFrom' \in 0..now + 1
    BY <1>9, <2>1, AfterPageGoesOn DEF UpsertBatch, GiveUp, TypeOK
  <2>4. status' \in {"success", "error"} /\ owed' \in [Orders -> 0..now]
    BY <1>9 DEF UpsertBatch, GiveUp, Excuse, TypeOK
  <2> QED
    BY <2>1, <2>2, <2>3, <2>4 DEF TypeOK
<1>10. ASSUME Wait PROVE TypeOK'
  BY <1>10 DEF Wait, TypeOK
<1>11. ASSUME InsertLog PROVE TypeOK'
  BY <1>4, <1>11 DEF InsertLog, EndRun, TypeOK
<1>12. ASSUME UNCHANGED vars PROVE TypeOK'
  BY <1>12 DEF vars, TypeOK
<1> QED
  BY <1>1, <1>2, <1>3, <1>5, <1>7, <1>8, <1>9, <1>10, <1>12, <1>6, <1>11 DEF Next, Step

\* Every variable keeps its type: rows and pages hold times that have been, and
\* the walk never asks for changes from a time more than a millisecond ahead.
THEOREM TypeCorrect == Spec => []TypeOK
  BY InitTypeOK, NextTypeOK, PTL DEF Spec

-----------------------------------------------------------------------------
(* A run logged as a success has stored its window, but for the orders of  *)
(* lost batches and those tied at the end of a second.  CompleteInv is       *)
(* inductive when API_LIMIT is not more than a page holds.                   *)

LimitAssumption == \A l \in Limits : l <= PageMax

\* The run answers for orders of its window that are not tied, as they once were.
Owes ==
  /\ \A o \in Orders : owed[o] <= changed[o]
  /\ \A o \in Tied : owed[o] = 0
  /\ Running => \A o \in Orders : owed[o] # 0 => o \in window

Caught(o) == rows[o] >= owed[o]
Complete == \A o \in Orders : Caught(o)

\* Only a run that is over has a row in the log.
Unlogged == Running => logged = "none"

\* Between two pages: what is not stored lies ahead.
RestAhead == pc \in {"fetch", "wait"} => \A o \in Orders : Caught(o) \/ changed[o] >= dateFrom

\* An order that is not on the page is stored, or lies ahead of wherever the walk
\* may go on from; the page is then not the last.
BehindPage(f) ==
  Cardinality(OnPage(f)) >= limit /\ OnPage(f) # {}
RestBehindPage(f) ==
  \A o \in Orders \ OnPage(f) :
    Caught(o) \/ (BehindPage(f) /\ \A p \in OnPage(f) : RFC3339(f[p] + 1) <= changed[o])

PageNew == pc = "upsert" => \A o \in OnPage(page) : page[o] >= owed[o]
PageRest == pc = "upsert" => RestBehindPage(page)

AtEnd == pc = "log" /\ status = "success" /\ live => Complete

CompleteInv ==
  /\ TypeOK /\ Owes /\ Unlogged
  /\ RestAhead /\ PageNew /\ PageRest /\ AtEnd /\ SuccessStoresAll

LEMMA InitCompleteInv == Init => CompleteInv
<1> SUFFICES ASSUME Init PROVE CompleteInv
  OBVIOUS
<1>1. TypeOK
  BY InitTypeOK
<1>2. Owes
  BY DEF Init, None, Owes, Tied, Running
<1> QED
  BY <1>1, <1>2 DEF Init, CompleteInv, Unlogged, Running, RestAhead, PageNew, PageRest, AtEnd,
                    SuccessStoresAll

\* A change only moves its order forward, and may excuse some.
LEMMA ChangeOrderCompleteInv ==
  ASSUME CompleteInv, NEW o \in Orders, ChangeOrder(o)
  PROVE  CompleteInv'
<1>1. UNCHANGED <<now, aged, limit, db, pc, locals, live, faults>>
  BY DEF ChangeOrder
<1>2. changed' = [changed EXCEPT ![o] = now] /\ Excuse(Tied')
  BY DEF ChangeOrder
<1>3. TypeOK' /\ TypeOK
  BY NextTypeOK DEF CompleteInv, Next
<1>4. \A p \in Orders : changed[p] \in Nat /\ changed'[p] \in Nat /\ changed[p] <= changed'[p]
  BY <1>2, <1>3, <1>1 DEF TypeOK
<1>5. \A p \in Orders : owed[p] \in Nat /\ owed'[p] \in {0, owed[p]} /\ rows[p] \in Nat
  BY <1>2, <1>3 DEF Excuse, TypeOK
<1>6. \A p \in Orders : Caught(p) => Caught(p)'
  BY <1>1, <1>5 DEF Caught
<1>7. Owes'
  <2>1. \A p \in Tied' : p \in Orders /\ owed'[p] = 0
    BY <1>2 DEF Excuse, Tied
  <2> QED
    BY <1>1, <1>4, <1>5, <2>1 DEF CompleteInv, Owes, Running
<1>8. RestAhead'
  <2> SUFFICES ASSUME pc \in {"fetch", "wait"}, NEW p \in Orders, changed[p] >= dateFrom
               PROVE  changed'[p] >= dateFrom
    BY <1>1, <1>6 DEF CompleteInv, RestAhead
  <2>1. dateFrom \in Nat
    BY <1>3 DEF TypeOK
  <2> QED
    BY <1>4, <2>1
<1>9. PageRest'
  <2> SUFFICES ASSUME pc = "upsert", NEW p \in Orders \ OnPage(page), NEW q \in OnPage(page),
                      RFC3339(page[q] + 1) <= changed[p]
               PROVE  RFC3339(page[q] + 1) <= changed'[p]
    BY <1>1, <1>6 DEF CompleteInv, PageRest, RestBehindPage, BehindPage, OnPage
  <2>1. page[q] \in Nat
    BY <1>3 DEF TypeOK, OnPage
  <2>2. RFC3339(page[q] + 1) \in Int
    BY <2>1, CutToSecond
  <2> QED
    BY <1>4, <2>2
<1>10. PageNew'
  BY <1>1, <1>3, <1>5 DEF CompleteInv, PageNew, OnPage, TypeOK
<1>11. Unlogged' /\ AtEnd' /\ SuccessStoresAll'
  BY <1>1, <1>6 DEF CompleteInv, Unlogged, Running, AtEnd, Complete, Caught, SuccessStoresAll
<1> QED
  BY <1>3, <1>7, <1>8, <1>9, <1>10, <1>11 DEF CompleteInv

\* Time, midnight, signals and steps that change nothing.
LEMMA QuietCompleteInv ==
  ASSUME CompleteInv, TypeOK', UNCHANGED <<changed, limit, db, pc, locals, owed>>,
         live' = TRUE => live = TRUE
  PROVE  CompleteInv'
<1>1. Owes'
  BY DEF CompleteInv, Owes, Tied, Running
<1>2. Unlogged' /\ RestAhead' /\ PageNew' /\ PageRest' /\ SuccessStoresAll'
  BY DEF CompleteInv, Unlogged, Running, RestAhead, PageNew, PageRest, RestBehindPage,
         BehindPage, OnPage, Caught, SuccessStoresAll
<1>3. AtEnd'
  BY DEF CompleteInv, AtEnd, Complete, Caught, TypeOK
<1> QED
  BY <1>1, <1>2, <1>3 DEF CompleteInv

\* A run that is over: what it is still asked for, if anything, is stored.
LEMMA EndRunCompleteInv ==
  ASSUME CompleteInv, TypeOK', EndRun, UNCHANGED <<changed, rows>>, owed' \in {owed, None},
         logged' = "success" => Complete /\ owed' = owed
  PROVE  CompleteInv'
<1>1. pc' = "idle" /\ Tied' = Tied
  BY DEF EndRun, Tied
<1>2. Owes'
  <2>1. \A o \in Orders : owed'[o] \in {0, owed[o]} /\ owed[o] \in Nat /\ changed[o] \in Nat
    BY DEF None, CompleteInv, TypeOK
  <2>2. Tied \subseteq Orders
    BY DEF Tied
  <2> QED
    BY <1>1, <2>1, <2>2 DEF CompleteInv, Owes, Running
<1>3. SuccessStoresAll'
  BY DEF SuccessStoresAll, Complete, Caught
<1> QED
  BY <1>1, <1>2, <1>3
     DEF CompleteInv, Unlogged, Running, RestAhead, PageNew, PageRest, AtEnd

LEMMA StartCompleteInv == CompleteInv /\ Start => CompleteInv'
<1> SUFFICES ASSUME CompleteInv, Start PROVE CompleteInv'
  OBVIOUS
<1>1. UNCHANGED <<now, changed, rows>> /\ pc' = "fetch" /\ dateFrom' = 0 /\ window' = aged
      /\ logged' = "none" /\ owed' = [o \in Orders |-> IF o \in aged \ Tied THEN changed[o] ELSE 0]
  BY DEF Start
<1>2. TypeOK' /\ TypeOK
  BY NextTypeOK DEF CompleteInv, Next
<1>3. \A o \in Orders : changed[o] \in Nat /\ rows[o] \in Nat
  BY <1>2 DEF TypeOK
<1>4. Tied' = Tied /\ Tied \subseteq Orders
  BY <1>1 DEF Tied
<1>5. Owes'
  BY <1>1, <1>3, <1>4 DEF Owes
<1>6. RestAhead'
  BY <1>1, <1>3 DEF RestAhead
<1> QED
  BY <1>1, <1>2, <1>5, <1>6
     DEF CompleteInv, Unlogged, PageNew, PageRest, AtEnd, SuccessStoresAll

\* What a page and the rows behind it leave to the rest of the walk.
LEMMA AfterPageCompletes ==
  ASSUME CompleteInv, NEW f \in [Orders -> 0..now], AfterPage(f),
         UNCHANGED changed,
         \A o \in Orders :
           Caught(o)' \/ (BehindPage(f) /\ \A p \in OnPage(f) : RFC3339(f[p] + 1) <= changed[o])
  PROVE  RestAhead' /\ (pc' = "log" => Complete')
<1>1. now \in Nat
  BY Numbers DEF CompleteInv, TypeOK
<1>2. CASE pc' = "log"
  <2>1. ~BehindPage(f)
    <3>1. Cardinality(OnPage(f)) \in Nat /\ limit \in Int
      BY SetCount, Numbers DEF OnPage, CompleteInv, TypeOK
    <3> QED
      BY <1>1, <1>2, <3>1, AfterPageGoesOn DEF BehindPage
  <2> QED
    BY <1>2, <2>1 DEF RestAhead, Complete
<1>3. CASE pc' = "wait"
  <2>1. PICK q \in OnPage(f) : dateFrom' = RFC3339(f[q] + 1)
    BY <1>1, <1>3, AfterPageGoesOn
  <2>2. q \in Orders /\ f[q] + 1 \in Nat
    BY <1>1 DEF OnPage
  <2>3. \A o \in Orders : changed[o] \in Nat
    BY DEF CompleteInv, TypeOK
  <2>4. \A o \in Orders : Caught(o)' \/ changed'[o] >= dateFrom'
    BY <2>1, <2>2, <2>3, CutToSecond
  <2> QED
    BY <1>3, <2>4 DEF RestAhead
<1> QED
  BY <1>1, <1>2, <1>3, AfterPageGoesOn

\* What is due and not on the page has changed after everything on it, or at the
\* same time; then the cut to the second goes back to it, unless they are tied.
LEMMA FetchCompleteInv == CompleteInv /\ LimitAssumption /\ FetchOrders => CompleteInv'
<1> SUFFICES ASSUME CompleteInv, LimitAssumption, FetchOrders PROVE CompleteInv'
  OBVIOUS
<1>1. UNCHANGED <<now, wb, db, window, live, owed>> /\ pc = "fetch"
  BY DEF FetchOrders
<1>2. TypeOK' /\ TypeOK
  BY NextTypeOK DEF CompleteInv, Next, Step
<1>3. Owes'
  <2>1. Running
    BY <1>1 DEF Running
  <2> QED
    BY <1>1, <2>1 DEF CompleteInv, Owes, Tied
<1>4. logged' = "none"
  BY <1>1 DEF CompleteInv, Unlogged, Running
<1>5. Unlogged' /\ SuccessStoresAll'
  BY <1>4 DEF Unlogged, SuccessStoresAll
<1>6. CASE GiveUp
  BY <1>2, <1>3, <1>5, <1>6 DEF GiveUp, CompleteInv, RestAhead, PageNew, PageRest, AtEnd
<1>7. ASSUME NEW S \in Pages,
             page' = [o \in Orders |-> IF o \in S THEN changed[o] ELSE 0],
             IF Kept(page') # {} THEN pc' = "upsert" /\ UNCHANGED dateFrom
                                 ELSE AfterPage(page')
      PROVE  CompleteInv'
  <2>1. /\ page' \in [Orders -> 0..now] /\ OnPage(page') = S /\ S \subseteq Due
        /\ \A o \in S : page'[o] = changed[o]
    BY <1>2, <1>7, PageHolds
  <2>2. \A o \in Orders : /\ changed[o] \in Nat /\ owed[o] \in Nat /\ rows[o] \in Nat
                         /\ owed[o] <= changed[o]
    BY <1>2 DEF TypeOK, CompleteInv, Owes
  <2>3. ASSUME NEW o \in Orders, o \notin S, ~Caught(o)
        PROVE  BehindPage(page') /\ \A p \in S : RFC3339(page'[p] + 1) <= changed[o]
    <3>1. changed[o] >= dateFrom /\ changed[o] # 0 /\ owed[o] # 0
      BY <1>1, <1>2, <2>2, <2>3 DEF CompleteInv, RestAhead, Caught
    <3>2. o \in Due \ S
      BY <2>3, <3>1 DEF Due
    <3>3. Cardinality(S) = PageMax
      BY <3>2 DEF Pages
    <3>4. limit <= PageMax /\ limit \in Int
      BY <1>2, Numbers DEF LimitAssumption, TypeOK
    <3>5. S # {}
      BY <3>3, FS_EmptySet, Numbers
    <3>6. BehindPage(page')
      BY <1>1, <2>1, <3>3, <3>4, <3>5, Numbers DEF BehindPage
    <3>7. ASSUME NEW p \in S PROVE RFC3339(page'[p] + 1) <= changed[o]
      <4>1. p \in Orders /\ p # o /\ page'[p] = changed[p] /\ changed[p] # 0
        BY <2>1, <2>3, <3>7 DEF Due
      <4>2. changed[p] <= changed[o]
        BY <3>2, <3>7 DEF Pages
      <4>3. CASE changed[p] = changed[o]
        <5>1. ~EndOfSecond(changed[o])
          BY <2>3, <3>1, <4>1, <4>3 DEF CompleteInv, Owes, Tied
        <5>2. changed[o] + 1 \in Nat /\ (changed[o] + 1) % Sec # 0
          BY <2>2, <3>1, <5>1 DEF EndOfSecond
        <5>3. RFC3339(changed[o] + 1) \in Int /\ RFC3339(changed[o] + 1) < changed[o] + 1
          BY <5>2, CutToSecond
        <5> QED
          BY <2>2, <3>1, <4>1, <4>3, <5>3
      <4>4. CASE changed[p] < changed[o]
        <5>1. RFC3339(changed[p] + 1) \in 0..changed[p] + 1
          BY <2>2, <4>1, CutToSecond
        <5> QED
          BY <2>2, <3>1, <4>1, <4>4, <5>1
      <4> QED
        BY <2>2, <3>1, <4>1, <4>2, <4>3, <4>4
    <3> QED
      BY <3>6, <3>7
  <2>4. \A o \in Orders : Caught(o)' <=> Caught(o)
    BY <1>1 DEF Caught
  <2>5. CASE Kept(page') # {}
    <3>1. pc' = "upsert"
      BY <1>7, <2>5
    <3>2. PageNew'
      BY <1>1, <2>1, <2>2 DEF PageNew, Due
    <3>3. BehindPage(page') => BehindPage(page)'
      BY <1>1 DEF BehindPage, OnPage
    <3>4. PageRest'
      BY <1>1, <2>1, <2>3, <2>4, <3>3 DEF PageRest, RestBehindPage
    <3> QED
      BY <1>2, <1>3, <1>5, <3>1, <3>2, <3>4 DEF CompleteInv, RestAhead, AtEnd
  <2>6. CASE Kept(page') = {}
    <3>1. \A o \in S : o \in Orders /\ Caught(o)
      <4>1. \A o \in S : o \in Orders /\ o \notin window
        BY <2>1, <2>6 DEF Kept, Due
      <4> QED
        BY <1>1, <2>2, <4>1 DEF CompleteInv, Owes, Running, Caught
    <3>2. RestAhead' /\ (pc' = "log" => Complete')
      BY <1>1, <1>7, <2>1, <2>3, <2>4, <2>6, <3>1, AfterPageCompletes
    <3>3. pc' \in {"log", "wait"}
      BY <1>2, <1>7, <2>1, <2>6, AfterPageGoesOn, Numbers DEF TypeOK
    <3> QED
      BY <1>2, <1>3, <1>5, <3>2, <3>3 DEF CompleteInv, PageNew, PageRest, AtEnd
  <2> QED
    BY <2>5, <2>6
<1> QED
  BY <1>6, <1>7 DEF FetchOrders

LEMMA UpsertCompleteInv == CompleteInv /\ UpsertBatch => CompleteInv'
<1> SUFFICES ASSUME CompleteInv, UpsertBatch PROVE CompleteInv'
  OBVIOUS
<1>1. UNCHANGED <<now, wb, logged, window, page, live>> /\ pc = "upsert"
      /\ (UNCHANGED owed \/ Excuse(Kept(page)))
  BY DEF UpsertBatch
<1>2. TypeOK' /\ TypeOK
  BY NextTypeOK DEF CompleteInv, Next, Step
<1>3. /\ \A o \in Orders : owed'[o] \in {0, owed[o]} /\ owed[o] \in Nat
                           /\ changed[o] \in Nat
      /\ Owes'
  <2>1. \A o \in Orders : owed'[o] \in {0, owed[o]} /\ owed[o] \in Nat /\ changed[o] \in Nat
    BY <1>1, <1>2 DEF Excuse, TypeOK
  <2>2. Tied' = Tied /\ Tied \subseteq Orders /\ Running
    BY <1>1 DEF Tied, Running
  <2> QED
    BY <1>1, <2>1, <2>2 DEF CompleteInv, Owes
<1>4. logged' = "none"
  BY <1>1 DEF CompleteInv, Unlogged, Running
<1>5. Unlogged' /\ SuccessStoresAll'
  BY <1>4 DEF Unlogged, SuccessStoresAll
<1>6. CASE GiveUp
  BY <1>2, <1>3, <1>5, <1>6 DEF GiveUp, CompleteInv, RestAhead, PageNew, PageRest, AtEnd
<1>7. CASE /\ StorePage \/ (Excuse(Kept(page)) /\ UNCHANGED rows)
           /\ AfterPage(page)
  <2>1. page \in [Orders -> 0..now] /\ now \in Nat
    BY <1>2, Numbers DEF TypeOK
  <2>2. ASSUME NEW o \in Orders
        PROVE  \/ Caught(o)'
               \/ BehindPage(page) /\ \A p \in OnPage(page) : RFC3339(page[p] + 1) <= changed[o]
    <3>1. /\ owed'[o] \in {0, owed[o]} /\ owed[o] \in Nat /\ rows[o] \in Nat /\ rows'[o] \in Nat
          /\ owed[o] # 0 => o \in window
      BY <1>1, <1>2, <1>3 DEF TypeOK, CompleteInv, Owes, Running
    <3>2. CASE o \in Kept(page)
      <4>1. rows'[o] = page[o] \/ owed'[o] = 0
        BY <1>7, <3>2 DEF StorePage, Excuse
      <4>2. page[o] >= owed[o] /\ page[o] \in Nat
        BY <1>1, <2>1, <3>2 DEF CompleteInv, PageNew, Kept
      <4> QED
        BY <3>1, <4>1, <4>2 DEF Caught
    <3>3. CASE o \notin Kept(page)
      <4>1. rows'[o] = rows[o]
        BY <1>7, <3>3 DEF StorePage
      <4>2. o \notin OnPage(page) \/ owed[o] = 0
        BY <3>1, <3>3 DEF Kept
      <4> QED
        BY <1>1, <3>1, <4>1, <4>2 DEF CompleteInv, PageRest, RestBehindPage, Caught
    <3> QED
      BY <3>2, <3>3
  <2>3. RestAhead' /\ (pc' = "log" => Complete')
    BY <1>1, <1>7, <2>1, <2>2, AfterPageCompletes
  <2>4. pc' \in {"log", "wait"}
    BY <1>7, <2>1, AfterPageGoesOn
  <2> QED
    BY <1>2, <1>3, <1>5, <2>3, <2>4 DEF CompleteInv, PageNew, PageRest, AtEnd
<1> QED
  BY <1>6, <1>7 DEF UpsertBatch

\* A walk that a signal ends early may have status "success", but no row tells.
LEMMA WaitCompleteInv == CompleteInv /\ Wait => CompleteInv'
<1> SUFFICES ASSUME CompleteInv, Wait PROVE CompleteInv'
  OBVIOUS
<1>1. UNCHANGED <<now, wb, db, locals, live, faults, owed>> /\ pc = "wait"
      /\ (pc' = "fetch" \/ (pc' = "log" /\ ~live))
  BY DEF Wait
<1>2. TypeOK'
  BY NextTypeOK DEF CompleteInv, Next, Step
<1> QED
  BY <1>1, <1>2 DEF CompleteInv, Owes, Tied, Unlogged, Running, RestAhead,
                    PageNew, PageRest, AtEnd, Caught, SuccessStoresAll

LEMMA InsertLogCompleteInv == CompleteInv /\ InsertLog => CompleteInv'
<1> SUFFICES ASSUME CompleteInv, InsertLog PROVE CompleteInv'
  OBVIOUS
<1>1. UNCHANGED <<changed, rows>> /\ EndRun /\ owed' \in {owed, None}
  BY DEF InsertLog
<1>2. TypeOK'
  BY NextTypeOK DEF CompleteInv, Next, Step
<1>3. logged = "none"
  BY DEF InsertLog, CompleteInv, Unlogged, Running
<1>4. logged' = "success" => Complete /\ owed' = owed
  BY <1>3 DEF InsertLog, CompleteInv, AtEnd
<1> QED
  BY <1>1, <1>2, <1>4, EndRunCompleteInv

LEMMA CrashCompleteInv == CompleteInv /\ Crash => CompleteInv'
<1> SUFFICES ASSUME CompleteInv, Crash PROVE CompleteInv'
  OBVIOUS
<1>1. UNCHANGED <<changed, rows>> /\ EndRun /\ owed' = None
  BY DEF Crash
<1>2. TypeOK'
  BY NextTypeOK DEF CompleteInv, Next
<1>3. logged' = "none"
  BY DEF Crash, CompleteInv, Unlogged
<1> QED
  BY <1>1, <1>2, <1>3, EndRunCompleteInv

LEMMA NextCompleteInv == CompleteInv /\ LimitAssumption /\ [Next]_vars => CompleteInv'
<1> SUFFICES ASSUME CompleteInv, LimitAssumption, [Next]_vars PROVE CompleteInv'
  OBVIOUS
<1>1. TypeOK'
  BY NextTypeOK DEF CompleteInv
<1>2. ASSUME Tick \/ Midnight \/ Cancel \/ UNCHANGED vars PROVE CompleteInv'
  <2>1. UNCHANGED <<changed, limit, db, pc, locals, owed>>
    BY <1>2 DEF Tick, Midnight, Cancel, vars
  <2>2. live' = TRUE => live = TRUE
    BY <1>2 DEF Tick, Midnight, Cancel, vars
  <2> QED
    BY <1>1, <2>1, <2>2, QuietCompleteInv
<1> QED
  BY <1>2, ChangeOrderCompleteInv, StartCompleteInv, FetchCompleteInv, UpsertCompleteInv,
     WaitCompleteInv, InsertLogCompleteInv, CrashCompleteInv DEF Next, Step

\* When a page holds at least API_LIMIT orders, a row that says "success" stands
\* for a run that has stored every order of its window at least as new as the run
\* found it, but for those of batches lost at commit and those that shared the
\* last millisecond of a second with another.
THEOREM SuccessAlwaysStoresAll ==
  ASSUME LimitAssumption
  PROVE  Spec => []SuccessStoresAll
<1>1. CompleteInv /\ [Next]_vars => CompleteInv'
  BY NextCompleteInv
<1>2. CompleteInv => SuccessStoresAll
  BY DEF CompleteInv
<1> QED
  BY <1>1, <1>2, InitCompleteInv, PTL DEF Spec
=============================================================================
