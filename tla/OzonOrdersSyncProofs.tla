------------------------- MODULE OzonOrdersSyncProofs -------------------------
(***************************************************************************)
(* Proofs about OzonOrdersSync for any number of postings of both schemes, *)
(* every page size, and any number of changes and faults; first, what      *)
(* offsets and limits take from a list.                                    *)
(***************************************************************************)
EXTENDS OzonOrdersSync, FiniteSetTheorems, WellFoundedInduction, TLAPS

USE DEF ozon, walk, run

-----------------------------------------------------------------------------
(* Lists and pages. *)

\* A set of naturals has a least element, and a bounded one a greatest.
LEMMA Least ==
  ASSUME NEW T \in SUBSET Nat, T # {}
  PROVE  \E x \in T : \A y \in T : x <= y
<1> DEFINE R == OpToRel(<, Nat)
<1>1. IsWellFoundedOn(R, Nat)
  BY NatLessThanWellFounded, Zenon
<1>2. \A x, y \in Nat : y < x => <<y, x>> \in R
  BY DEF OpToRel
<1> HIDE DEF R
<1>3. PICK x \in T : \A y \in T : <<y, x>> \notin R
  BY <1>1, WFMin
<1>4. ASSUME NEW y \in T PROVE x <= y
  <2>1. x \in Nat /\ y \in Nat
    OBVIOUS
  <2>2. ~(y < x)
    BY <1>2, <1>3, <2>1
  <2> QED
    BY <2>1, <2>2
<1> QED
  BY <1>4

LEMMA Greatest ==
  ASSUME NEW n \in Nat, NEW T \in SUBSET (0..n), T # {}
  PROVE  \E x \in T : \A y \in T : y <= x
<1> DEFINE U == {n - x : x \in T}
<1>1. U \in SUBSET Nat
  OBVIOUS
<1>2. PICK z \in T : TRUE
  OBVIOUS
<1>3. n - z \in U
  OBVIOUS
<1>4. PICK u \in U : \A v \in U : u <= v
  <2> HIDE DEF U
  <2> QED
    BY <1>1, <1>3, Least
<1>5. PICK x \in T : u = n - x
  OBVIOUS
<1>6. ASSUME NEW y \in T PROVE y <= x
  <2>1. n - y \in U
    OBVIOUS
  <2>2. n - x <= n - y
    BY <1>4, <1>5, <2>1
  <2> QED
    BY <2>2
<1> QED
  BY <1>6

\* A finite list: what comes before each of its entries is closed downwards, and
\* of two entries one comes before the other.
IsList(S, before) ==
  /\ IsFiniteSet(S) /\ before \in [S -> SUBSET S]
  /\ \A p \in S : p \notin before[p]
  /\ \A p, q \in S : p = q \/ p \in before[q] \/ q \in before[p]
  /\ \A p, q \in S : q \in before[p] => before[q] \subseteq before[p]

\* The first k entries of a list, and at most n from the k-th on.
FirstOf(S, before, k) == {p \in S : Cardinality(before[p]) < k}
PageOf(S, before, k, n) == {p \in S : Cardinality(before[p]) \in k..k + n - 1}

\* Ranks follow the list.
LEMMA RankOrder ==
  ASSUME NEW S, NEW before, IsList(S, before), NEW p \in S
  PROVE  /\ Cardinality(before[p]) \in Nat
         /\ Cardinality(before[p]) < Cardinality(S)
         /\ \A q \in before[p] : q \in S /\ Cardinality(before[q]) < Cardinality(before[p])
<1>1. IsFiniteSet(S) /\ before[p] \subseteq S /\ p \notin before[p]
  BY DEF IsList
<1>2. IsFiniteSet(before[p]) /\ Cardinality(before[p]) \in Nat
  BY <1>1, FS_Subset, FS_CardinalityType
<1>3. Cardinality(before[p]) <= Cardinality(S) /\ Cardinality(before[p]) # Cardinality(S)
  BY <1>1, FS_Subset
<1>4. Cardinality(S) \in Nat
  BY <1>1, FS_CardinalityType
<1>5. ASSUME NEW q \in before[p]
      PROVE  q \in S /\ Cardinality(before[q]) < Cardinality(before[p])
  <2>1. q \in S /\ before[q] \subseteq before[p] /\ q \notin before[q]
    BY <1>1 DEF IsList
  <2>2. /\ Cardinality(before[q]) <= Cardinality(before[p])
        /\ Cardinality(before[q]) # Cardinality(before[p])
        /\ IsFiniteSet(before[q])
    BY <1>2, <2>1, FS_Subset
  <2>3. Cardinality(before[q]) \in Nat
    BY <2>2, FS_CardinalityType
  <2> QED
    BY <1>2, <2>1, <2>2, <2>3
<1> QED
  BY <1>2, <1>3, <1>4, <1>5

\* The first k entries are k, unless the list is shorter: then they are all.
LEMMA FirstOfCount ==
  ASSUME NEW S, NEW before, IsList(S, before), NEW k \in Nat
  PROVE  /\ IsFiniteSet(FirstOf(S, before, k)) /\ FirstOf(S, before, k) \subseteq S
         /\ Cardinality(FirstOf(S, before, k)) \in 0..k
         /\ FirstOf(S, before, k) # S => Cardinality(FirstOf(S, before, k)) = k
<1> DEFINE rank(p) == Cardinality(before[p])
           T == FirstOf(S, before, k)
<1>1. T \subseteq S /\ \A p \in S : p \in T <=> rank(p) < k
  BY DEF FirstOf
<1>2. \A p \in S : /\ rank(p) \in Nat /\ rank(p) < Cardinality(S)
                   /\ \A q \in before[p] : q \in S /\ rank(q) < rank(p)
  BY RankOrder
<1>3. IsFiniteSet(S) /\ IsFiniteSet(T) /\ Cardinality(T) \in Nat
  BY <1>1, FS_Subset, FS_CardinalityType DEF IsList
<1>4. \A p, q \in S : p = q \/ p \in before[q] \/ q \in before[p]
  BY DEF IsList
<1>5. \A p \in S : before[p] \subseteq S /\ IsFiniteSet(before[p]) /\ p \notin before[p]
  BY <1>3, FS_Subset DEF IsList
<1> HIDE DEF rank, T
<1>6. Cardinality(T) <= k
  <2>1. CASE T = {}
    BY <2>1, FS_EmptySet
  <2>2. CASE T # {}
    <3> DEFINE U == {rank(p) : p \in T}
    <3>1. U \in SUBSET (0..k) /\ U # {}
      BY <1>1, <1>2, <2>2
    <3> HIDE DEF U
    <3>2. PICK u \in U : \A v \in U : v <= u
      BY <3>1, Greatest
    <3>3. PICK x \in T : u = rank(x)
      BY DEF U
    <3>4. \A q \in T : rank(q) <= rank(x)
      BY <3>2, <3>3 DEF U
    <3>5. T \subseteq before[x] \cup {x}
      BY <1>1, <1>2, <1>4, <3>4
    <3>6. Cardinality(before[x] \cup {x}) = rank(x) + 1 /\ IsFiniteSet(before[x] \cup {x})
      BY <1>1, <1>5, FS_AddElement DEF rank
    <3>7. Cardinality(T) <= rank(x) + 1
      BY <3>5, <3>6, FS_Subset
    <3> QED
      BY <1>1, <1>2, <1>3, <3>7
  <2> QED
    BY <2>1, <2>2
<1>7. ASSUME T # S PROVE Cardinality(T) >= k
  <2> DEFINE U == {rank(p) : p \in S \ T}
  <2>1. U \in SUBSET Nat /\ U # {}
    BY <1>1, <1>2, <1>7
  <2> HIDE DEF U
  <2>2. PICK u \in U : \A v \in U : u <= v
    BY <2>1, Least
  <2>3. PICK x \in S \ T : u = rank(x)
    BY DEF U
  <2>4. \A q \in S \ T : rank(x) <= rank(q)
    BY <2>2, <2>3 DEF U
  <2>5. before[x] \subseteq T
    BY <1>2, <2>4
  <2>6. rank(x) <= Cardinality(T)
    BY <1>3, <2>5, FS_Subset DEF rank
  <2>7. rank(x) >= k
    BY <1>1, <1>2
  <2> QED
    BY <1>2, <1>3, <2>6, <2>7
<1> QED
  BY <1>1, <1>3, <1>6, <1>7 DEF T

\* The page of at most n entries from the k-th on is full unless the list ends
\* on it.
LEMMA PageIsFull ==
  ASSUME NEW S, NEW before, IsList(S, before), NEW k \in Nat, NEW n \in Nat \ {0}
  PROVE  LET page == PageOf(S, before, k, n)
         IN  /\ IsFiniteSet(page) /\ page \subseteq S /\ Cardinality(page) \in 0..n
             /\ page # {} => k + Cardinality(page) <= Cardinality(S)
             /\ \A p \in S : Cardinality(before[p]) >= k /\ p \notin page =>
                  Cardinality(page) = n /\ k + n < Cardinality(S)
<1> DEFINE page == PageOf(S, before, k, n)
           A == FirstOf(S, before, k)
           B == FirstOf(S, before, k + n)
<1>1. \A p \in S : Cardinality(before[p]) \in Nat /\ Cardinality(before[p]) < Cardinality(S)
  BY RankOrder
<1>2. page = B \ A /\ A \subseteq B
  BY <1>1 DEF FirstOf, PageOf
<1>3. /\ IsFiniteSet(A) /\ A \subseteq S /\ Cardinality(A) \in 0..k
      /\ A # S => Cardinality(A) = k
  BY FirstOfCount
<1>4. /\ IsFiniteSet(B) /\ B \subseteq S /\ Cardinality(B) \in 0..k + n
      /\ B # S => Cardinality(B) = k + n
  BY FirstOfCount
<1>5. IsFiniteSet(S) /\ Cardinality(S) \in Nat
  BY FS_CardinalityType DEF IsList
<1>6. page \subseteq S /\ IsFiniteSet(page) /\ Cardinality(page) \in Nat
  BY <1>2, <1>4, FS_Subset, FS_CardinalityType
<1> HIDE DEF A, B, page
<1>7. Cardinality(page) = Cardinality(B) - Cardinality(A)
  <2>1. B \cap A = A
    BY <1>2
  <2>2. Cardinality(B \ A) = Cardinality(B) - Cardinality(B \cap A)
    BY <1>4, FS_Difference, Zenon
  <2> QED
    BY <1>2, <2>1, <2>2
<1>8. page # {} => A # S
  BY <1>2, <1>4
<1>9. Cardinality(page) <= n
  <2>1. CASE page = {}
    BY <2>1, FS_EmptySet
  <2> QED
    BY <1>3, <1>4, <1>7, <1>8, <2>1
<1>10. page # {} => k + Cardinality(page) <= Cardinality(S)
  <2>1. Cardinality(B) <= Cardinality(S)
    BY <1>4, <1>5, FS_Subset
  <2> QED
    BY <1>3, <1>4, <1>5, <1>7, <1>8, <2>1
<1>11. ASSUME NEW p \in S, Cardinality(before[p]) >= k, p \notin page
       PROVE  Cardinality(page) = n /\ k + n < Cardinality(S)
  <2>1. Cardinality(before[p]) >= k + n
    BY <1>1, <1>11 DEF page, PageOf
  <2>2. p \notin B /\ p \notin A
    BY <1>1, <2>1 DEF A, B, FirstOf
  <2>3. Cardinality(B) = k + n /\ Cardinality(A) = k
    BY <1>3, <1>4, <2>2
  <2> QED
    BY <1>1, <1>5, <1>7, <2>1, <2>3
<1> QED
  BY <1>6, <1>9, <1>10, <1>11 DEF page

-----------------------------------------------------------------------------
(* The lists of Ozon. *)

Ascending(S) == [p \in S |-> {q \in S : q < p}]

LEMMA Numbers ==
  /\ Limit \in Nat \ {0} /\ MaxChanges \in Nat /\ Cardinality(Postings) \in Nat
  /\ Postings \subseteq Nat \ {0}
  /\ Fbo \subseteq Postings /\ Fbs \subseteq Postings /\ Fbo \cap Fbs = {}
  /\ IsFiniteSet(Fbo) /\ Cardinality(Fbo) \in Nat
<1>1. IsFiniteSet(Postings) /\ Fbo \subseteq Postings /\ Fbs \subseteq Postings
  BY PostingAssumption DEF Postings
<1>2. Postings \subseteq Nat \ {0}
  <2>1. ASSUME NEW n PROVE 1..n \subseteq Nat \ {0}
    OBVIOUS
  <2> QED
    BY <2>1, PostingAssumption
<1> QED
  BY <1>1, <1>2, PostingAssumption, NumberAssumption, FS_CardinalityType, FS_Subset

LEMMA FbsNumbers == \A p \in Fbs : ~(p <= 0)
  BY Numbers

LEMMA AscendingList ==
  ASSUME NEW S \in SUBSET Postings
  PROVE  /\ IsList(S, Ascending(S))
         /\ \A p \in S : Rank(p, S) = Cardinality(Ascending(S)[p])
<1>1. IsFiniteSet(S)
  BY PostingAssumption, FS_Subset
<1>2. \A p \in S : p \in Nat
  BY Numbers
<1>3. Ascending(S) \in [S -> SUBSET S] /\ \A p \in S : Ascending(S)[p] = {q \in S : q < p}
  BY DEF Ascending
<1>4. \A p \in S : p \notin Ascending(S)[p]
  BY <1>2, <1>3
<1>5. \A p, q \in S : p = q \/ p \in Ascending(S)[q] \/ q \in Ascending(S)[p]
  BY <1>2, <1>3
<1>6. ASSUME NEW p \in S, NEW q \in S, q \in Ascending(S)[p]
      PROVE  Ascending(S)[q] \subseteq Ascending(S)[p]
  BY <1>2, <1>3, <1>6
<1> QED
  BY <1>1, <1>3, <1>4, <1>5, <1>6 DEF IsList, Rank

\* A place in a list is a number.
LEMMA RankType ==
  ASSUME NEW S \in SUBSET Postings, NEW p
  PROVE  Rank(p, S) \in Nat
<1>1. {q \in S : q < p} \subseteq Postings
  OBVIOUS
<1>2. IsFiniteSet({q \in S : q < p})
  BY <1>1, PostingAssumption, FS_Subset
<1> QED
  BY <1>2, FS_CardinalityType DEF Rank

LEMMA WalkType ==
  TypeOK => /\ to \in Nat /\ placed \in Nat /\ changes \in Nat
            /\ offset \in Nat /\ lastID \in {0} \cup Fbs
<1> SUFFICES ASSUME TypeOK
             PROVE  /\ to \in Nat /\ placed \in Nat /\ changes \in Nat
                    /\ offset \in Nat /\ lastID \in {0} \cup Fbs
  OBVIOUS
<1>1. /\ placed \in 0..Cardinality(Postings) /\ to \in 0..placed
      /\ changes \in 1..MaxChanges + 1
      /\ offset \in 0..Cardinality(Fbo) /\ lastID \in {0} \cup Fbs
  BY DEF TypeOK
<1> QED
  BY <1>1, Numbers

\* The window of a scheme is part of what there is.
LEMMA WindowType ==
  ASSUME TypeOK, NEW S \in SUBSET Postings
  PROVE  /\ InWindow(S) \in SUBSET Postings /\ InWindow(S) \subseteq S
         /\ InWindow(S) \subseteq listed /\ InWindow(S) \subseteq 1..to
         /\ \A p \in S : p \in listed /\ p <= to => p \in InWindow(S)
<1>1. to \in Nat /\ placed \in Nat /\ \A p \in S : p \in Nat \ {0}
  BY WalkType, Numbers
<1> QED
  BY <1>1 DEF InWindow

\* A page of the FBO window by offset.
LEMMA FboPage ==
  ASSUME TypeOK, NEW page,
         page = {p \in InWindow(Fbo) : Rank(p, InWindow(Fbo)) \in offset..offset + Limit - 1}
  PROVE  LET list == InWindow(Fbo)
             more_ == Cardinality(page) = Limit /\ offset + Cardinality(page) < Cardinality(list)
         IN  /\ page \subseteq list /\ IsFiniteSet(page) /\ Cardinality(page) \in Nat
             /\ more_ => offset + Cardinality(page) <= Cardinality(Fbo)
             /\ \A p \in list : Rank(p, list) \in Nat
             /\ \A p \in list : Rank(p, list) >= offset /\ p \notin page =>
                  more_ /\ Rank(p, list) >= offset + Cardinality(page)
<1> DEFINE list == InWindow(Fbo)
<1>1. list \in SUBSET Postings /\ list \subseteq Fbo
  BY WindowType, Numbers
<1>2. offset \in Nat /\ Limit \in Nat \ {0}
  BY WalkType, Numbers
<1> HIDE DEF list
<1>3. /\ IsList(list, Ascending(list))
      /\ \A p \in list : Rank(p, list) = Cardinality(Ascending(list)[p])
  BY <1>1, AscendingList
<1> DEFINE P == PageOf(list, Ascending(list), offset, Limit)
<1>4. page = P
  BY <1>3 DEF list, PageOf
<1>5. /\ IsFiniteSet(page) /\ page \subseteq list /\ Cardinality(page) \in 0..Limit
      /\ \A p \in list : Cardinality(Ascending(list)[p]) >= offset /\ p \notin page =>
           Cardinality(page) = Limit /\ offset + Limit < Cardinality(list)
  <2>1. /\ IsFiniteSet(P) /\ P \subseteq list /\ Cardinality(P) \in 0..Limit
        /\ \A p \in list : Cardinality(Ascending(list)[p]) >= offset /\ p \notin P =>
             Cardinality(P) = Limit /\ offset + Limit < Cardinality(list)
    BY <1>2, <1>3, PageIsFull
  <2> QED
    BY <1>4, <2>1
<1>6. \A p \in list : Rank(p, list) \in Nat
  BY <1>3, RankOrder
<1>7. Cardinality(list) <= Cardinality(Fbo) /\ Cardinality(list) \in Nat
  BY <1>1, Numbers, FS_Subset, FS_CardinalityType
<1>8. ASSUME NEW p \in list, Rank(p, list) >= offset, p \notin page
      PROVE  /\ Cardinality(page) = Limit /\ offset + Cardinality(page) < Cardinality(list)
             /\ Rank(p, list) >= offset + Cardinality(page)
  <2>1. Cardinality(page) = Limit /\ offset + Limit < Cardinality(list)
    BY <1>3, <1>5, <1>8
  <2>2. ~(Rank(p, list) \in offset..offset + Limit - 1)
    BY <1>3, <1>4, <1>8 DEF PageOf
  <2> QED
    BY <1>2, <1>6, <1>8, <2>1, <2>2, Numbers
<1>9. Cardinality(page) \in Nat
  BY <1>5, Numbers
<1> QED
  BY <1>2, <1>5, <1>6, <1>7, <1>8, <1>9, Numbers DEF list

\* A page of the FBS window behind a posting.
LEMMA FbsPage ==
  ASSUME TypeOK, NEW behind, NEW page,
         behind = {p \in InWindow(Fbs) : p > lastID},
         page = {p \in behind : Rank(p, behind) < Limit}
  PROVE  /\ page \subseteq behind /\ behind \subseteq InWindow(Fbs)
         /\ \A p \in behind \ page :
              Cardinality(page) = Limit /\ page # {} /\ \A q \in page : q < p
<1>1. behind \subseteq InWindow(Fbs) /\ behind \in SUBSET Postings
  BY WindowType, Numbers
<1>2. /\ IsList(behind, Ascending(behind))
      /\ \A p \in behind : Rank(p, behind) = Cardinality(Ascending(behind)[p])
  BY <1>1, AscendingList
<1>3. page = FirstOf(behind, Ascending(behind), Limit)
  BY <1>2 DEF FirstOf
<1>4. page \subseteq behind /\ (page # behind => Cardinality(page) = Limit)
  <2>1. Limit \in Nat
    BY Numbers
  <2>2. /\ FirstOf(behind, Ascending(behind), Limit) \subseteq behind
        /\ FirstOf(behind, Ascending(behind), Limit) # behind =>
             Cardinality(FirstOf(behind, Ascending(behind), Limit)) = Limit
    BY <1>2, <2>1, FirstOfCount
  <2> QED
    BY <1>3, <2>2
<1>5. ASSUME NEW p \in behind \ page
      PROVE  Cardinality(page) = Limit /\ page # {} /\ \A q \in page : q < p
  <2>1. Cardinality(page) = Limit /\ page # {}
    BY <1>4, FS_EmptySet, Numbers
  <2>2. ASSUME NEW q \in page, ~(q < p) PROVE FALSE
    <3>1. p \in Nat /\ q \in Nat /\ p \in behind /\ q \in behind
      BY <1>1, <1>4, Numbers
    <3>2. p \in Ascending(behind)[q]
      BY <2>2, <3>1 DEF Ascending
    <3>3. /\ Cardinality(Ascending(behind)[p]) < Cardinality(Ascending(behind)[q])
          /\ Cardinality(Ascending(behind)[q]) \in Nat
          /\ Cardinality(Ascending(behind)[p]) \in Nat
      BY <1>2, <3>1, <3>2, RankOrder
    <3>4. Cardinality(Ascending(behind)[q]) < Limit /\ ~(Cardinality(Ascending(behind)[p]) < Limit)
      BY <1>3, <3>1 DEF FirstOf
    <3> QED
      BY <3>3, <3>4, Numbers
  <2> QED
    BY <2>1, <2>2
<1> QED
  BY <1>1, <1>4, <1>5

-----------------------------------------------------------------------------
(* Type correctness. *)

\* What the loop knows while a page waits for its callback: an FBO page that is
\* not the last ends inside the list, an FBS page holds FBS postings.
PageFits ==
  /\ pc = "upsertFbo" /\ more => offset + Cardinality(DOMAIN items) <= Cardinality(Fbo)
  /\ pc = "upsertFbo" => Cardinality(DOMAIN items) \in Nat
  /\ pc = "upsertFbs" => DOMAIN items \subseteq Fbs

WalkTypeOK == TypeOK /\ PageFits

LEMMA EmptyFunction == DOMAIN <<>> = {}
  OBVIOUS

\* A walk that starts anew has a good type whatever it leaves.
LEMMA NewWalkType ==
  ASSUME NewWalk
  PROVE  /\ offset' \in 0..Cardinality(Fbo) /\ lastID' \in {0} \cup Fbs
         /\ DOMAIN items' = {} /\ more' = FALSE
  BY Numbers, EmptyFunction DEF NewWalk

LEMMA InitWalkTypeOK == Init => WalkTypeOK
<1> SUFFICES ASSUME Init PROVE WalkTypeOK
  OBVIOUS
<1>1. /\ placed \in 0..Cardinality(Postings) /\ listed = 1..placed
      /\ version = [p \in Postings |-> 1] /\ changes = 1 /\ rows = [p \in Postings |-> 0]
      /\ offset = 0 /\ lastID = 0 /\ to = 0
  BY Zenon DEF Init
<1>2. /\ listed \subseteq 1..placed /\ changes \in 1..MaxChanges + 1
      /\ version \in [Postings -> 1..changes] /\ rows \in [Postings -> 0..changes]
      /\ to \in 0..placed /\ offset \in 0..Cardinality(Fbo) /\ lastID \in {0} \cup Fbs
  BY <1>1, Numbers
<1>3. DOMAIN items = {} /\ DOMAIN begun = {}
  BY EmptyFunction DEF Init
<1>4. pc = "idle" /\ errMsg = "" /\ more = FALSE /\ live = TRUE /\ shifted = FALSE
  BY DEF Init
<1> QED
  BY <1>1, <1>2, <1>3, <1>4 DEF WalkTypeOK, TypeOK, PageFits

\* What Ozon does changes nothing of the walk.
LEMMA WorldTypeOK == WalkTypeOK /\ (Place \/ ChangePosting \/ Remove) => WalkTypeOK'
<1> SUFFICES ASSUME WalkTypeOK, Place \/ ChangePosting \/ Remove PROVE WalkTypeOK'
  OBVIOUS
<1>1. UNCHANGED <<rows, pc, walk, to, errMsg, live>>
  BY DEF Place, ChangePosting, Remove
<1>2. PageFits'
  BY <1>1 DEF WalkTypeOK, PageFits
<1>3. TypeOK /\ to \in Nat /\ placed \in Nat /\ changes \in Nat
  BY WalkType DEF WalkTypeOK
<1>4. CASE Place
  <2>1. placed' \in 0..Cardinality(Postings) /\ listed' \subseteq 1..placed' /\ to \in 0..placed'
    <3>1. placed' = placed + 1 /\ placed < Cardinality(Postings)
      BY <1>4 DEF Place
    <3>2. placed' \in 0..Cardinality(Postings)
      BY <1>3, <3>1, Numbers
    <3>3. 0..placed \subseteq 0..placed' /\ 1..placed \subseteq 1..placed' /\ placed' \in 1..placed'
      BY <1>3, <3>1
    <3> QED
      BY <1>3, <1>4, <3>2, <3>3 DEF Place, TypeOK
  <2>2. UNCHANGED <<version, changes, begun, shifted>> /\ listed \subseteq listed'
    BY <1>4 DEF Place
  <2> QED
    BY <1>1, <1>2, <1>3, <2>1, <2>2 DEF TypeOK, WalkTypeOK
<1>5. CASE ChangePosting
  <2>1. UNCHANGED <<placed, listed, begun, shifted>> /\ changes' \in 1..MaxChanges + 1
        /\ changes' = changes + 1
    BY <1>3, <1>5, Numbers DEF ChangePosting
  <2>6. /\ 1..changes \subseteq 1..changes' /\ 0..changes \subseteq 0..changes'
        /\ changes' \in 1..changes'
    BY <1>3, <2>1
  <2>2. version' \in [Postings -> 1..changes']
    <3>1. version \in [Postings -> 1..changes'] /\ changes' \in 1..changes'
      BY <1>3, <2>1, <2>6 DEF TypeOK
    <3> QED
      BY <1>5, <3>1 DEF ChangePosting
  <2>3. rows \in [Postings -> 0..changes'] /\ \A p \in DOMAIN items : items[p] \in 1..changes'
    BY <1>3, <2>6 DEF TypeOK
  <2> QED
    BY <1>1, <1>2, <1>3, <2>1, <2>2, <2>3 DEF TypeOK, WalkTypeOK
<1>6. CASE Remove
  <2>1. PICK p \in listed : /\ listed' = listed \ {p}
                            /\ begun' = [q \in DOMAIN begun \ {p} |-> begun[q]]
                            /\ shifted' = (shifted \/ (Running /\ p \in Fbo))
    BY <1>6 DEF Remove, Excuse
  <2>2. UNCHANGED <<placed, version>> /\ changes' \in 1..MaxChanges + 1 /\ changes' = changes + 1
    BY <1>3, <1>6, Numbers DEF Remove
  <2>3. listed' \subseteq 1..placed /\ DOMAIN begun' \subseteq listed'
    BY <1>3, <2>1 DEF TypeOK
  <2>4. /\ version \in [Postings -> 1..changes'] /\ rows \in [Postings -> 0..changes']
        /\ \A q \in DOMAIN items : items[q] \in 1..changes'
    <3>1. 1..changes \subseteq 1..changes' /\ 0..changes \subseteq 0..changes'
      BY <1>3, <2>2
    <3> QED
      BY <1>3, <3>1 DEF TypeOK
  <2>5. shifted' \in BOOLEAN
    BY <2>1, Zenon
  <2> QED
    BY <1>1, <1>2, <1>3, <2>2, <2>3, <2>4, <2>5 DEF TypeOK, WalkTypeOK
<1> QED
  BY <1>4, <1>5, <1>6

\* The end of a run, and of a scheme.
LEMMA EndRunTypeOK ==
  ASSUME WalkTypeOK, EndRun, UNCHANGED <<ozon, rows>>
  PROVE  WalkTypeOK'
<1>1. /\ offset' \in 0..Cardinality(Fbo) /\ lastID' \in {0} \cup Fbs
      /\ DOMAIN items' = {} /\ more' = FALSE /\ pc' = "idle" /\ to' = 0 /\ errMsg' = ""
      /\ live' = TRUE /\ DOMAIN begun' = {} /\ shifted' = FALSE
  BY NewWalkType, EmptyFunction DEF EndRun
<1>2. placed \in Nat /\ TypeOK
  BY WalkType DEF WalkTypeOK
<1>3. to' \in 0..placed'
  <2>1. 0 \in 0..placed
    BY <1>2
  <2> QED
    BY <1>1, <2>1
<1> QED
  BY <1>1, <1>2, <1>3 DEF WalkTypeOK, TypeOK, PageFits

LEMMA EndOfSchemeTypeOK ==
  ASSUME WalkTypeOK, NEW scheme \in {"fbo", "fbs"}, EndOfScheme(scheme),
         UNCHANGED <<ozon, to, live, shifted>>, DOMAIN begun' \subseteq DOMAIN begun,
         rows' \in [Postings -> 0..changes],
         errMsg' \in {"", "fbo", "fbs"}
  PROVE  WalkTypeOK'
<1>1. /\ offset' \in 0..Cardinality(Fbo) /\ lastID' \in {0} \cup Fbs
      /\ DOMAIN items' = {} /\ more' = FALSE /\ pc' \in {"fbs", "log"}
  BY NewWalkType DEF EndOfScheme
<1> QED
  BY <1>1 DEF WalkTypeOK, TypeOK, PageFits

LEMMA StartTypeOK == WalkTypeOK /\ Start => WalkTypeOK'
<1> SUFFICES ASSUME WalkTypeOK, Start PROVE WalkTypeOK'
  OBVIOUS
<1>1. UNCHANGED <<ozon, rows, walk, errMsg, live, shifted>> /\ pc' = "fbo" /\ to' = placed
      /\ DOMAIN begun' = listed
  BY DEF Start
<1>2. placed \in Nat /\ to \in 0..placed /\ DOMAIN items \subseteq 1..to
  BY WalkType DEF WalkTypeOK, TypeOK
<1>3. DOMAIN items \subseteq 1..placed /\ to' \in 0..placed
  BY <1>1, <1>2
<1> QED
  BY <1>1, <1>3 DEF WalkTypeOK, TypeOK, PageFits

\* A page of what is listed in the window.
LEMMA OnPageTypeOK ==
  ASSUME WalkTypeOK, NEW scheme \in {"fbo", "fbs"}, NEW S, NEW more_ \in BOOLEAN,
         OnPage(scheme, S, more_),
         S \subseteq InWindow(IF scheme = "fbo" THEN Fbo ELSE Fbs),
         scheme = "fbo" => Cardinality(S) \in Nat,
         scheme = "fbo" /\ more_ => offset + Cardinality(S) <= Cardinality(Fbo),
         UNCHANGED <<ozon, rows, to, live, begun, shifted, errMsg>>
  PROVE  WalkTypeOK'
<1>1. CASE S = {}
  BY <1>1, EndOfSchemeTypeOK DEF OnPage, WalkTypeOK, TypeOK
<1>2. CASE S # {}
  <2>1. /\ items' = [p \in S |-> version[p]] /\ more' = more_
        /\ pc' = (IF scheme = "fbo" THEN "upsertFbo" ELSE "upsertFbs")
        /\ UNCHANGED <<offset, lastID>>
    BY <1>2 DEF OnPage
  <2>2. /\ S \subseteq Postings /\ S \subseteq 1..to
        /\ scheme = "fbs" => S \subseteq Fbs
    BY WindowType, Numbers DEF WalkTypeOK
  <2>3. DOMAIN items' = S /\ \A p \in DOMAIN items' : items'[p] \in 1..changes
    BY <2>1, <2>2 DEF WalkTypeOK, TypeOK
  <2>4. PageFits'
    BY <2>1, <2>2, <2>3 DEF PageFits
  <2> QED
    BY <2>1, <2>2, <2>3, <2>4 DEF WalkTypeOK, TypeOK
<1> QED
  BY <1>1, <1>2

LEMMA FailTypeOK ==
  ASSUME WalkTypeOK, NEW scheme \in {"fbo", "fbs"}, Fail(scheme),
         UNCHANGED <<ozon, to, live, shifted>>, DOMAIN begun' \subseteq DOMAIN begun,
         rows' \in [Postings -> 0..changes]
  PROVE  WalkTypeOK'
  BY EndOfSchemeTypeOK DEF Fail

LEMMA FetchFBOTypeOK == WalkTypeOK /\ FetchFBOBatch => WalkTypeOK'
<1> SUFFICES ASSUME WalkTypeOK, FetchFBOBatch PROVE WalkTypeOK'
  OBVIOUS
<1>1. UNCHANGED <<ozon, rows, to, live, begun, shifted>>
  BY DEF FetchFBOBatch
<1>2. CASE Fail("fbo")
  BY <1>1, <1>2, FailTypeOK DEF WalkTypeOK, TypeOK
<1> DEFINE list == InWindow(Fbo)
           page == {p \in list : Rank(p, list) \in offset..offset + Limit - 1}
           more_ == Cardinality(page) = Limit /\ offset + Cardinality(page) < Cardinality(list)
<1>3. CASE OnPage("fbo", page, more_) /\ UNCHANGED errMsg
  <2>1. /\ page \subseteq list /\ Cardinality(page) \in Nat
        /\ more_ => offset + Cardinality(page) <= Cardinality(Fbo)
    BY FboPage DEF WalkTypeOK
  <2>2. more_ \in BOOLEAN
    BY Zenon
  <2> HIDE DEF page, more_
  <2> QED
    BY <1>1, <1>3, <2>1, <2>2, OnPageTypeOK
<1> QED
  BY <1>2, <1>3 DEF FetchFBOBatch

LEMMA FetchFBSTypeOK == WalkTypeOK /\ FetchFBSBatch => WalkTypeOK'
<1> SUFFICES ASSUME WalkTypeOK, FetchFBSBatch PROVE WalkTypeOK'
  OBVIOUS
<1>1. UNCHANGED <<ozon, rows, to, live, begun, shifted>>
  BY DEF FetchFBSBatch
<1>2. CASE Fail("fbs")
  BY <1>1, <1>2, FailTypeOK DEF WalkTypeOK, TypeOK
<1> DEFINE behind == {p \in InWindow(Fbs) : p > lastID}
           page == {p \in behind : Rank(p, behind) < Limit}
           full == Cardinality(page) = Limit
<1>3. ASSUME NEW has_next \in {page # behind, full}, OnPage("fbs", page, has_next /\ full),
             UNCHANGED errMsg
      PROVE  WalkTypeOK'
  <2>1. page \subseteq InWindow(Fbs)
    OBVIOUS
  <2>2. (has_next /\ full) \in BOOLEAN
    BY Zenon
  <2> HIDE DEF page, full
  <2> QED
    BY <1>1, <1>3, <2>1, <2>2, OnPageTypeOK
<1> QED
  BY <1>2, <1>3 DEF FetchFBSBatch

LEMMA StorePageType ==
  ASSUME TypeOK, StorePage \/ UNCHANGED rows
  PROVE  rows' \in [Postings -> 0..changes]
<1>1. \A p \in DOMAIN items : items[p] \in 0..changes
  <2>1. 1..changes \subseteq 0..changes
    OBVIOUS
  <2> QED
    BY <2>1 DEF TypeOK
<1> QED
  BY <1>1 DEF StorePage, TypeOK

\* However a page is acknowledged or fails, its rows have the right type, and of
\* the postings of the start some may be excused.
LEMMA StoreType ==
  ASSUME TypeOK,
         Acknowledged \/ ((StorePage \/ UNCHANGED rows) /\ UNCHANGED begun)
  PROVE  /\ rows' \in [Postings -> 0..changes] /\ DOMAIN begun' \subseteq DOMAIN begun
         /\ \A p \in DOMAIN begun' : begun'[p] = begun[p]
<1>1. StorePage \/ UNCHANGED rows
  BY DEF Acknowledged
<1>2. begun' = begun \/ begun' = [q \in DOMAIN begun \ DOMAIN items |-> begun[q]]
  BY DEF Acknowledged, Excuse
<1> QED
  BY <1>1, <1>2, StorePageType

LEMMA UpsertTypeOK == WalkTypeOK /\ (UpsertFBO \/ UpsertFBS) => WalkTypeOK'
<1> SUFFICES ASSUME WalkTypeOK, UpsertFBO \/ UpsertFBS PROVE WalkTypeOK'
  OBVIOUS
<1>1. UNCHANGED <<ozon, to, live, shifted>>
  BY DEF UpsertFBO, UpsertFBS
<1>2. rows' \in [Postings -> 0..changes] /\ DOMAIN begun' \subseteq DOMAIN begun
  BY StoreType DEF WalkTypeOK, UpsertFBO, UpsertFBS
<1>3. CASE Fail("fbo") \/ Fail("fbs")
  BY <1>1, <1>2, <1>3, FailTypeOK
<1>4. CASE (EndOfScheme("fbo") \/ EndOfScheme("fbs")) /\ UNCHANGED errMsg
  BY <1>1, <1>2, <1>4, EndOfSchemeTypeOK DEF WalkTypeOK, TypeOK
<1>5. CASE /\ pc = "upsertFbo" /\ more
           /\ pc' = "fbo" /\ NextFBO /\ items' = <<>> /\ UNCHANGED <<lastID, more, errMsg>>
  <2>1. offset' \in 0..Cardinality(Fbo)
    BY <1>5, WalkType, Numbers DEF NextFBO, WalkTypeOK, PageFits
  <2>2. DOMAIN items' = {}
    BY <1>5, EmptyFunction
  <2> QED
    BY <1>1, <1>2, <1>5, <2>1, <2>2 DEF WalkTypeOK, TypeOK, PageFits
<1>6. CASE /\ pc = "upsertFbs"
           /\ pc' = "fbs" /\ NextFBS /\ items' = <<>> /\ UNCHANGED <<offset, more, errMsg>>
  <2>1. lastID' \in {0} \cup Fbs
    BY <1>6 DEF NextFBS, WalkTypeOK, PageFits
  <2>2. DOMAIN items' = {}
    BY <1>6, EmptyFunction
  <2> QED
    BY <1>1, <1>2, <1>6, <2>1, <2>2 DEF WalkTypeOK, TypeOK, PageFits
<1> QED
  BY <1>3, <1>4, <1>5, <1>6 DEF UpsertFBO, UpsertFBS

LEMMA NextWalkTypeOK == WalkTypeOK /\ [SyncNext]_syncVars => WalkTypeOK'
<1> SUFFICES ASSUME WalkTypeOK, [SyncNext]_syncVars PROVE WalkTypeOK'
  OBVIOUS
<1>1. ASSUME Crash \/ InsertOzonLog PROVE WalkTypeOK'
  BY <1>1, EndRunTypeOK DEF Crash, InsertOzonLog
<1>2. ASSUME Cancel PROVE WalkTypeOK'
  BY <1>2 DEF Cancel, WalkTypeOK, TypeOK, PageFits
<1>3. ASSUME UNCHANGED syncVars PROVE WalkTypeOK'
  BY <1>3 DEF syncVars, WalkTypeOK, TypeOK, PageFits
<1> QED
  BY <1>1, <1>2, <1>3, WorldTypeOK, StartTypeOK, FetchFBOTypeOK, FetchFBSTypeOK, UpsertTypeOK
     DEF SyncNext, SyncStep

\* Every variable keeps its type; in particular no offset goes past the end of
\* the FBO list, and last_id is always a posting of the other scheme's list.
THEOREM TypeCorrect == SyncSpec => []TypeOK
<1>1. WalkTypeOK => TypeOK
  BY DEF WalkTypeOK
<1> QED
  BY <1>1, InitWalkTypeOK, NextWalkTypeOK, PTL DEF SyncSpec

-----------------------------------------------------------------------------
(* The log tells the truth.  LogInv says, at each point of the two walks,    *)
(* which of the postings that were there at the start are stored.            *)

Kept(S) == S \cap DOMAIN begun
IsStored(p) == rows[p] >= begun[p]
FboRank(p) == Rank(p, InWindow(Fbo))

\* The postings of the start are in the window and have not gone back.
BegunInWindow ==
  /\ DOMAIN begun \subseteq 1..to
  /\ \A p \in DOMAIN begun : begun[p] \in Nat /\ begun[p] <= version[p]

\* A run starts at the beginning of its first list.
StartsAnew == pc = "idle" => offset = 0 /\ DOMAIN items = {}

\* A page shows its postings no older than they were at the start.
PageNew == \A p \in Kept(DOMAIN items) : items[p] >= begun[p]

\* Unless the list has moved, what lies before the offset is stored, and when
\* there is a page, what is on it will be.
FboWalk == ~shifted =>
  /\ pc = "fbo" => \A p \in Kept(Fbo) : FboRank(p) < offset => IsStored(p)
  /\ pc = "upsertFbo" => \A p \in Kept(Fbo) :
       \/ IsStored(p) \/ p \in DOMAIN items
       \/ more /\ FboRank(p) >= offset + Cardinality(DOMAIN items)

FboDone == pc \in {"fbs", "upsertFbs", "log"} /\ errMsg = "" /\ ~shifted => Stored(Fbo)

\* What lies up to last_id is stored.
FbsWalk ==
  /\ pc = "fbs" => \A p \in Kept(Fbs) : p <= lastID => IsStored(p)
  /\ pc = "upsertFbs" => \A p \in Kept(Fbs) :
       \/ IsStored(p) \/ p \in DOMAIN items
       \/ more /\ \A q \in DOMAIN items : q < p

FbsDone == pc = "log" /\ errMsg # "fbs" => Stored(Fbs)

LogInv ==
  WalkTypeOK /\ BegunInWindow /\ StartsAnew /\ PageNew /\ FboWalk /\ FboDone /\ FbsWalk /\ FbsDone

LEMMA LogInvImpliesLogIsTrue == LogInv => LogIsTrue
  BY DEF LogInv, FboDone, FbsDone, LogIsTrue

LEMMA StoredIsAll == \A S : Stored(S) <=> \A p \in Kept(S) : IsStored(p)
  BY DEF Stored, Kept, IsStored

\* What was there at the start is in the window of its scheme, and there is a
\* number for its place.
LEMMA KeptInWindow ==
  ASSUME LogInv
  PROVE  /\ \A p \in Kept(Fbo) : p \in InWindow(Fbo) /\ FboRank(p) \in Nat
         /\ \A p \in Kept(Fbs) : p \in InWindow(Fbs)
         /\ \A p \in DOMAIN begun : p \in Postings /\ p \in Nat /\ p \in 1..to
         /\ \A p \in DOMAIN begun : version[p] \in Nat /\ rows[p] \in Nat /\ begun[p] \in Nat
<1>1. TypeOK /\ to \in Nat /\ placed \in Nat /\ changes \in Nat
  BY WalkType DEF LogInv, WalkTypeOK
<1>2. DOMAIN begun \subseteq listed /\ DOMAIN begun \subseteq 1..to /\ to \in 0..placed
      /\ placed \in 0..Cardinality(Postings)
  BY <1>1 DEF LogInv, BegunInWindow, TypeOK
<1>3. \A p \in DOMAIN begun : p \in Nat /\ p <= to /\ p \in 1..Cardinality(Postings)
  BY <1>1, <1>2, Numbers
<1>4. \A p \in DOMAIN begun : p \in Postings
  BY <1>3, PostingAssumption
<1>5. \A p \in Kept(Fbo) : p \in InWindow(Fbo)
  BY <1>1, <1>2, <1>3 DEF Kept, InWindow
<1>6. \A p \in Kept(Fbs) : p \in InWindow(Fbs)
  BY <1>1, <1>2, <1>3 DEF Kept, InWindow
<1>7. \A p \in InWindow(Fbo) : FboRank(p) \in Nat
  BY <1>1, FboPage DEF FboRank
<1>8. \A p \in Postings : version[p] \in Nat /\ rows[p] \in Nat
  <2>1. version \in [Postings -> 1..changes] /\ rows \in [Postings -> 0..changes]
    BY <1>1 DEF TypeOK
  <2> QED
    BY <1>1, <2>1
<1> QED
  BY <1>2, <1>3, <1>4, <1>5, <1>6, <1>7, <1>8 DEF LogInv, BegunInWindow

LEMMA InitLogInv == Init => LogInv
<1> SUFFICES ASSUME Init PROVE LogInv
  OBVIOUS
<1>1. WalkTypeOK
  BY InitWalkTypeOK
<1>2. pc = "idle" /\ offset = 0 /\ begun = <<>> /\ items = <<>>
  BY Zenon DEF Init
<1>3. DOMAIN begun = {}
  BY <1>2, EmptyFunction
<1> QED
  BY <1>1, <1>2, <1>3 DEF LogInv, BegunInWindow, StartsAnew, PageNew, FboWalk, FboDone, FbsWalk,
                          FbsDone, Kept

\* Steps that leave the walks, the rows and the window of FBO alone; of the
\* postings of the start some may be gone.
LEMMA QuietLogInv ==
  ASSUME LogInv, WalkTypeOK', UNCHANGED <<rows, pc, walk, to, errMsg>>,
         DOMAIN begun' \subseteq DOMAIN begun,
         \A p \in DOMAIN begun' : begun'[p] = begun[p] /\ version'[p] \in Nat /\ version'[p] >= version[p],
         ~shifted' => ~shifted, pc # "idle" /\ ~shifted' => InWindow(Fbo)' = InWindow(Fbo)
  PROVE  LogInv'
<1>1. \A S : Kept(S)' \subseteq S \cap DOMAIN begun
  BY DEF Kept
<1>2. \A p \in DOMAIN begun' : IsStored(p)' <=> IsStored(p)
  BY DEF IsStored
<1>3. BegunInWindow'
  <2> SUFFICES ASSUME NEW p \in DOMAIN begun' PROVE begun'[p] <= version'[p]
    BY DEF LogInv, BegunInWindow
  <2>1. begun'[p] = begun[p] /\ begun[p] \in Nat /\ begun[p] <= version[p] /\ version[p] \in Nat
    BY KeptInWindow DEF LogInv, BegunInWindow
  <2> QED
    BY <2>1
<1>4. StartsAnew' /\ PageNew'
  BY DEF LogInv, StartsAnew, PageNew, Kept
<1>5. FboWalk'
  <2> SUFFICES ASSUME ~shifted', pc \in {"fbo", "upsertFbo"}, FboWalk PROVE FboWalk'
    BY DEF LogInv, FboWalk
  <2>1. \A p : FboRank(p)' = FboRank(p)
    BY DEF FboRank, Rank
  <2> QED
    BY <1>2, <2>1 DEF FboWalk, Kept
<1>6. FboDone' /\ FbsWalk' /\ FbsDone'
  BY <1>2, StoredIsAll DEF LogInv, FboDone, FbsWalk, FbsDone, Stored, Kept, IsStored
<1> QED
  BY <1>3, <1>4, <1>5, <1>6 DEF LogInv

\* A posting that is created lies behind the window; one that goes from the FBO
\* list is what moves the others.
LEMMA WorldLogInv == LogInv /\ (Place \/ ChangePosting \/ Remove) => LogInv'
<1> SUFFICES ASSUME LogInv, Place \/ ChangePosting \/ Remove PROVE LogInv'
  OBVIOUS
<1>1. UNCHANGED <<rows, pc, walk, to, errMsg>>
  BY DEF Place, ChangePosting, Remove
<1>2. WalkTypeOK' /\ TypeOK /\ to \in Nat /\ placed \in Nat /\ changes \in Nat /\ to \in 0..placed
  BY WorldTypeOK, WalkType DEF LogInv, WalkTypeOK, TypeOK
<1>3. \A p \in DOMAIN begun : p \in Postings /\ version[p] \in Nat
  BY KeptInWindow
<1>4. CASE Place
  <2>1. placed' = placed + 1 /\ listed' = listed \cup {placed'} /\ UNCHANGED <<begun, version, shifted>>
    BY <1>4 DEF Place
  <2>2. ~(placed' <= to)
    BY <1>2, <2>1
  <2>3. InWindow(Fbo)' = InWindow(Fbo)
    BY <1>1, <2>1, <2>2 DEF InWindow
  <2> QED
    BY <1>1, <1>2, <1>3, <2>1, <2>3, QuietLogInv
<1>5. CASE ChangePosting
  <2>1. UNCHANGED <<listed, begun, shifted>> /\ changes' = changes + 1
        /\ \E p \in listed : version' = [version EXCEPT ![p] = changes']
    BY <1>5 DEF ChangePosting
  <2>2. ASSUME NEW p \in DOMAIN begun PROVE version'[p] \in Nat /\ version'[p] >= version[p]
    <3>1. p \in Postings /\ version[p] \in 1..changes
      BY <1>2, <1>3 DEF TypeOK
    <3>2. version'[p] = version[p] \/ version'[p] = changes + 1
      BY <1>2, <2>1, <3>1 DEF TypeOK
    <3> QED
      BY <1>2, <3>1, <3>2
  <2>3. InWindow(Fbo)' = InWindow(Fbo)
    BY <1>1, <2>1 DEF InWindow
  <2> QED
    BY <1>1, <1>2, <2>1, <2>2, <2>3, QuietLogInv
<1>6. CASE Remove
  <2>1. PICK p \in listed : /\ listed' = listed \ {p}
                            /\ begun' = [q \in DOMAIN begun \ {p} |-> begun[q]]
                            /\ shifted' = (shifted \/ (Running /\ p \in Fbo))
    BY <1>6 DEF Remove, Excuse
  <2>2. UNCHANGED version
    BY <1>6 DEF Remove
  <2>3. ~shifted' => ~shifted
    BY <2>1
  <2>4. pc # "idle" /\ ~shifted' => p \notin Fbo
    BY <2>1 DEF Running
  <2>5. pc # "idle" /\ ~shifted' => InWindow(Fbo)' = InWindow(Fbo)
    BY <1>1, <2>1, <2>4 DEF InWindow
  <2>6. DOMAIN begun' = DOMAIN begun \ {p} /\ \A q \in DOMAIN begun' : begun'[q] = begun[q]
    BY <2>1
  <2>7. \A q \in DOMAIN begun : version'[q] \in Nat /\ version'[q] >= version[q]
    BY <1>3, <2>2
  <2> QED
    BY <1>1, <1>2, <2>3, <2>5, <2>6, <2>7, QuietLogInv
<1> QED
  BY <1>4, <1>5, <1>6

LEMMA StartLogInv == LogInv /\ Start => LogInv'
<1> SUFFICES ASSUME LogInv, Start PROVE LogInv'
  OBVIOUS
<1>1. /\ UNCHANGED <<ozon, rows, walk, errMsg, live, shifted>> /\ pc' = "fbo" /\ to' = placed
      /\ pc = "idle" /\ begun' = [p \in listed |-> version[p]]
  BY DEF Start, Running
<1>2. WalkTypeOK' /\ TypeOK /\ placed \in Nat /\ changes \in Nat /\ to \in Nat
  BY StartTypeOK, WalkType DEF LogInv, WalkTypeOK
<1>3. listed \subseteq 1..placed /\ placed \in 0..Cardinality(Postings)
      /\ version \in [Postings -> 1..changes]
  BY <1>2 DEF TypeOK
<1>4. \A p \in listed : p \in Postings /\ version[p] \in Nat
  <2>1. 1..placed \subseteq 1..Cardinality(Postings)
    BY <1>3, Numbers
  <2>2. \A p \in Postings : version[p] \in Nat
    BY <1>2, <1>3
  <2> QED
    BY <1>3, <2>1, <2>2, PostingAssumption
<1>5. BegunInWindow'
  BY <1>1, <1>3, <1>4 DEF BegunInWindow
<1>6. StartsAnew' /\ PageNew' /\ FboWalk'
  <2>1. offset = 0 /\ DOMAIN items = {}
    BY <1>1 DEF LogInv, StartsAnew
  <2>2. TypeOK' /\ offset' = 0 /\ DOMAIN items' = {} /\ Fbo \in SUBSET Postings
    BY <1>1, <1>2, <2>1, Numbers DEF WalkTypeOK
  <2>3. \A p \in Kept(Fbo)' : FboRank(p)' \in Nat
    <3>1. \A p \in Kept(Fbo)' : p \in InWindow(Fbo)'
      BY <1>1, <1>3, <1>4, Numbers DEF Kept, InWindow
    <3>2. InWindow(Fbo)' \in SUBSET Postings
      BY <2>2, Numbers DEF InWindow
    <3> QED
      BY <3>1, <3>2, RankType DEF FboRank
  <2> QED
    BY <1>1, <2>2, <2>3 DEF StartsAnew, PageNew, FboWalk, Kept
<1> QED
  BY <1>1, <1>2, <1>5, <1>6 DEF LogInv, FboDone, FbsWalk, FbsDone

\* A run that is over leaves nothing to be said.
LEMMA EndRunLogInv ==
  ASSUME LogInv, EndRun, UNCHANGED <<ozon, rows>>
  PROVE  LogInv'
<1>1. WalkTypeOK'
  BY EndRunTypeOK DEF LogInv
<1>2. pc' = "idle" /\ offset' = 0 /\ DOMAIN items' = {} /\ DOMAIN begun' = {}
  BY EmptyFunction DEF EndRun, NewWalk
<1> QED
  BY <1>1, <1>2 DEF LogInv, BegunInWindow, StartsAnew, PageNew, FboWalk, FboDone, FbsWalk, FbsDone,
                    Kept

\* The end of a scheme whose postings are stored, or that failed.
LEMMA EndOfSchemeLogInv ==
  ASSUME LogInv, WalkTypeOK', NEW scheme \in {"fbo", "fbs"}, EndOfScheme(scheme),
         UNCHANGED <<ozon, to, live, shifted>>, DOMAIN begun' \subseteq DOMAIN begun,
         \A p \in DOMAIN begun' : begun'[p] = begun[p] /\ (IsStored(p) => IsStored(p)'),
         scheme = "fbs" => pc \in {"fbs", "upsertFbs"},
         \/ errMsg' = scheme
         \/ /\ errMsg' = errMsg
            /\ scheme = "fbo" /\ ~shifted => Stored(Fbo)'
            /\ scheme = "fbs" => Stored(Fbs)'
  PROVE  LogInv'
<1>1. /\ pc' = (IF scheme = "fbo" THEN "fbs" ELSE "log")
      /\ lastID' = 0 /\ DOMAIN items' = {}
  BY EmptyFunction DEF EndOfScheme, NewWalk
<1>2. BegunInWindow'
  BY DEF LogInv, BegunInWindow
<1>3. StartsAnew' /\ PageNew' /\ FboWalk'
  BY <1>1 DEF StartsAnew, PageNew, FboWalk, Kept
<1>4. FboDone'
  <2> SUFFICES ASSUME errMsg' = "", ~shifted PROVE Stored(Fbo)'
    BY DEF FboDone
  <2>1. CASE scheme = "fbo"
    BY <2>1
  <2>2. CASE scheme = "fbs"
    <3>1. errMsg = "" /\ Stored(Fbo)
      BY <2>2 DEF LogInv, FboDone
    <3>2. \A p \in Fbo \cap DOMAIN begun' : IsStored(p)'
      BY <3>1 DEF Stored, IsStored
    <3> QED
      BY <3>2 DEF Stored, IsStored
  <2> QED
    BY <2>1, <2>2
<1>5. FbsWalk'
  <2>1. \A p \in Fbs : ~(p <= 0)
    BY FbsNumbers
  <2> QED
    BY <1>1, <2>1 DEF FbsWalk, Kept
<1>6. FbsDone'
  BY <1>1 DEF FbsDone
<1> QED
  BY <1>2, <1>3, <1>4, <1>5, <1>6 DEF LogInv

\* A page of FBO: what is neither before it nor on it is for the next one.
LEMMA FetchFBOLogInv == LogInv /\ FetchFBOBatch => LogInv'
<1> SUFFICES ASSUME LogInv, FetchFBOBatch PROVE LogInv'
  OBVIOUS
<1>1. UNCHANGED <<ozon, rows, to, live, begun, shifted>> /\ pc = "fbo"
  BY DEF FetchFBOBatch
<1>2. WalkTypeOK' /\ TypeOK /\ offset \in Nat
  BY FetchFBOTypeOK, WalkType DEF LogInv, WalkTypeOK
<1>3. \A p \in DOMAIN begun : IsStored(p) => IsStored(p)'
  BY <1>1 DEF IsStored
<1>4. CASE Fail("fbo")
  BY <1>1, <1>2, <1>3, <1>4, EndOfSchemeLogInv DEF Fail
<1> DEFINE list == InWindow(Fbo)
           page == {p \in list : Rank(p, list) \in offset..offset + Limit - 1}
           more_ == Cardinality(page) = Limit /\ offset + Cardinality(page) < Cardinality(list)
<1>5. CASE OnPage("fbo", page, more_) /\ UNCHANGED errMsg
  <2>1. /\ page \subseteq list
        /\ \A p \in list : Rank(p, list) >= offset /\ p \notin page =>
             more_ /\ Rank(p, list) >= offset + Cardinality(page)
    BY <1>2, FboPage
  <2>2. more_ => page # {}
    BY FS_EmptySet, Numbers
  <2>3. list \subseteq Postings
    BY <1>2, WindowType, Numbers
  <2> HIDE DEF page, more_, list
  <2>4. ASSUME NEW p \in Kept(Fbo), ~shifted
        PROVE  IsStored(p) \/ p \in page \/ (more_ /\ FboRank(p) >= offset + Cardinality(page))
    <3>1. p \in list /\ FboRank(p) = Rank(p, list) /\ FboRank(p) \in Nat
      BY KeptInWindow DEF FboRank, list
    <3>2. FboRank(p) < offset => IsStored(p)
      BY <1>1, <2>4 DEF LogInv, FboWalk
    <3> QED
      BY <1>2, <2>1, <3>1, <3>2
  <2>5. CASE page = {}
    <3>1. ~shifted => Stored(Fbo)
      BY <2>2, <2>4, <2>5, StoredIsAll
    <3>2. ~shifted => Stored(Fbo)'
      BY <1>1, <3>1 DEF Stored
    <3> QED
      BY <1>1, <1>2, <1>3, <1>5, <2>5, <3>2, EndOfSchemeLogInv DEF OnPage
  <2>6. CASE page # {}
    <3>1. /\ items' = [p \in page |-> version[p]] /\ more' = more_ /\ pc' = "upsertFbo"
          /\ UNCHANGED <<offset, lastID, errMsg>>
      BY <1>5, <2>6 DEF OnPage
    <3>2. DOMAIN items' = page
      BY <3>1
    <3>3. PageNew'
      BY <1>1, <3>1, <3>2 DEF PageNew, Kept, LogInv, BegunInWindow
    <3>4. \A p : FboRank(p)' = FboRank(p)
      BY <1>1 DEF FboRank, Rank, InWindow
    <3>5. FboWalk'
      BY <1>1, <2>4, <3>1, <3>2, <3>4 DEF FboWalk, Kept, IsStored
    <3> QED
      BY <1>1, <1>2, <3>1, <3>3, <3>5
         DEF LogInv, BegunInWindow, StartsAnew, FboDone, FbsWalk, FbsDone
  <2> QED
    BY <2>5, <2>6
<1> QED
  BY <1>4, <1>5 DEF FetchFBOBatch

\* A page of FBS: what is neither up to last_id nor on it lies behind it.
LEMMA FetchFBSLogInv == LogInv /\ FetchFBSBatch => LogInv'
<1> SUFFICES ASSUME LogInv, FetchFBSBatch PROVE LogInv'
  OBVIOUS
<1>1. UNCHANGED <<ozon, rows, to, live, begun, shifted>> /\ pc = "fbs"
  BY DEF FetchFBSBatch
<1>2. WalkTypeOK' /\ TypeOK
  BY FetchFBSTypeOK DEF LogInv, WalkTypeOK
<1>3. \A p \in DOMAIN begun : IsStored(p) => IsStored(p)'
  BY <1>1 DEF IsStored
<1>4. CASE Fail("fbs")
  BY <1>1, <1>2, <1>3, <1>4, EndOfSchemeLogInv DEF Fail
<1> DEFINE behind == {p \in InWindow(Fbs) : p > lastID}
           page == {p \in behind : Rank(p, behind) < Limit}
           full == Cardinality(page) = Limit
<1>5. /\ page \subseteq behind /\ behind \subseteq InWindow(Fbs)
      /\ \A p \in behind \ page : full /\ page # {} /\ \A q \in page : q < p
  BY <1>2, FbsPage
<1>6. ASSUME NEW has_next \in {page # behind, full}, OnPage("fbs", page, has_next /\ full),
             UNCHANGED errMsg
      PROVE  LogInv'
  <2>1. lastID \in Nat
    <3>1. lastID \in {0} \cup Fbs
      BY <1>2, WalkType
    <3> QED
      BY <3>1, Numbers
  <2>2. \A p \in Kept(Fbs) : p <= lastID \/ p \in behind
    BY <2>1, KeptInWindow, Numbers DEF Kept
  <2>3. behind # page => page # {} /\ has_next /\ full
    BY <1>6, <1>5
  <2> HIDE DEF page, full, behind
  <2>4. ASSUME NEW p \in Kept(Fbs)
        PROVE  IsStored(p) \/ p \in page \/ (has_next /\ full /\ \A q \in page : q < p)
    <3>1. p <= lastID => IsStored(p)
      BY <1>1 DEF LogInv, FbsWalk
    <3> QED
      BY <1>5, <2>2, <2>3, <3>1
  <2>5. CASE page = {}
    <3>1. Stored(Fbs)
      <4>1. behind = {}
        BY <2>3, <2>5
      <4> QED
        BY <1>1, <2>2, <4>1, StoredIsAll DEF LogInv, FbsWalk
    <3>2. Stored(Fbs)'
      BY <1>1, <3>1 DEF Stored
    <3> QED
      BY <1>1, <1>2, <1>3, <1>6, <2>5, <3>2, EndOfSchemeLogInv DEF OnPage
  <2>6. CASE page # {}
    <3>1. /\ items' = [p \in page |-> version[p]] /\ more' = (has_next /\ full)
          /\ pc' = "upsertFbs" /\ UNCHANGED <<offset, lastID, errMsg>>
      BY <1>6, <2>6 DEF OnPage
    <3>2. DOMAIN items' = page
      BY <3>1
    <3>3. PageNew'
      BY <1>1, <3>1, <3>2 DEF PageNew, Kept, LogInv, BegunInWindow
    <3>4. FbsWalk'
      BY <1>1, <2>4, <3>1, <3>2 DEF FbsWalk, Kept, IsStored
    <3>5. FboDone'
      BY <1>1, <3>1 DEF LogInv, FboDone, Stored
    <3> QED
      BY <1>1, <1>2, <3>1, <3>3, <3>4, <3>5
         DEF LogInv, BegunInWindow, StartsAnew, FboWalk, FbsDone
  <2> QED
    BY <2>5, <2>6
<1> QED
  BY <1>4, <1>6 DEF FetchFBSBatch

\* A page that is stored is no older than the start, and one that is lost is not
\* answered for, so nothing goes back.
LEMMA StoreKeeps ==
  ASSUME LogInv, Acknowledged \/ ((StorePage \/ UNCHANGED rows) /\ UNCHANGED begun)
  PROVE  /\ DOMAIN begun' \subseteq DOMAIN begun
         /\ \A p \in DOMAIN begun' : begun'[p] = begun[p] /\ (IsStored(p) => IsStored(p)')
         /\ Acknowledged => \A p \in DOMAIN items \cap DOMAIN begun' : IsStored(p)'
<1>1. /\ DOMAIN begun' \subseteq DOMAIN begun
      /\ \A p \in DOMAIN begun' : begun'[p] = begun[p]
  BY StoreType DEF LogInv, WalkTypeOK
<1>2. \A p \in DOMAIN items \cap DOMAIN begun : p \in Postings /\ items[p] >= begun[p]
  BY KeptInWindow DEF LogInv, PageNew, Kept
<1>3. \A p \in DOMAIN begun : p \in Postings
  BY KeptInWindow
<1>4. CASE StorePage
  <2>1. \A p \in DOMAIN begun : rows'[p] = (IF p \in DOMAIN items THEN items[p] ELSE rows[p])
    BY <1>3, <1>4 DEF StorePage
  <2>2. \A p \in DOMAIN items \cap DOMAIN begun' : IsStored(p)'
    BY <1>1, <1>2, <2>1 DEF IsStored
  <2> QED
    BY <1>1, <2>1, <2>2 DEF IsStored
<1>5. CASE UNCHANGED rows
  <2>1. Acknowledged /\ ~StorePage => DOMAIN items \cap DOMAIN begun' = {}
    BY DEF Acknowledged, Excuse
  <2> QED
    BY <1>1, <1>4, <1>5, <2>1 DEF IsStored
<1> QED
  BY <1>4, <1>5 DEF Acknowledged

LEMMA UpsertFBOLogInv == LogInv /\ UpsertFBO => LogInv'
<1> SUFFICES ASSUME LogInv, UpsertFBO PROVE LogInv'
  OBVIOUS
<1>1. UNCHANGED <<ozon, to, live, shifted>> /\ pc = "upsertFbo"
      /\ (Acknowledged \/ ((StorePage \/ UNCHANGED rows) /\ UNCHANGED begun))
  BY DEF UpsertFBO
<1>2. WalkTypeOK' /\ TypeOK /\ offset \in Nat
  BY UpsertTypeOK, WalkType DEF LogInv, WalkTypeOK
<1>3. /\ DOMAIN begun' \subseteq DOMAIN begun
      /\ \A p \in DOMAIN begun' : begun'[p] = begun[p] /\ (IsStored(p) => IsStored(p)')
      /\ Acknowledged => \A p \in DOMAIN items \cap DOMAIN begun' : IsStored(p)'
  BY <1>1, StoreKeeps
<1>4. CASE Fail("fbo")
  BY <1>1, <1>2, <1>3, <1>4, EndOfSchemeLogInv DEF Fail
<1>5. ASSUME Acknowledged, NEW p \in Fbo \cap DOMAIN begun', ~shifted
      PROVE  IsStored(p)' \/ (more /\ FboRank(p) >= offset + Cardinality(DOMAIN items))
  BY <1>1, <1>3, <1>5 DEF LogInv, FboWalk, Kept
<1>6. CASE Acknowledged /\ ~more /\ EndOfScheme("fbo") /\ UNCHANGED errMsg
  <2>1. ~shifted => Stored(Fbo)'
    BY <1>1, <1>5, <1>6 DEF Stored, Kept, IsStored
  <2> QED
    BY <1>1, <1>2, <1>3, <1>6, <2>1, EndOfSchemeLogInv
<1>7. CASE /\ Acknowledged /\ more
           /\ pc' = "fbo" /\ NextFBO /\ items' = <<>> /\ UNCHANGED <<lastID, more, errMsg>>
  <2>1. DOMAIN items' = {}
    BY <1>7, EmptyFunction
  <2>2. offset' = offset + Cardinality(DOMAIN items) /\ Cardinality(DOMAIN items) \in Nat
    BY <1>1, <1>7 DEF NextFBO, LogInv, WalkTypeOK, PageFits
  <2>3. \A p : FboRank(p)' = FboRank(p)
    BY <1>1 DEF FboRank, Rank, InWindow
  <2>4. FboWalk'
    <3> SUFFICES ASSUME ~shifted, NEW p \in Fbo \cap DOMAIN begun', FboRank(p) < offset'
                 PROVE  IsStored(p)'
      BY <1>1, <1>7, <2>3 DEF FboWalk, Kept
    <3>1. FboRank(p) \in Nat
      BY <1>3, KeptInWindow DEF Kept
    <3> QED
      BY <1>2, <1>5, <1>7, <2>2, <3>1
  <2>5. BegunInWindow'
    BY <1>1, <1>3 DEF LogInv, BegunInWindow
  <2> QED
    BY <1>1, <1>2, <1>7, <2>1, <2>4, <2>5
       DEF LogInv, BegunInWindow, StartsAnew, PageNew, Kept, FboDone, FbsWalk, FbsDone
<1> QED
  BY <1>4, <1>6, <1>7 DEF UpsertFBO

LEMMA UpsertFBSLogInv == LogInv /\ UpsertFBS => LogInv'
<1> SUFFICES ASSUME LogInv, UpsertFBS PROVE LogInv'
  OBVIOUS
<1>1. UNCHANGED <<ozon, to, live, shifted>> /\ pc = "upsertFbs"
      /\ (Acknowledged \/ ((StorePage \/ UNCHANGED rows) /\ UNCHANGED begun))
  BY DEF UpsertFBS
<1>2. WalkTypeOK' /\ TypeOK
  BY UpsertTypeOK DEF LogInv, WalkTypeOK
<1>3. /\ DOMAIN begun' \subseteq DOMAIN begun
      /\ \A p \in DOMAIN begun' : begun'[p] = begun[p] /\ (IsStored(p) => IsStored(p)')
      /\ Acknowledged => \A p \in DOMAIN items \cap DOMAIN begun' : IsStored(p)'
  BY <1>1, StoreKeeps
<1>4. CASE Fail("fbs")
  BY <1>1, <1>2, <1>3, <1>4, EndOfSchemeLogInv DEF Fail
<1>5. ASSUME Acknowledged, NEW p \in Fbs \cap DOMAIN begun'
      PROVE  IsStored(p)' \/ (more /\ \A q \in DOMAIN items : q < p)
  BY <1>1, <1>3, <1>5 DEF LogInv, FbsWalk, Kept
<1>6. CASE Acknowledged /\ ~more /\ EndOfScheme("fbs") /\ UNCHANGED errMsg
  <2>1. Stored(Fbs)'
    BY <1>1, <1>5, <1>6 DEF Stored, Kept, IsStored
  <2> QED
    BY <1>1, <1>2, <1>3, <1>6, <2>1, EndOfSchemeLogInv
<1>7. CASE /\ Acknowledged
           /\ pc' = "fbs" /\ NextFBS /\ items' = <<>> /\ UNCHANGED <<offset, more, errMsg>>
  <2>1. DOMAIN items' = {}
    BY <1>7, EmptyFunction
  <2>2. FbsWalk'
    <3> SUFFICES ASSUME NEW p \in Fbs \cap DOMAIN begun', p <= lastID' PROVE IsStored(p)'
      BY <1>1, <1>7 DEF FbsWalk, Kept
    <3>1. lastID' \in DOMAIN items /\ lastID' \in Nat /\ p \in Nat
      BY <1>1, <1>7, KeptInWindow, Numbers DEF NextFBS, LogInv, WalkTypeOK, PageFits, Kept
    <3>2. ~(lastID' < p)
      BY <3>1
    <3> QED
      BY <1>5, <1>7, <3>1, <3>2
  <2>3. FboDone'
    <3> SUFFICES ASSUME errMsg = "", ~shifted PROVE Stored(Fbo)'
      BY <1>1, <1>7 DEF FboDone
    <3>1. Stored(Fbo)
      BY <1>1 DEF LogInv, FboDone
    <3> QED
      BY <1>1, <1>3, <3>1 DEF Stored, IsStored
  <2>4. BegunInWindow'
    BY <1>1, <1>3 DEF LogInv, BegunInWindow
  <2> QED
    BY <1>1, <1>2, <1>7, <2>1, <2>2, <2>3, <2>4
       DEF LogInv, BegunInWindow, StartsAnew, PageNew, Kept, FboWalk, FbsDone
<1> QED
  BY <1>4, <1>6, <1>7 DEF UpsertFBS

\* Steps that only count a fault or cancel the context.
LEMMA IdleLogInv ==
  ASSUME LogInv, WalkTypeOK', UNCHANGED <<ozon, rows, pc, walk, to, errMsg, begun, shifted>>
  PROVE  LogInv'
<1>1. InWindow(Fbo)' = InWindow(Fbo)
  BY DEF InWindow
<1>2. \A p \in DOMAIN begun : version[p] \in Nat
  BY KeptInWindow
<1> QED
  BY <1>1, <1>2, QuietLogInv

LEMMA NextLogInv == LogInv /\ [SyncNext]_syncVars => LogInv'
<1> SUFFICES ASSUME LogInv, [SyncNext]_syncVars PROVE LogInv'
  OBVIOUS
<1>1. ASSUME Crash \/ InsertOzonLog PROVE LogInv'
  BY <1>1, EndRunLogInv DEF Crash, InsertOzonLog
<1>2. ASSUME Cancel \/ UNCHANGED syncVars PROVE LogInv'
  <2>1. WalkTypeOK'
    BY NextWalkTypeOK DEF LogInv
  <2> QED
    BY <1>2, <2>1, IdleLogInv DEF Cancel, syncVars
<1> QED
  BY <1>1, <1>2, WorldLogInv, StartLogInv, FetchFBOLogInv, FetchFBSLogInv, UpsertFBOLogInv,
     UpsertFBSLogInv DEF SyncNext, SyncStep

\* Whatever is created, changes, leaves or fails during a run, its log is true:
\* a walk without an error has stored what was in the window at the start at
\* least as new as it was then, but for pages whose commit failed unnoticed, and
\* unless, for FBO, a posting has left its list.
THEOREM LogAlwaysTrue == SyncSpec => []LogIsTrue
  BY InitLogInv, NextLogInv, LogInvImpliesLogIsTrue, PTL DEF SyncSpec
=============================================================================
