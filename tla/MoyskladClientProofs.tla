------------------------ MODULE MoyskladClientProofs ------------------------
(***************************************************************************)
(* Proofs about MoyskladClient for every length of the minute, every pair  *)
(* of limits and any number of pages and retries: how many calls can be    *)
(* first sent within a minute.                                             *)
(***************************************************************************)
EXTENDS MoyskladClient, FiniteSetTheorems, WellFoundedInduction, TLAPS

USE DEF history

-----------------------------------------------------------------------------
(* Numbers and ages. *)

LEMMA MaxOfTwo ==
  ASSUME NEW a \in Nat, NEW b \in Nat
  PROVE  /\ Max({a, b}) \in Nat /\ a <= Max({a, b}) /\ b <= Max({a, b})
         /\ Min({a, b}) \in Nat /\ \A n \in Nat : n <= a /\ n <= b => n <= Min({a, b})
<1>1. \E x \in {a, b} : \A y \in {a, b} : x >= y
  BY Z3
<1>2. \E x \in {a, b} : \A y \in {a, b} : x =< y
  BY Z3
<1>3. Max({a, b}) \in {a, b} /\ \A y \in {a, b} : Max({a, b}) >= y
  BY <1>1, Zenon DEF Max
<1>4. Min({a, b}) \in {a, b} /\ \A y \in {a, b} : Min({a, b}) =< y
  BY <1>2, Zenon DEF Min
<1> QED
  BY <1>3, <1>4

LEMMA Numbers ==
  /\ {Window, LightLimit, HeavyLimit} \subseteq Nat \ {0} /\ {RetryMax, StorePages} \subseteq Nat
  /\ HeaviestMinute \in Nat /\ HeavyLimit <= HeaviestMinute
  /\ \A n \in Nat : n <= StorePages /\ n <= LightLimit => n <= HeaviestMinute
<1>1. /\ {Window, LightLimit, HeavyLimit} \subseteq Nat \ {0}
      /\ {RetryMax, StorePages} \subseteq Nat
  BY NumberAssumption
<1> DEFINE m == Min({StorePages, LightLimit})
<1>2. m \in Nat /\ \A n \in Nat : n <= StorePages /\ n <= LightLimit => n <= m
  BY <1>1, MaxOfTwo
<1> HIDE DEF m
<1>3. Max({HeavyLimit, m}) \in Nat /\ HeavyLimit <= Max({HeavyLimit, m}) /\ m <= Max({HeavyLimit, m})
  BY <1>1, <1>2, MaxOfTwo
<1> DEFINE M == Max({HeavyLimit, m})
<1>4. HeaviestMinute = M
  BY DEF HeaviestMinute, m
<1> HIDE DEF M
<1>5. M \in Nat /\ HeavyLimit <= M /\ m <= M
  BY <1>3 DEF M
<1>6. \A n \in Nat : n <= StorePages /\ n <= LightLimit => n <= M
  BY <1>2, <1>5
<1> QED
  BY <1>1, <1>4, <1>5, <1>6

LEMMA AgesType ==
  ASSUME NEW A \in SUBSET Ages
  PROVE  /\ IsFiniteSet(A) /\ Cardinality(A) \in Nat
         /\ \A a \in A : a \in Nat /\ a < Window
         /\ \A B \in SUBSET A : IsFiniteSet(B) /\ Cardinality(B) \in Nat
                                /\ Cardinality(B) <= Cardinality(A)
<1>1. IsFiniteSet(Ages)
  BY FS_Interval, Numbers DEF Ages
<1>2. IsFiniteSet(A)
  BY <1>1, FS_Subset
<1>3. \A a \in A : a \in Nat /\ a < Window
  BY Numbers DEF Ages
<1> QED
  BY <1>2, <1>3, FS_Subset, FS_CardinalityType

\* Of a set of ages that is not empty one is the greatest, and the code's choice
\* of it is that one.
LEMMA Oldest ==
  ASSUME NEW A \in SUBSET Ages, A # {}
  PROVE  Max(A) \in A /\ \A x \in A : x <= Max(A)
<1> DEFINE R == OpToRel(<, Nat)
           U == {Window - a : a \in A}
<1>1. IsWellFoundedOn(R, Nat)
  BY NatLessThanWellFounded, Zenon
<1>2. \A x, y \in Nat : y < x => <<y, x>> \in R
  BY DEF OpToRel
<1>3. Window \in Nat /\ \A a \in A : a \in Nat /\ a < Window
  BY AgesType, Numbers
<1>4. U \in SUBSET Nat /\ U # {}
  BY <1>3
<1> HIDE DEF R
<1>5. PICK u \in U : \A v \in U : <<v, u>> \notin R
  <2> HIDE DEF U
  <2> QED
    BY <1>1, <1>4, WFMin
<1>6. PICK x \in A : u = Window - x
  BY DEF U
<1>7. ASSUME NEW y \in A PROVE x >= y
  <2>1. Window - y \in U
    OBVIOUS
  <2>2. ~(Window - y < Window - x)
    BY <1>2, <1>4, <1>5, <1>6, <2>1
  <2> QED
    BY <1>3, <2>2
<1>8. Max(A) \in A /\ \A y \in A : Max(A) >= y
  <2>1. \E z \in A : \A y \in A : z >= y
    BY <1>7
  <2> QED
    BY <2>1, Zenon DEF Max
<1> QED
  BY <1>3, <1>8

\* The ages below an age.
Younger(A, x) == {a \in A : a < x}

LEMMA AddsOne ==
  ASSUME NEW S, IsFiniteSet(S)
  PROVE  /\ IsFiniteSet(S \cup {0}) /\ Cardinality(S \cup {0}) \in Nat
         /\ Cardinality(S \cup {0}) <= Cardinality(S) + 1
<1>1. IsFiniteSet(S \cup {0}) /\ Cardinality(S) \in Nat /\ Cardinality(S \cup {0}) \in Nat
  BY FS_AddElement, FS_CardinalityType
<1>2. Cardinality(S \cup {0}) = IF 0 \in S THEN Cardinality(S) ELSE Cardinality(S) + 1
  BY FS_AddElement
<1> QED
  BY <1>1, <1>2

LEMMA YoungerType ==
  ASSUME NEW A \in SUBSET Ages, NEW x
  PROVE  /\ Younger(A, x) \subseteq A /\ IsFiniteSet(Younger(A, x))
         /\ Cardinality(Younger(A, x)) \in Nat /\ Cardinality(Younger(A, x)) <= Cardinality(A)
<1>1. Younger(A, x) \subseteq A
  BY DEF Younger
<1> QED
  BY <1>1, AgesType

\* As many are a tick older as there were.
LEMMA Shift ==
  ASSUME NEW A \in SUBSET Ages
  PROVE  LET B == {a + 1 : a \in A}
         IN  IsFiniteSet(B) /\ Cardinality(B) = Cardinality(A)
<1> DEFINE B == {a + 1 : a \in A}
           f == [a \in A |-> a + 1]
<1>1. IsFiniteSet(A) /\ \A a \in A : a \in Nat
  BY AgesType
<1>2. f \in [A -> B] /\ IsInjective(f)
  BY <1>1 DEF IsInjective
<1>3. \A b \in B : \E a \in A : f[a] = b
  OBVIOUS
<1>4. f \in Bijection(A, B)
  BY <1>2, <1>3 DEF Bijection, Injection, Surjection
<1>5. ExistsBijection(A, B)
  BY <1>4 DEF ExistsBijection
<1> QED
  BY <1>1, <1>5, FS_Bijection

\* Time takes nothing from what is younger, and adds nothing.
LEMMA OlderFits ==
  ASSUME NEW A \in SUBSET Ages
  PROVE  /\ Older(A) \in SUBSET Ages /\ Cardinality(Older(A)) <= Cardinality(A)
         /\ \A x \in Ages : Cardinality(Younger(Older(A), x + 1)) = Cardinality(Younger(A, x))
         /\ \A y \in Older(A) : y - 1 \in A
<1>1. Window \in Nat \ {0} /\ \A a \in A : a \in Nat /\ a < Window
  BY AgesType, Numbers
<1>2. \A y \in Older(A) : y - 1 \in A /\ y \in Nat /\ y < Window
  BY <1>1 DEF Older
<1>3. Older(A) \in SUBSET Ages
  BY <1>1, <1>2 DEF Ages
<1>4. Cardinality(Older(A)) <= Cardinality(A)
  <2> DEFINE B == {a + 1 : a \in A}
  <2>1. IsFiniteSet(B) /\ Cardinality(B) = Cardinality(A)
    BY Shift
  <2>2. Older(A) \subseteq B
    BY DEF Older
  <2> HIDE DEF B
  <2> QED
    BY <2>1, <2>2, FS_Subset
<1>5. ASSUME NEW x \in Ages
      PROVE  Cardinality(Younger(Older(A), x + 1)) = Cardinality(Younger(A, x))
  <2>1. x \in Nat /\ x < Window
    BY Numbers DEF Ages
  <2>2. Younger(Older(A), x + 1) = {a + 1 : a \in Younger(A, x)}
    BY <1>1, <2>1 DEF Younger, Older
  <2>3. Younger(A, x) \in SUBSET Ages
    BY YoungerType
  <2> QED
    BY <2>2, <2>3, Shift
<1> QED
  BY <1>2, <1>3, <1>4, <1>5

-----------------------------------------------------------------------------
(* Type correctness. *)

LEMMA InitTypeOK == Init => TypeOK
<1> SUFFICES ASSUME Init PROVE TypeOK
  OBVIOUS
<1>1. /\ timestamps = {} /\ sentLight = {} /\ sentHeavy = {} /\ pc = "idle" /\ isHeavy = FALSE
      /\ pages = 0 /\ left = 0 /\ retries = 0 /\ live = TRUE
  BY Zenon DEF Init
<1>2. 0 \in 0..StorePages /\ 0 \in 0..Window /\ 0 \in 0..RetryMax
  BY Numbers
<1>3. isHeavy \in BOOLEAN /\ live \in BOOLEAN
  BY <1>1, Zenon
<1> QED
  BY <1>1, <1>2, <1>3 DEF TypeOK

LEMMA ReturnType ==
  ASSUME NEW ok \in BOOLEAN, Return(ok)
  PROVE  pc' \in {"idle", "over"} /\ retries' = 0
  BY DEF Return

\* What the steps of a call do to its wait, its kind and its page.
LEMMA CheckRateLimitStep ==
  ASSUME TypeOK, CheckRateLimit
  PROVE  /\ isHeavy' \in BOOLEAN /\ (isHeavy => isHeavy')
         /\ ~isHeavy' => ~isHeavy /\ pages' = pages + 1 /\ pages' \in 0..StorePages
         /\ isHeavy' => pages' = pages
         /\ timestamps' = timestamps \cup {0} /\ 0 \notin timestamps
         /\ timestamps' \in SUBSET Ages /\ Cardinality(timestamps') = Cardinality(timestamps) + 1
         /\ \/ /\ Cardinality(timestamps) < Limit(isHeavy') /\ left' = 0 /\ pc' = "request"
            \/ /\ Cardinality(timestamps) >= Limit(isHeavy') /\ left' = Window - Max(timestamps)
               /\ left' \in 1..Window /\ pc' = "wait" /\ timestamps # {}
               /\ Max(timestamps) \in Ages
<1>1. timestamps \in SUBSET Ages /\ pages \in 0..StorePages
      /\ isHeavy \in BOOLEAN
  BY Zenon DEF TypeOK
<1>2. isHeavy' \in BOOLEAN /\ (isHeavy => isHeavy') /\ (~isHeavy' => ~isHeavy /\ pages # StorePages)
  <2>1. isHeavy' \in (IF isHeavy \/ pages = StorePages THEN {TRUE}
                      ELSE IF pages = 0 THEN {FALSE} ELSE BOOLEAN)
    BY DEF CheckRateLimit
  <2> QED
    BY <2>1
<1>3. pages' = IF isHeavy' THEN pages ELSE pages + 1
  BY DEF CheckRateLimit
<1>4. ~isHeavy' => pages' = pages + 1 /\ pages' \in 0..StorePages
  BY <1>1, <1>2, <1>3, Numbers
<1>5. 0 \notin timestamps /\ timestamps' = timestamps \cup {0}
  BY DEF CheckRateLimit
<1>6. timestamps' \in SUBSET Ages /\ Cardinality(timestamps') = Cardinality(timestamps) + 1
  BY <1>1, <1>5, AgesType, FS_AddElement, Numbers DEF Ages
<1>7. /\ left' = IF Cardinality(timestamps) >= Limit(isHeavy') THEN Window - Max(timestamps) ELSE 0
      /\ pc' = IF left' > 0 THEN "wait" ELSE "request"
  BY DEF CheckRateLimit, WaitDuration
<1>8. Limit(isHeavy') \in Nat \ {0} /\ Cardinality(timestamps) \in Nat
  BY <1>1, Numbers, AgesType DEF Limit
<1>9. CASE Cardinality(timestamps) < Limit(isHeavy')
  <2>1. left' = 0 /\ pc' = "request"
    BY <1>7, <1>8, <1>9
  <2> QED
    BY <1>2, <1>3, <1>4, <1>5, <1>6, <1>9, <2>1
<1>10. CASE Cardinality(timestamps) >= Limit(isHeavy')
  <2>1. timestamps # {}
    BY <1>8, <1>10, FS_EmptySet
  <2>2. Max(timestamps) \in timestamps /\ Max(timestamps) \in Nat /\ Max(timestamps) < Window
    BY <1>1, <2>1, Oldest, AgesType
  <2>3. left' = Window - Max(timestamps) /\ left' \in 1..Window /\ pc' = "wait"
    BY <1>7, <1>10, <2>2, Numbers
  <2> QED
    BY <1>1, <1>2, <1>3, <1>4, <1>5, <1>6, <1>10, <2>1, <2>2, <2>3
<1> QED
  BY <1>8, <1>9, <1>10

LEMMA NextTypeOK == TypeOK /\ [Next]_vars => TypeOK'
<1> SUFFICES ASSUME TypeOK, [Next]_vars PROVE TypeOK'
  OBVIOUS
<1>0. /\ timestamps \in SUBSET Ages /\ sentLight \in SUBSET Ages /\ sentHeavy \in SUBSET Ages
      /\ pages \in 0..StorePages /\ left \in 0..Window /\ retries \in 0..RetryMax
      /\ Window \in Nat \ {0} /\ RetryMax \in Nat /\ StorePages \in Nat
      /\ 0 \in 0..RetryMax /\ 0 \in 0..StorePages /\ 0 \in 0..Window /\ 0 \in Ages
  BY Numbers DEF TypeOK, Ages
<1>1. CASE Tick
  <2>1. left' \in 0..Window
    BY <1>0, <1>1 DEF Tick
  <2>2. timestamps' \in SUBSET Ages /\ sentLight' \in SUBSET Ages /\ sentHeavy' \in SUBSET Ages
    BY <1>0, <1>1, OlderFits DEF Tick
  <2> QED
    BY <1>1, <2>1, <2>2 DEF Tick, TypeOK
<1>2. CASE Cancel
  BY <1>2 DEF Cancel, TypeOK
<1>3. CASE Start
  BY <1>0, <1>3 DEF Start, TypeOK
<1>4. CASE CheckRateLimit
  <2>1. /\ timestamps' \in SUBSET Ages /\ isHeavy' \in BOOLEAN /\ left' \in 0..Window
        /\ pages' \in 0..StorePages /\ pc' \in {"wait", "request"}
    BY <1>0, <1>4, CheckRateLimitStep
  <2> QED
    BY <1>4, <2>1 DEF CheckRateLimit, TypeOK
<1>5. CASE Wait \/ Pause \/ GiveUp
  <2>1. pc' \in {"idle", "request", "over"} /\ retries' \in 0..RetryMax
    BY <1>0, <1>5, ReturnType DEF Wait, Pause, GiveUp
  <2> QED
    BY <1>5, <2>1 DEF Wait, Pause, GiveUp, TypeOK
<1>6. CASE Request
  <2>1. pc' \in {"idle", "pause", "over"} /\ retries' \in 0..RetryMax
    <3>1. CASE \E ok \in BOOLEAN : Return(ok)
      BY <1>0, <3>1, ReturnType
    <3>2. CASE Retry
      BY <1>0, <3>2 DEF Retry, Return
    <3> QED
      BY <1>6, <3>1, <3>2 DEF Request
  <2>2. sentLight' \in SUBSET Ages /\ sentHeavy' \in SUBSET Ages
    BY <1>0, <1>6 DEF Request
  <2> QED
    BY <1>6, <2>1, <2>2 DEF Request, TypeOK
<1>7. CASE UNCHANGED vars
  BY <1>7 DEF vars, TypeOK
<1> QED
  BY <1>1, <1>2, <1>3, <1>4, <1>5, <1>6, <1>7 DEF Next, Step

\* Every variable keeps its type; in particular no wait is longer than a minute
\* and no call has more than RetryMax retries.
THEOREM TypeCorrect == Spec => []TypeOK
  BY InitTypeOK, NextTypeOK, PTL DEF Spec

-----------------------------------------------------------------------------
(* The calls of a minute. *)

\* A call that has its timestamp and has not been sent.
Unsent == IF pc \in {"wait", "request"} /\ retries = 0 THEN 1 ELSE 0

\* A call gets its timestamp after the one before it was sent.  So for each call
\* sent after one of the minute, and one that waits to be, there is a timestamp
\* younger than it.
Ordered(sent) ==
  \A x \in sent : Cardinality(Younger(sent, x)) + Unsent <= Cardinality(Younger(timestamps, x))

\* What there can be of timestamps when no call waits, and, while one does, of
\* those that will be there after its wait.
Cap(heavy) == IF heavy THEN HeaviestMinute ELSE LightLimit

Room ==
  /\ pc \in {"idle", "request", "pause"} => Cardinality(timestamps) <= Cap(isHeavy)
  /\ pc = "wait" => Cardinality(Younger(timestamps, Window - left)) <= Cap(isHeavy)

\* Before the first heavy call there is at most a timestamp for each page.
LightFirst == ~isHeavy => Cardinality(timestamps) <= pages

PauseCounts == pc = "pause" => retries > 0

MinuteInv ==
  /\ TypeOK
  /\ Ordered(sentLight) /\ Ordered(sentHeavy)
  /\ Room /\ LightFirst /\ PauseCounts
  /\ CallsPerMinute

LEMMA InitMinuteInv == Init => MinuteInv
<1> SUFFICES ASSUME Init PROVE MinuteInv
  OBVIOUS
<1>1. TypeOK
  BY InitTypeOK
<1>2. /\ timestamps = {} /\ sentLight = {} /\ sentHeavy = {} /\ pc = "idle" /\ pages = 0
  BY Zenon DEF Init
<1>3. Cardinality({}) = 0
  BY FS_EmptySet
<1> QED
  BY <1>1, <1>2, <1>3, Numbers
     DEF MinuteInv, Ordered, Room, LightFirst, PauseCounts, CallsPerMinute, Cap

\* A minute to which a step adds no call, neither sent nor waiting.
LEMMA OrderedStays ==
  ASSUME TypeOK, NEW sent \in SUBSET Ages, Ordered(sent), UNCHANGED timestamps, Unsent' <= Unsent
  PROVE  \A x \in sent : Cardinality(Younger(sent, x)) + Unsent' <= Cardinality(Younger(timestamps', x))
<1>1. timestamps \in SUBSET Ages
  BY DEF TypeOK
<1>2. Unsent \in Nat /\ Unsent' \in Nat
  BY DEF Unsent
<1>3. \A x : Cardinality(Younger(sent, x)) \in Nat /\ Cardinality(Younger(timestamps, x)) \in Nat
  BY <1>1, YoungerType
<1> QED
  BY <1>2, <1>3 DEF Ordered

LEMMA TickMinuteInv == MinuteInv /\ Tick => MinuteInv'
<1> SUFFICES ASSUME MinuteInv, Tick PROVE MinuteInv'
  OBVIOUS
<1>1. /\ timestamps \in SUBSET Ages /\ sentLight \in SUBSET Ages /\ sentHeavy \in SUBSET Ages
      /\ left \in 0..Window /\ pages \in 0..StorePages /\ TypeOK
  BY DEF MinuteInv, TypeOK
<1>2. /\ timestamps' = Older(timestamps)
      /\ sentLight' = Older(sentLight) /\ sentHeavy' = Older(sentHeavy)
      /\ left' = (IF left > 0 THEN left - 1 ELSE 0)
      /\ UNCHANGED <<pc, isHeavy, pages, retries>>
  BY DEF Tick
<1>3. TypeOK'
  BY <1>1, NextTypeOK DEF Next
<1>4. timestamps' \in SUBSET Ages /\ Cardinality(timestamps') <= Cardinality(timestamps)
      /\ Cardinality(timestamps) \in Nat /\ Cardinality(timestamps') \in Nat
  BY <1>1, <1>2, OlderFits, AgesType
<1>5. ASSUME NEW sent \in SUBSET Ages, Ordered(sent), NEW x \in Older(sent)
      PROVE  Cardinality(Younger(Older(sent), x)) + Unsent' <= Cardinality(Younger(timestamps', x))
  <2> DEFINE y == x - 1
  <2>1. y \in sent
    BY OlderFits
  <2>2. y \in Ages /\ x = y + 1
    <3>1. x \in Ages
      BY OlderFits
    <3> QED
      BY <2>1, <3>1, AgesType, Numbers DEF Ages
  <2> HIDE DEF y
  <2>3. /\ Cardinality(Younger(Older(sent), y + 1)) = Cardinality(Younger(sent, y))
        /\ Cardinality(Younger(Older(timestamps), y + 1)) = Cardinality(Younger(timestamps, y))
    BY <1>1, <2>2, OlderFits
  <2>4. Unsent' = Unsent
    BY <1>2 DEF Unsent
  <2> QED
    BY <1>2, <1>5, <2>1, <2>2, <2>3, <2>4 DEF Ordered
<1>6. Ordered(sentLight)' /\ Ordered(sentHeavy)'
  BY <1>1, <1>2, <1>5 DEF Ordered, MinuteInv
<1>7. Cap(isHeavy) \in Nat /\ Cap(isHeavy)' = Cap(isHeavy)
  BY <1>2, Numbers DEF Cap
<1>8. Room'
  <2>1. pc \in {"idle", "request", "pause"} => Cardinality(timestamps') <= Cap(isHeavy)
    BY <1>4, <1>7 DEF MinuteInv, Room
  <2>2. ASSUME pc = "wait" PROVE Cardinality(Younger(timestamps', Window - left')) <= Cap(isHeavy)
    <3>1. Cardinality(Younger(timestamps, Window - left)) <= Cap(isHeavy)
      BY <2>2 DEF MinuteInv, Room
    <3>2. CASE left = 0
      <4>1. Younger(timestamps, Window - left) = timestamps
        BY <1>1, <3>2, AgesType, Numbers DEF Younger
      <4>2. Cardinality(Younger(timestamps', Window - left')) <= Cardinality(timestamps')
            /\ Cardinality(Younger(timestamps', Window - left')) \in Nat
        BY <1>4, YoungerType
      <4> QED
        BY <1>4, <1>7, <3>1, <4>1, <4>2
    <3>3. CASE left > 0
      <4>1. Window - left \in Ages /\ Window - left' = (Window - left) + 1
        BY <1>1, <1>2, <3>3, Numbers DEF Ages
      <4>2. Cardinality(Younger(timestamps', Window - left'))
              = Cardinality(Younger(timestamps, Window - left))
        BY <1>1, <1>2, <4>1, OlderFits
      <4> QED
        BY <3>1, <4>2
    <3> QED
      BY <1>1, <3>2, <3>3, Numbers
  <2> QED
    BY <1>2, <1>7, <2>1, <2>2 DEF Room
<1>9. LightFirst' /\ PauseCounts'
  BY <1>1, <1>2, <1>4, Numbers DEF MinuteInv, LightFirst, PauseCounts
<1>10. CallsPerMinute'
  <2>1. /\ Cardinality(sentLight') <= Cardinality(sentLight) /\ Cardinality(sentLight') \in Nat
        /\ Cardinality(sentHeavy') <= Cardinality(sentHeavy) /\ Cardinality(sentHeavy') \in Nat
        /\ Cardinality(sentLight) \in Nat /\ Cardinality(sentHeavy) \in Nat
    BY <1>1, <1>2, OlderFits, AgesType
  <2> QED
    BY <2>1, Numbers DEF MinuteInv, CallsPerMinute
<1> QED
  BY <1>3, <1>6, <1>8, <1>9, <1>10 DEF MinuteInv

\* A new timestamp is younger than what was sent, and if there is no room for it
\* the wait makes room for one.
LEMMA CheckRateLimitMinuteInv == MinuteInv /\ CheckRateLimit => MinuteInv'
<1> SUFFICES ASSUME MinuteInv, CheckRateLimit PROVE MinuteInv'
  OBVIOUS
<1>1. /\ timestamps \in SUBSET Ages /\ sentLight \in SUBSET Ages /\ sentHeavy \in SUBSET Ages
      /\ pages \in 0..StorePages /\ TypeOK /\ Cardinality(timestamps) \in Nat
  BY AgesType DEF MinuteInv, TypeOK
<1>2. /\ isHeavy' \in BOOLEAN /\ (isHeavy => isHeavy')
      /\ ~isHeavy' => ~isHeavy /\ pages' = pages + 1
      /\ timestamps' = timestamps \cup {0} /\ 0 \notin timestamps
      /\ timestamps' \in SUBSET Ages /\ Cardinality(timestamps') = Cardinality(timestamps) + 1
  BY <1>1, CheckRateLimitStep
<1>3. /\ pc = "idle" /\ 0 \notin sentLight /\ 0 \notin sentHeavy
      /\ UNCHANGED <<retries, sentLight, sentHeavy>>
  BY DEF CheckRateLimit
<1>4. TypeOK'
  BY <1>1, NextTypeOK DEF Next, Step
<1>5. Unsent = 0 /\ Unsent' \in {0, 1}
  BY <1>3 DEF Unsent
<1>6. ASSUME NEW sent \in SUBSET Ages, 0 \notin sent, Ordered(sent), NEW x \in sent
      PROVE  Cardinality(Younger(sent, x)) + Unsent' <= Cardinality(Younger(timestamps', x))
  <2>1. x \in Nat \ {0}
    BY <1>6, AgesType
  <2>2. Younger(timestamps', x) = Younger(timestamps, x) \cup {0} /\ 0 \notin Younger(timestamps, x)
    BY <1>2, <2>1 DEF Younger
  <2>3. IsFiniteSet(Younger(timestamps, x)) /\ Cardinality(Younger(timestamps, x)) \in Nat
        /\ Cardinality(Younger(sent, x)) \in Nat
    BY <1>1, YoungerType
  <2>4. Cardinality(Younger(timestamps', x)) = Cardinality(Younger(timestamps, x)) + 1
    BY <2>2, <2>3, FS_AddElement
  <2>5. Cardinality(Younger(sent, x)) <= Cardinality(Younger(timestamps, x))
    BY <1>5, <1>6, <2>3 DEF Ordered
  <2> QED
    BY <1>5, <2>3, <2>4, <2>5
<1>7. Ordered(sentLight)' /\ Ordered(sentHeavy)'
  BY <1>1, <1>3, <1>6 DEF Ordered, MinuteInv
<1>8. Cap(isHeavy') \in Nat /\ Limit(isHeavy') \in Nat /\ Limit(isHeavy') <= Cap(isHeavy')
  BY Numbers DEF Cap, Limit
<1>9. Cardinality(timestamps) <= Cap(isHeavy')
  <2>1. Cardinality(timestamps) <= Cap(isHeavy)
    BY <1>3 DEF MinuteInv, Room
  <2>2. CASE isHeavy' /\ ~isHeavy
    <3>1. Cardinality(timestamps) <= LightLimit /\ Cardinality(timestamps) <= pages
      BY <2>1, <2>2 DEF MinuteInv, LightFirst, Cap
    <3> QED
      BY <1>1, <2>2, <3>1, Numbers DEF Cap
  <2>3. CASE isHeavy \/ ~isHeavy'
    BY <1>2, <2>1, <2>3 DEF Cap
  <2> QED
    BY <2>2, <2>3
<1>10. Room'
  <2>1. CASE Cardinality(timestamps) < Limit(isHeavy') /\ pc' = "request"
    BY <1>1, <1>2, <1>8, <2>1 DEF Room
  <2>2. CASE /\ left' = Window - Max(timestamps) /\ pc' = "wait" /\ timestamps # {}
    <3> DEFINE m == Max(timestamps)
    <3>1. m \in timestamps /\ \A t \in timestamps : t <= m
      BY <1>1, <2>2, Oldest
    <3> HIDE DEF m
    <3>2. m \in Nat /\ m < Window /\ Window - left' = m
      BY <1>1, <2>2, <3>1, AgesType, Numbers DEF m
    <3>3. Younger(timestamps', m) \subseteq (timestamps \ {m}) \cup {0}
      BY <1>2, <3>2 DEF Younger
    <3>4. IsFiniteSet(timestamps \ {m}) /\ Cardinality(timestamps \ {m}) = Cardinality(timestamps) - 1
      BY <1>1, <3>1, AgesType, FS_RemoveElement
    <3>5. /\ IsFiniteSet((timestamps \ {m}) \cup {0})
          /\ Cardinality((timestamps \ {m}) \cup {0}) = Cardinality(timestamps)
      BY <1>1, <1>2, <3>4, FS_AddElement
    <3>6. Cardinality(Younger(timestamps', m)) <= Cardinality(timestamps)
      BY <3>3, <3>5, FS_Subset
    <3>7. Cardinality(Younger(timestamps', m)) \in Nat
      BY <1>2, YoungerType
    <3>8. Cardinality(Younger(timestamps', m)) <= Cap(isHeavy')
      BY <1>1, <1>8, <1>9, <3>6, <3>7
    <3> QED
      BY <2>2, <3>2, <3>8 DEF Room
  <2> QED
    BY <1>1, <2>1, <2>2, CheckRateLimitStep
<1>11. LightFirst'
  BY <1>1, <1>2, Numbers DEF MinuteInv, LightFirst
<1>12. PauseCounts'
  BY <1>1, CheckRateLimitStep DEF PauseCounts
<1>13. CallsPerMinute'
  BY <1>3 DEF MinuteInv, CallsPerMinute
<1> QED
  BY <1>4, <1>7, <1>10, <1>11, <1>12, <1>13 DEF MinuteInv

\* A call that is sent has its timestamp in the window, and so has every call
\* that was sent before it within the minute, but for the first of them.
LEMMA SentFits ==
  ASSUME MinuteInv, Unsent = 1, NEW sent \in SUBSET Ages, Ordered(sent)
  PROVE  Cardinality(sent \cup {0}) <= Cardinality(timestamps) + 1
<1>1. timestamps \in SUBSET Ages /\ Cardinality(timestamps) \in Nat
  BY AgesType DEF MinuteInv, TypeOK
<1>2. CASE sent = {}
  <2>1. Cardinality({} \cup {0}) = 1
    BY FS_EmptySet, FS_AddElement
  <2> QED
    BY <1>1, <1>2, <2>1
<1>3. CASE sent # {}
  <2> DEFINE m == Max(sent)
  <2>1. m \in sent /\ \A x \in sent : x <= m
    BY <1>3, Oldest
  <2> HIDE DEF m
  <2>2. m \in Nat /\ \A x \in sent : x \in Nat
    BY <2>1, AgesType
  <2>3. Younger(sent, m) = sent \ {m}
    <3>1. \A x \in sent : x < m <=> x # m
      BY <2>1, <2>2
    <3> QED
      BY <3>1 DEF Younger
  <2>4. /\ Cardinality(sent) \in Nat /\ IsFiniteSet(sent)
        /\ Cardinality(Younger(sent, m)) = Cardinality(sent) - 1
    BY <2>1, <2>3, AgesType, FS_RemoveElement
  <2>5. Cardinality(Younger(sent, m)) + 1 <= Cardinality(Younger(timestamps, m))
    BY <2>1 DEF Ordered
  <2>6. Cardinality(Younger(timestamps, m)) <= Cardinality(timestamps)
        /\ Cardinality(Younger(timestamps, m)) \in Nat
    BY <1>1, YoungerType
  <2>7. Cardinality(sent) <= Cardinality(timestamps)
    BY <1>1, <2>4, <2>5, <2>6
  <2>8. Cardinality(sent \cup {0}) <= Cardinality(sent) + 1
        /\ Cardinality(sent \cup {0}) \in Nat
    BY <2>4, AddsOne
  <2> QED
    BY <1>1, <2>4, <2>7, <2>8
<1> QED
  BY <1>2, <1>3

\* A call that is sent is the youngest of those sent.
LEMMA OrderedAfterSending ==
  ASSUME MinuteInv, Unsent = 1, NEW sent \in SUBSET Ages, Ordered(sent), NEW x \in sent \cup {0}
  PROVE  Cardinality(Younger(sent \cup {0}, x)) <= Cardinality(Younger(timestamps, x))
<1>1. timestamps \in SUBSET Ages /\ sent \cup {0} \in SUBSET Ages
  BY Numbers DEF MinuteInv, TypeOK, Ages
<1>2. /\ Cardinality(Younger(timestamps, x)) \in Nat
      /\ Cardinality(Younger(sent \cup {0}, x)) \in Nat
      /\ IsFiniteSet(Younger(sent, x)) /\ Cardinality(Younger(sent, x)) \in Nat
  BY <1>1, YoungerType
<1>3. CASE x = 0
  <2>1. Younger(sent \cup {0}, x) = {}
    <3>1. \A a \in sent \cup {0} : a \in Nat
      BY <1>1, AgesType
    <3>2. \A a \in sent \cup {0} : ~(a < 0)
      BY <3>1
    <3> QED
      BY <1>3, <3>2 DEF Younger
  <2> QED
    BY <1>2, <2>1, FS_EmptySet
<1>4. CASE x \in sent
  <2>1. Younger(sent \cup {0}, x) \subseteq Younger(sent, x) \cup {0}
    BY DEF Younger
  <2>2. /\ IsFiniteSet(Younger(sent, x) \cup {0})
        /\ Cardinality(Younger(sent, x) \cup {0}) <= Cardinality(Younger(sent, x)) + 1
        /\ Cardinality(Younger(sent, x) \cup {0}) \in Nat
    BY <1>2, AddsOne
  <2>3. Cardinality(Younger(sent \cup {0}, x)) <= Cardinality(Younger(sent, x) \cup {0})
    BY <2>1, <2>2, FS_Subset
  <2>4. Cardinality(Younger(sent, x)) + 1 <= Cardinality(Younger(timestamps, x))
    BY <1>4 DEF Ordered
  <2> QED
    BY <1>2, <2>2, <2>3, <2>4
<1> QED
  BY <1>3, <1>4

\* Steps by which no call gets a timestamp or is sent.
LEMMA QuietMinuteInv ==
  ASSUME MinuteInv, TypeOK', UNCHANGED <<timestamps, sentLight, sentHeavy, isHeavy, pages, left>>,
         Unsent' <= Unsent, PauseCounts',
         pc' \in {pc, "over"} \/ (Cardinality(timestamps) <= Cap(isHeavy) /\ pc' # "wait")
  PROVE  MinuteInv'
<1>1. TypeOK /\ sentLight \in SUBSET Ages /\ sentHeavy \in SUBSET Ages
  BY DEF MinuteInv, TypeOK
<1>2. Ordered(sentLight)' /\ Ordered(sentHeavy)'
  BY <1>1, OrderedStays DEF MinuteInv, Ordered
<1>3. Room'
  BY DEF MinuteInv, Room
<1>4. LightFirst' /\ CallsPerMinute'
  BY DEF MinuteInv, LightFirst, CallsPerMinute
<1> QED
  BY <1>2, <1>3, <1>4 DEF MinuteInv

LEMMA WaitMinuteInv == MinuteInv /\ (Wait \/ Pause \/ GiveUp \/ Cancel) => MinuteInv'
<1> SUFFICES ASSUME MinuteInv, Wait \/ Pause \/ GiveUp \/ Cancel PROVE MinuteInv'
  OBVIOUS
<1>1. TypeOK /\ TypeOK'
  BY NextTypeOK DEF MinuteInv, Next, Step
<1>2. UNCHANGED <<timestamps, sentLight, sentHeavy, isHeavy, pages, left>>
  BY DEF Wait, Pause, GiveUp, Cancel
<1>3. CASE GiveUp \/ Cancel
  <2>1. pc' \in {pc, "over"} /\ UNCHANGED retries
    BY <1>3 DEF GiveUp, Cancel
  <2>2. Unsent' <= Unsent /\ PauseCounts'
    BY <2>1 DEF Unsent, PauseCounts, MinuteInv
  <2> QED
    BY <1>1, <1>2, <2>1, <2>2, QuietMinuteInv
<1>4. CASE pc = "wait" /\ left = 0 /\ pc' = "request" /\ UNCHANGED retries
  <2>1. Younger(timestamps, Window - left) = timestamps
    BY <1>1, <1>4, AgesType, Numbers DEF TypeOK, Younger
  <2>2. Cardinality(timestamps) <= Cap(isHeavy)
    BY <1>4, <2>1 DEF MinuteInv, Room
  <2>3. Unsent' <= Unsent /\ PauseCounts'
    BY <1>4 DEF Unsent, PauseCounts
  <2> QED
    BY <1>1, <1>2, <1>4, <2>2, <2>3, QuietMinuteInv
<1>5. CASE Return(FALSE)
  <2>1. pc' = "over"
    BY <1>5 DEF Return
  <2>2. Unsent' <= Unsent /\ PauseCounts'
    BY <2>1 DEF Unsent, PauseCounts
  <2> QED
    BY <1>1, <1>2, <2>1, <2>2, QuietMinuteInv
<1>6. CASE pc = "pause" /\ pc' = "request" /\ UNCHANGED retries
  <2>1. Cardinality(timestamps) <= Cap(isHeavy)
    BY <1>6 DEF MinuteInv, Room
  <2>2. retries > 0 /\ retries \in Nat
    BY <1>1, <1>6, Numbers DEF MinuteInv, PauseCounts, TypeOK
  <2>3. Unsent' <= Unsent /\ PauseCounts'
    BY <1>6, <2>2 DEF Unsent, PauseCounts
  <2> QED
    BY <1>1, <1>2, <1>6, <2>1, <2>3, QuietMinuteInv
<1> QED
  BY <1>3, <1>4, <1>5, <1>6 DEF Wait, Pause

LEMMA RequestMinuteInv == MinuteInv /\ Request => MinuteInv'
<1> SUFFICES ASSUME MinuteInv, Request PROVE MinuteInv'
  OBVIOUS
<1>1. /\ TypeOK /\ TypeOK' /\ timestamps \in SUBSET Ages
      /\ sentLight \in SUBSET Ages /\ sentHeavy \in SUBSET Ages
  BY NextTypeOK DEF MinuteInv, TypeOK, Next, Step
<1>2. UNCHANGED <<timestamps, isHeavy, pages, left>> /\ pc = "request"
  BY DEF Request
<1>3. pc' \in {"idle", "pause", "over"} /\ (pc' = "pause" => retries' = retries + 1)
  BY ReturnType DEF Request, Retry
<1>4. Unsent' = 0 /\ Unsent \in {0, 1}
  BY <1>3 DEF Unsent
<1>5. PauseCounts'
  BY <1>1, <1>3, Numbers DEF PauseCounts, TypeOK
<1>6. Cardinality(timestamps) <= Cap(isHeavy)
  BY <1>2 DEF MinuteInv, Room
<1>7. CASE UNCHANGED <<sentLight, sentHeavy>>
  BY <1>1, <1>2, <1>3, <1>4, <1>5, <1>6, <1>7, QuietMinuteInv
<1>8. Room' /\ LightFirst'
  BY <1>2, <1>3, <1>6 DEF MinuteInv, Room, LightFirst
<1>9. Cardinality(timestamps) \in Nat /\ Cap(isHeavy) \in Nat
  BY <1>1, AgesType, Numbers DEF Cap
<1>10. ASSUME NEW sent \in SUBSET Ages, Ordered(sent)
       PROVE  \A x \in sent : Cardinality(Younger(sent, x)) + Unsent' <= Cardinality(Younger(timestamps', x))
  BY <1>1, <1>2, <1>4, <1>10, OrderedStays
<1>11. ASSUME NEW sent \in SUBSET Ages, Ordered(sent), Unsent = 1
       PROVE  /\ Cardinality(sent \cup {0}) \in Nat
              /\ Cardinality(sent \cup {0}) <= Cap(isHeavy) + 1
              /\ \A x \in sent \cup {0} :
                   Cardinality(Younger(sent \cup {0}, x)) + Unsent'
                     <= Cardinality(Younger(timestamps', x))
  <2>1. sent \cup {0} \in SUBSET Ages
    BY Numbers DEF Ages
  <2>2. Cardinality(sent \cup {0}) \in Nat
    BY <2>1, AgesType
  <2>3. Cardinality(sent \cup {0}) <= Cardinality(timestamps) + 1
    BY <1>11, SentFits
  <2>4. \A x \in sent \cup {0} :
          /\ Cardinality(Younger(sent \cup {0}, x)) <= Cardinality(Younger(timestamps, x))
          /\ Cardinality(Younger(sent \cup {0}, x)) \in Nat
    BY <1>11, <2>1, OrderedAfterSending, YoungerType
  <2>5. Cardinality(sent \cup {0}) <= Cap(isHeavy) + 1
    BY <1>6, <1>9, <2>2, <2>3
  <2>6. ASSUME NEW x \in sent \cup {0}
        PROVE  Cardinality(Younger(sent \cup {0}, x)) + Unsent' <= Cardinality(Younger(timestamps', x))
    <3>1. Cardinality(Younger(sent \cup {0}, x)) + 0 = Cardinality(Younger(sent \cup {0}, x))
      BY <2>4
    <3> QED
      BY <1>2, <1>4, <2>4, <3>1
  <2> QED
    BY <2>2, <2>5, <2>6
<1>12. CASE retries = 0 /\ ~isHeavy /\ sentLight' = sentLight \cup {0} /\ UNCHANGED sentHeavy
  <2>1. Unsent = 1
    BY <1>2, <1>12 DEF Unsent
  <2>2. Ordered(sentLight)' /\ Ordered(sentHeavy)'
    BY <1>1, <1>10, <1>11, <1>12, <2>1 DEF MinuteInv, Ordered
  <2>3. Cardinality(sentLight') <= LightLimit + 1
    BY <1>1, <1>11, <1>12, <2>1 DEF MinuteInv, Cap
  <2>4. CallsPerMinute'
    BY <1>12, <2>3 DEF MinuteInv, CallsPerMinute
  <2> QED
    BY <1>1, <1>5, <1>8, <2>2, <2>4 DEF MinuteInv
<1>13. CASE retries = 0 /\ isHeavy /\ sentHeavy' = sentHeavy \cup {0} /\ UNCHANGED sentLight
  <2>1. Unsent = 1
    BY <1>2, <1>13 DEF Unsent
  <2>2. Ordered(sentLight)' /\ Ordered(sentHeavy)'
    BY <1>1, <1>10, <1>11, <1>13, <2>1 DEF MinuteInv, Ordered
  <2>3. Cardinality(sentHeavy') <= HeaviestMinute + 1
    BY <1>1, <1>11, <1>13, <2>1 DEF MinuteInv, Cap
  <2>4. CallsPerMinute'
    BY <1>13, <2>3 DEF MinuteInv, CallsPerMinute
  <2> QED
    BY <1>1, <1>5, <1>8, <2>2, <2>4 DEF MinuteInv
<1> QED
  BY <1>7, <1>12, <1>13 DEF Request

\* A new process has a new client.
LEMMA StartMinuteInv == MinuteInv /\ Start => MinuteInv'
<1> SUFFICES ASSUME MinuteInv, Start PROVE MinuteInv'
  OBVIOUS
<1>1. TypeOK'
  BY NextTypeOK DEF MinuteInv, Next
<1>2. /\ timestamps' = {} /\ sentLight' = {} /\ sentHeavy' = {} /\ pc' = "idle" /\ pages' = 0
  BY DEF Start
<1>3. Cardinality({}) = 0
  BY FS_EmptySet
<1> QED
  BY <1>1, <1>2, <1>3, Numbers
     DEF MinuteInv, Ordered, Room, LightFirst, PauseCounts, CallsPerMinute, Cap

LEMMA NextMinuteInv == MinuteInv /\ [Next]_vars => MinuteInv'
<1> SUFFICES ASSUME MinuteInv, [Next]_vars PROVE MinuteInv'
  OBVIOUS
<1>1. CASE UNCHANGED vars
  BY <1>1 DEF vars, MinuteInv, TypeOK, Ordered, Unsent, Room, LightFirst, PauseCounts, CallsPerMinute
<1> QED
  BY <1>1, TickMinuteInv, StartMinuteInv, CheckRateLimitMinuteInv, RequestMinuteInv, WaitMinuteInv
     DEF Next, Step

\* Whatever the times of the calls, a minute has at most one light call more than
\* the limiter's limit, and heavy ones as many as light ones before them or as
\* their limit, and one more.
THEOREM MinuteNeverHeavier == Spec => []CallsPerMinute
<1>1. MinuteInv => CallsPerMinute
  BY DEF MinuteInv
<1> QED
  BY <1>1, InitMinuteInv, NextMinuteInv, PTL DEF Spec
=============================================================================
