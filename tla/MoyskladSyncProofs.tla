------------------------- MODULE MoyskladSyncProofs -------------------------
(***************************************************************************)
(* Proofs about MoyskladSync, for all products, warehouses, quantities,    *)
(* page sizes, jobs, changes upstream and faults.                          *)
(*                                                                         *)
(* The argument.  A snapshot belongs to the run that created it, nothing   *)
(* is stored under it before that run inserts its details, and no total    *)
(* names it before the details are in; so what a total names never         *)
(* changes.  The total of a product and its details are the same table of  *)
(* figures added up by rows and by columns.  As long as no product enters  *)
(* or leaves the report, the rows read so far are its beginning, each      *)
(* product once, and each figure one that the report has shown.            *)
(* All but the type invariant assume that acked batches commit             *)
(* (~LoseCommit): the details of a run have to be in the table when its    *)
(* totals name them.                                                       *)
(***************************************************************************)
EXTENDS MoyskladSync, FiniteSetTheorems, WellFoundedInduction, TLAPS

-----------------------------------------------------------------------------
(* Sums.  What the folds of the community modules compute is determined by   *)
(* recursion over the subsets of a set; the facts about sums that the totals *)
(* rest on follow by choosing a smallest set that would contradict them.     *)

LEMMA Least ==
  ASSUME NEW N \in SUBSET Nat, N # {}
  PROVE  \E n \in N : \A m \in N : n <= m
<1> DEFINE R == OpToRel(<, Nat)
<1>1. IsWellFoundedOn(R, Nat)
  BY NatLessThanWellFounded, Zenon
<1>2. \A x, y \in Nat : y < x => <<y, x>> \in R
  BY DEF OpToRel
<1> HIDE DEF R
<1>3. PICK n \in N : \A m \in N : <<m, n>> \notin R
  BY <1>1, WFMin
<1>4. ASSUME NEW m \in N PROVE n <= m
  <2>1. n \in Nat /\ m \in Nat
    OBVIOUS
  <2>2. ~(m < n)
    BY <1>2, <1>3, <2>1
  <2> QED
    BY <2>1, <2>2
<1> QED
  BY <1>4

LEMMA LeastSet ==
  ASSUME NEW U, IsFiniteSet(U), NEW B, B \subseteq SUBSET U, B # {}
  PROVE  \E s \in B : \A r \in B : r \subseteq s => r = s
<1> DEFINE Sizes == {Cardinality(s) : s \in B}
<1>1. \A s \in B : IsFiniteSet(s) /\ Cardinality(s) \in Nat
  BY FS_Subset, FS_CardinalityType
<1>2. Sizes \in SUBSET Nat /\ Sizes # {}
  BY <1>1
<1>3. PICK n \in Sizes : \A m \in Sizes : n <= m
  <2> HIDE DEF Sizes
  <2> QED
    BY <1>2, Least
<1>4. PICK s \in B : n = Cardinality(s)
  OBVIOUS
<1>5. ASSUME NEW r \in B, r \subseteq s, r # s PROVE FALSE
  <2>1. Cardinality(r) < Cardinality(s)
    BY <1>1, <1>5, FS_Subset
  <2>2. Cardinality(s) <= Cardinality(r)
    BY <1>3, <1>4
  <2> QED
    BY <1>1, <2>1, <2>2
<1> QED
  BY <1>4, <1>5

Choice(s) == CHOOSE x \in s : TRUE

\* h says, for every set of D, what adding g up over it gives.
Adds(g, D, h) ==
  h = [s \in D |-> IF s = {} THEN 0 ELSE g[Choice(s)] + h[s \ {Choice(s)}]]

LEMMA SumIsFold ==
  ASSUME NEW g, NEW T
  PROVE  SumFunctionOnSet(g, T) = (CHOOSE h : Adds(g, SUBSET T, h))[T]
  BY DEF SumFunctionOnSet, FoldFunctionOnSet, MapThenFoldSet, Adds, Choice

LEMMA ChoiceIn == \A s : s # {} => Choice(s) \in s
  BY Zenon DEF Choice

\* The subsets of T of at most n elements.
Small(T, n) == {s \in SUBSET T : Cardinality(s) <= n}

LEMMA SmallRest ==
  ASSUME NEW T, IsFiniteSet(T), NEW n \in Nat, NEW s \in Small(T, n), s # {}
  PROVE  /\ s \ {Choice(s)} \in SUBSET T /\ Choice(s) \in T
         /\ Cardinality(s) \in Nat /\ Cardinality(s \ {Choice(s)}) = Cardinality(s) - 1
         /\ n # 0 /\ s \ {Choice(s)} \in Small(T, n - 1)
<1>1. s \in SUBSET T /\ Cardinality(s) <= n /\ IsFiniteSet(s) /\ Cardinality(s) \in Nat
  BY FS_Subset, FS_CardinalityType DEF Small
<1>2. Choice(s) \in s
  BY ChoiceIn
<1>3. /\ Cardinality(s \ {Choice(s)}) = Cardinality(s) - 1 /\ IsFiniteSet(s \ {Choice(s)})
  BY <1>1, <1>2, FS_RemoveElement
<1>4. Cardinality(s \ {Choice(s)}) \in Nat
  BY <1>3, FS_CardinalityType
<1>5. Cardinality(s \ {Choice(s)}) <= n - 1 /\ n # 0
  BY <1>1, <1>3, <1>4
<1> QED
  BY <1>1, <1>2, <1>3, <1>5 DEF Small

\* There is such an h, whatever is added up.
LEMMA AddsExists ==
  ASSUME NEW T, IsFiniteSet(T), NEW g, \A x \in T : g[x] \in Nat
  PROVE  \E h \in [SUBSET T -> Nat] : Adds(g, SUBSET T, h)
<1> DEFINE Good(n) == \E h \in [Small(T, n) -> Nat] : Adds(g, Small(T, n), h)
           Bad == {n \in Nat : ~Good(n)}
<1>1. Good(0)
  <2> DEFINE h == [s \in Small(T, 0) |-> 0]
  <2>1. \A s \in Small(T, 0) : s = {}
    BY SmallRest
  <2>2. h \in [Small(T, 0) -> Nat]
    OBVIOUS
  <2>3. Adds(g, Small(T, 0), h)
    BY <2>1 DEF Adds
  <2> QED
    BY <2>2, <2>3
<1>2. ASSUME NEW n \in Nat, n # 0, Good(n - 1) PROVE Good(n)
  <2>1. PICK h \in [Small(T, n - 1) -> Nat] : Adds(g, Small(T, n - 1), h)
    BY <1>2
  <2> DEFINE k == [s \in Small(T, n) |-> IF s = {} THEN 0 ELSE g[Choice(s)] + h[s \ {Choice(s)}]]
  <2>2. ASSUME NEW s \in Small(T, n), s # {}
        PROVE  /\ h[s \ {Choice(s)}] \in Nat /\ g[Choice(s)] \in Nat
               /\ s \ {Choice(s)} \in Small(T, n) /\ k[s \ {Choice(s)}] = h[s \ {Choice(s)}]
    <3> DEFINE r == s \ {Choice(s)}
    <3>1. r \in Small(T, n - 1) /\ g[Choice(s)] \in Nat
      BY <2>2, SmallRest
    <3>2. Small(T, n - 1) \subseteq Small(T, n)
      <4>1. ASSUME NEW t \in Small(T, n - 1) PROVE t \in Small(T, n)
        <5>1. t \in SUBSET T /\ Cardinality(t) <= n - 1 /\ Cardinality(t) \in Nat
          BY FS_Subset, FS_CardinalityType DEF Small
        <5> QED
          BY <5>1 DEF Small
      <4> QED
        BY <4>1
    <3> HIDE DEF r
    <3>3. k[r] = IF r = {} THEN 0 ELSE g[Choice(r)] + h[r \ {Choice(r)}]
      BY <3>1, <3>2
    <3>4. h[r] = IF r = {} THEN 0 ELSE g[Choice(r)] + h[r \ {Choice(r)}]
      BY <2>1, <3>1 DEF Adds
    <3> QED
      BY <2>1, <3>1, <3>2, <3>3, <3>4 DEF r
  <2>3. k \in [Small(T, n) -> Nat]
    <3> SUFFICES ASSUME NEW s \in Small(T, n) PROVE k[s] \in Nat
      OBVIOUS
    <3>1. CASE s = {}
      BY <3>1
    <3>2. CASE s # {}
      <4>1. k[s] = g[Choice(s)] + h[s \ {Choice(s)}]
        BY <3>2
      <4>2. h[s \ {Choice(s)}] \in Nat /\ g[Choice(s)] \in Nat
        BY <2>2, <3>2
      <4> HIDE DEF k
      <4> QED
        BY <4>1, <4>2
    <3> QED
      BY <3>1, <3>2
  <2>4. Adds(g, Small(T, n), k)
    <3>1. k = [s \in Small(T, n) |-> IF s = {} THEN 0 ELSE g[Choice(s)] + k[s \ {Choice(s)}]]
      BY <2>2
    <3> HIDE DEF k
    <3> QED
      BY <3>1 DEF Adds
  <2> HIDE DEF k
  <2> QED
    BY <2>3, <2>4
<1> HIDE DEF Good
<1>3. \A n \in Nat : Good(n)
  <2> SUFFICES ASSUME Bad # {} PROVE FALSE
    OBVIOUS
  <2>1. PICK n \in Bad : \A m \in Bad : n <= m
    BY Least
  <2>2. n # 0
    BY <1>1
  <2>3. n - 1 \in Nat /\ ~(n <= n - 1)
    BY <2>2
  <2>4. Good(n - 1)
    BY <2>1, <2>3
  <2> QED
    BY <1>2, <2>2, <2>4
<1>4. Small(T, Cardinality(T)) = SUBSET T
  BY FS_Subset DEF Small
<1>5. Good(Cardinality(T))
  BY <1>3, FS_CardinalityType
<1> QED
  BY <1>4, <1>5 DEF Good

\* The sum over the subsets of a set: it is a number, 0 for none, and the value
\* of one of them beside the sum of the others.
LEMMA SumRecursion ==
  ASSUME NEW T, IsFiniteSet(T), NEW g, \A x \in T : g[x] \in Nat
  PROVE  /\ SumFunctionOnSet(g, T) \in Nat
         /\ T = {} => SumFunctionOnSet(g, T) = 0
         /\ T # {} => SumFunctionOnSet(g, T) =
                        g[Choice(T)] + SumFunctionOnSet(g, T \ {Choice(T)})
<1> DEFINE H(S) == CHOOSE h : Adds(g, SUBSET S, h)
<1>1. ASSUME NEW S \in SUBSET T
      PROVE  /\ Adds(g, SUBSET S, H(S)) /\ SumFunctionOnSet(g, S) = H(S)[S]
  <2>1. \E h : Adds(g, SUBSET S, h)
    BY AddsExists, FS_Subset
  <2> QED
    BY <2>1, SumIsFold, Zenon
<1> HIDE DEF H
<1>2. ASSUME NEW S \in SUBSET T, NEW s \in SUBSET S
      PROVE  H(S)[s] = IF s = {} THEN 0 ELSE g[Choice(s)] + H(S)[s \ {Choice(s)}]
  BY <1>1, <1>2 DEF Adds
\* On a subset of both, two of them agree.
<1>3. ASSUME NEW S \in SUBSET T
      PROVE  \A s \in SUBSET S : H(S)[s] = H(T)[s] /\ H(S)[s] \in Nat
  <2> DEFINE Wrong == {s \in SUBSET S : ~(H(S)[s] = H(T)[s] /\ H(S)[s] \in Nat)}
  <2> SUFFICES ASSUME Wrong # {} PROVE FALSE
    OBVIOUS
  <2>1. IsFiniteSet(S)
    BY FS_Subset
  <2>2. Wrong \subseteq SUBSET S
    OBVIOUS
  <2>4. PICK s \in Wrong : \A r \in Wrong : r \subseteq s => r = s
    <3> HIDE DEF Wrong
    <3> QED
      BY <2>1, <2>2, LeastSet
  <2>5. s # {}
    <3>1. {} \in SUBSET S /\ S \in SUBSET T /\ T \in SUBSET T /\ {} \in SUBSET T
      OBVIOUS
    <3>2. H(S)[{}] = 0 /\ H(T)[{}] = 0
      <4> HIDE DEF Wrong
      <4> QED
        BY <1>2, <3>1
    <3> QED
      BY <3>2
  <2> DEFINE r == s \ {Choice(s)}
  <2>6. Choice(s) \in s /\ r \in SUBSET S
    BY <2>5, ChoiceIn
  <2>8. r \notin Wrong
    BY <2>4, <2>6
  <2>9. H(S)[r] = H(T)[r] /\ H(S)[r] \in Nat
    BY <2>6, <2>8
  <2>10. H(S)[s] = g[Choice(s)] + H(S)[r] /\ H(T)[s] = g[Choice(s)] + H(T)[r]
    BY <1>2, <2>5
  <2>11. g[Choice(s)] \in Nat
    BY <2>6
  <2> QED
    BY <2>9, <2>10, <2>11
<1>4. \A S \in SUBSET T : SumFunctionOnSet(g, S) = H(T)[S] /\ H(T)[S] \in Nat
  BY <1>1, <1>3
<1>5. T # {} => Choice(T) \in T
  BY ChoiceIn
<1> QED
  BY <1>2, <1>4, <1>5

\* Any element may be taken out of a sum first.
LEMMA SumSplit ==
  ASSUME NEW T, IsFiniteSet(T), NEW g, \A x \in T : g[x] \in Nat
  PROVE  \A x \in T : SumFunctionOnSet(g, T) = g[x] + SumFunctionOnSet(g, T \ {x})
<1> DEFINE Sum(S) == SumFunctionOnSet(g, S)
           Wrong == {S \in SUBSET T : \E x \in S : Sum(S) # g[x] + Sum(S \ {x})}
<1>1. ASSUME NEW S \in SUBSET T
      PROVE  /\ Sum(S) \in Nat
             /\ S # {} => Sum(S) = g[Choice(S)] + Sum(S \ {Choice(S)})
  BY SumRecursion, FS_Subset
<1> SUFFICES ASSUME Wrong # {} PROVE FALSE
  OBVIOUS
<1>2. Wrong \subseteq SUBSET T
  OBVIOUS
<1>3. PICK S \in Wrong : \A R \in Wrong : R \subseteq S => R = S
  <2> HIDE DEF Wrong
  <2> QED
    BY <1>2, LeastSet
<1>4. PICK x \in S : Sum(S) # g[x] + Sum(S \ {x})
  OBVIOUS
<1> DEFINE c == Choice(S)
<1>5. S \in SUBSET T /\ c \in S /\ Sum(S) = g[c] + Sum(S \ {c})
  BY <1>1, ChoiceIn
<1>6. c # x
  BY <1>4, <1>5
<1> HIDE DEF c
<1>7. \A y \in S : S \ {y} \notin Wrong
  BY <1>3
<1>8. Sum(S \ {c}) = g[x] + Sum((S \ {c}) \ {x}) /\ Sum(S \ {x}) = g[c] + Sum((S \ {x}) \ {c})
  BY <1>5, <1>6, <1>7
<1>9. (S \ {c}) \ {x} = (S \ {x}) \ {c}
  OBVIOUS
<1>10. g[x] \in Nat /\ g[c] \in Nat /\ Sum((S \ {x}) \ {c}) \in Nat
  BY <1>1, <1>5
<1> HIDE DEF Sum, Wrong
<1>11. g[c] + (g[x] + Sum((S \ {x}) \ {c})) = g[x] + (g[c] + Sum((S \ {x}) \ {c}))
  BY <1>10
<1> QED
  BY <1>4, <1>5, <1>8, <1>9, <1>11, Zenon

\* Sums of what is alike are alike.
LEMMA SumSame ==
  ASSUME NEW T, IsFiniteSet(T), NEW g, NEW h, \A x \in T : g[x] \in Nat /\ h[x] = g[x]
  PROVE  SumFunctionOnSet(h, T) = SumFunctionOnSet(g, T)
<1> DEFINE Wrong == {S \in SUBSET T : SumFunctionOnSet(h, S) # SumFunctionOnSet(g, S)}
<1> SUFFICES ASSUME Wrong # {} PROVE FALSE
  OBVIOUS
<1>1. Wrong \subseteq SUBSET T
  OBVIOUS
<1>2. PICK S \in Wrong : \A R \in Wrong : R \subseteq S => R = S
  <2> HIDE DEF Wrong
  <2> QED
    BY <1>1, LeastSet
<1>3. IsFiniteSet(S) /\ \A x \in S : g[x] \in Nat /\ h[x] \in Nat /\ h[x] = g[x]
  BY FS_Subset
<1>4. S # {}
  BY <1>3, SumRecursion
<1>5. Choice(S) \in S /\ S \ {Choice(S)} \notin Wrong
  BY <1>2, <1>4, ChoiceIn
<1>6. /\ SumFunctionOnSet(h, S) = h[Choice(S)] + SumFunctionOnSet(h, S \ {Choice(S)})
      /\ SumFunctionOnSet(g, S) = g[Choice(S)] + SumFunctionOnSet(g, S \ {Choice(S)})
  BY <1>3, <1>4, SumRecursion
<1> QED
  BY <1>3, <1>5, <1>6

LEMMA SumZero ==
  ASSUME NEW T, IsFiniteSet(T), NEW g, \A x \in T : g[x] = 0
  PROVE  SumFunctionOnSet(g, T) = 0
<1> DEFINE Wrong == {S \in SUBSET T : SumFunctionOnSet(g, S) # 0}
<1> SUFFICES ASSUME Wrong # {} PROVE FALSE
  OBVIOUS
<1>1. Wrong \subseteq SUBSET T
  OBVIOUS
<1>2. PICK S \in Wrong : \A R \in Wrong : R \subseteq S => R = S
  <2> HIDE DEF Wrong
  <2> QED
    BY <1>1, LeastSet
<1>3. IsFiniteSet(S) /\ \A x \in S : g[x] \in Nat /\ g[x] = 0
  BY FS_Subset
<1>4. S # {}
  BY <1>3, SumRecursion
<1>5. Choice(S) \in S /\ S \ {Choice(S)} \notin Wrong
  BY <1>2, <1>4, ChoiceIn
<1>6. SumFunctionOnSet(g, S) = g[Choice(S)] + SumFunctionOnSet(g, S \ {Choice(S)})
  BY <1>3, <1>4, SumRecursion
<1> QED
  BY <1>3, <1>5, <1>6

\* The sum of sums.
LEMMA SumAdd ==
  ASSUME NEW T, IsFiniteSet(T), NEW a, NEW b, NEW e,
         \A x \in T : a[x] \in Nat /\ b[x] \in Nat /\ e[x] = a[x] + b[x]
  PROVE  SumFunctionOnSet(e, T) = SumFunctionOnSet(a, T) + SumFunctionOnSet(b, T)
<1> DEFINE Wrong == {S \in SUBSET T : SumFunctionOnSet(e, S) #
                                        SumFunctionOnSet(a, S) + SumFunctionOnSet(b, S)}
<1> SUFFICES ASSUME Wrong # {} PROVE FALSE
  OBVIOUS
<1>1. Wrong \subseteq SUBSET T
  OBVIOUS
<1>2. PICK S \in Wrong : \A R \in Wrong : R \subseteq S => R = S
  <2> HIDE DEF Wrong
  <2> QED
    BY <1>1, LeastSet
<1>3. /\ IsFiniteSet(S) /\ IsFiniteSet(S \ {Choice(S)}) /\ S \ {Choice(S)} \in SUBSET T
      /\ \A x \in S : a[x] \in Nat /\ b[x] \in Nat /\ e[x] \in Nat /\ e[x] = a[x] + b[x]
  BY FS_Subset
<1>4. S # {}
  <2>1. \A x \in {} : a[x] \in Nat /\ b[x] \in Nat /\ e[x] \in Nat
    OBVIOUS
  <2>2. /\ SumFunctionOnSet(a, {}) = 0 /\ SumFunctionOnSet(b, {}) = 0
        /\ SumFunctionOnSet(e, {}) = 0
    BY <2>1, FS_EmptySet, SumZero
  <2>3. SumFunctionOnSet(e, S) # SumFunctionOnSet(a, S) + SumFunctionOnSet(b, S)
    OBVIOUS
  <2> HIDE DEF Wrong
  <2>4. 0 + 0 = 0
    OBVIOUS
  <2> QED
    BY <2>2, <2>3, <2>4, Zenon
<1>5. Choice(S) \in S /\ S \ {Choice(S)} \notin Wrong
  BY <1>2, <1>4, ChoiceIn
<1> DEFINE R == S \ {Choice(S)}
<1>6. /\ SumFunctionOnSet(a, S) = a[Choice(S)] + SumFunctionOnSet(a, R)
      /\ SumFunctionOnSet(b, S) = b[Choice(S)] + SumFunctionOnSet(b, R)
      /\ SumFunctionOnSet(e, S) = e[Choice(S)] + SumFunctionOnSet(e, R)
  BY <1>3, <1>4, SumRecursion
<1>7. SumFunctionOnSet(a, R) \in Nat /\ SumFunctionOnSet(b, R) \in Nat
  BY <1>3, SumRecursion
<1>8. SumFunctionOnSet(e, R) = SumFunctionOnSet(a, R) + SumFunctionOnSet(b, R)
  BY <1>3, <1>5
<1> HIDE DEF R
<1> QED
  BY <1>3, <1>5, <1>6, <1>7, <1>8

\* f is a table by rows, g the same by columns.
Table(f, g, I, T) == \A i \in I, x \in T : f[i][x] \in Nat /\ g[x][i] = f[i][x]

\* A table adds up to the same by rows and by columns.
LEMMA SumSwap ==
  ASSUME NEW I, IsFiniteSet(I), NEW T, IsFiniteSet(T), NEW f, NEW g,
         Table(f, g, I, T), NEW J, J \subseteq I, NEW rows, NEW columns,
         \A i \in I : rows[i] = SumFunctionOnSet(f[i], T),
         \A x \in T : columns[x] = SumFunctionOnSet(g[x], J)
  PROVE  SumFunctionOnSet(rows, J) = SumFunctionOnSet(columns, T)
<1> DEFINE Columns(S) == [x \in T |-> SumFunctionOnSet(g[x], S)]
           Wrong == {S \in SUBSET I : SumFunctionOnSet(rows, S) #
                                        SumFunctionOnSet(Columns(S), T)}
<1>1. ASSUME NEW i \in I PROVE SumFunctionOnSet(f[i], T) \in Nat /\ rows[i] \in Nat
  <2> HIDE DEF Wrong
  <2>1. \A x \in T : f[i][x] \in Nat
    BY DEF Table
  <2>2. SumFunctionOnSet(f[i], T) \in Nat
    BY <2>1, SumRecursion
  <2> QED
    BY <2>2
<1>2. \A x \in T : \A i \in I : f[i][x] \in Nat /\ g[x][i] \in Nat /\ g[x][i] = f[i][x]
  BY DEF Table
<1>3. ASSUME NEW S \in SUBSET I
      PROVE  /\ IsFiniteSet(S)
             /\ \A x \in T : Columns(S)[x] = SumFunctionOnSet(g[x], S) /\ Columns(S)[x] \in Nat
  BY <1>2, FS_Subset, SumRecursion
<1> HIDE DEF Columns
<1>4. Wrong = {}
  <2> SUFFICES ASSUME Wrong # {} PROVE FALSE
    OBVIOUS
  <2>1. Wrong \subseteq SUBSET I
    OBVIOUS
  <2>2. PICK S \in Wrong : \A R \in Wrong : R \subseteq S => R = S
    <3> HIDE DEF Wrong
    <3> QED
      BY <2>1, LeastSet
  <2>3. S # {}
    <3>1. \A h : SumFunctionOnSet(h, {}) = 0
      BY FS_EmptySet, SumZero
    <3>2. {} \in SUBSET I
      OBVIOUS
    <3>3. \A x \in T : Columns({})[x] = 0
      BY <1>3, <3>1, <3>2
    <3>4. SumFunctionOnSet(Columns({}), T) = 0
      BY <3>3, SumZero
    <3> QED
      BY <3>1, <3>4
  <2> DEFINE c == Choice(S)
             R == S \ {Choice(S)}
  <2>4. c \in S /\ c \in I /\ R \in SUBSET I /\ R \notin Wrong
    BY <2>2, <2>3, ChoiceIn
  <2>5. SumFunctionOnSet(rows, S) = rows[c] + SumFunctionOnSet(rows, R)
    BY <1>1, <1>3, <2>3, SumRecursion
  <2> HIDE DEF Wrong
  <2>6. ASSUME NEW x \in T PROVE Columns(S)[x] = f[c][x] + Columns(R)[x]
    <3>1. IsFiniteSet(S) /\ \A i \in S : g[x][i] \in Nat
      BY <1>2, <1>3, <2>2 DEF Wrong
    <3>2. SumFunctionOnSet(g[x], S) = g[x][c] + SumFunctionOnSet(g[x], R)
      BY <2>3, <3>1, SumRecursion
    <3> HIDE DEF c, R
    <3>3. Columns(S)[x] = SumFunctionOnSet(g[x], S) /\ Columns(R)[x] = SumFunctionOnSet(g[x], R)
      BY <1>3, <2>2, <2>4 DEF Wrong
    <3> QED
      BY <1>2, <2>4, <3>2, <3>3
  <2> HIDE DEF c, R
  <2>7. SumFunctionOnSet(Columns(S), T) = SumFunctionOnSet(f[c], T) + SumFunctionOnSet(Columns(R), T)
    BY <1>2, <1>3, <2>4, <2>6, SumAdd
  <2>8. SumFunctionOnSet(rows, R) = SumFunctionOnSet(Columns(R), T)
    BY <2>4 DEF Wrong
  <2>9. S \in Wrong /\ rows[c] = SumFunctionOnSet(f[c], T)
    BY <2>4
  <2>10. SumFunctionOnSet(rows, S) = SumFunctionOnSet(Columns(S), T)
    BY <2>5, <2>7, <2>8, <2>9, Zenon
  <2> QED
    BY <2>9, <2>10 DEF Wrong
<1>5. SumFunctionOnSet(rows, J) = SumFunctionOnSet(Columns(J), T)
  BY <1>4
<1>6. SumFunctionOnSet(columns, T) = SumFunctionOnSet(Columns(J), T)
  <2>1. \A x \in T : Columns(J)[x] \in Nat /\ columns[x] = Columns(J)[x]
    BY <1>3
  <2> QED
    BY <2>1, SumSame
<1> QED
  BY <1>5, <1>6

\* The sum of one value, and of none.
LEMMA SumOne ==
  ASSUME NEW x, NEW g, g[x] \in Nat
  PROVE  SumFunctionOnSet(g, {x}) = g[x]
<1>1. IsFiniteSet({x}) /\ IsFiniteSet({}) /\ {x} \ {x} = {} /\ \A y \in {x} : g[y] \in Nat
  BY FS_Singleton, FS_EmptySet
<1>2. SumFunctionOnSet(g, {}) = 0
  BY <1>1, SumRecursion
<1>3. SumFunctionOnSet(g, {x}) = g[x] + SumFunctionOnSet(g, {x} \ {x})
  BY <1>1, SumSplit
<1> QED
  BY <1>1, <1>2, <1>3
-----------------------------------------------------------------------------
(* The operators of MoyskladSync *)

Row == [product : Products, quantities : [Stores -> Quantities]]

LEMMA WholeType == \A q \in Quantities : Whole(q) \in Nat
  BY QuantityAssumption DEF Whole

LEMMA FiguresType ==
  ASSUME NEW row \in Row
  PROVE  \A s \in Stores : /\ Figures(row)[s] = Whole(row.quantities[s])
                           /\ Figures(row)[s] \in Nat
  BY WholeType DEF Figures, Row

\* The positions of a table are finitely many.
LEMMA RowsFinite ==
  ASSUME NEW r \in Seq(Row), NEW p
  PROVE  /\ DOMAIN r = 1..Len(r) /\ IsFiniteSet(DOMAIN r)
         /\ RowsOf(r, p) \subseteq DOMAIN r /\ IsFiniteSet(RowsOf(r, p))
         /\ \A i \in DOMAIN r : r[i] \in Row
<1>1. DOMAIN r = 1..Len(r) /\ Len(r) \in Nat /\ \A i \in DOMAIN r : r[i] \in Row
  OBVIOUS
<1>2. IsFiniteSet(DOMAIN r)
  BY <1>1, FS_Interval
<1>3. RowsOf(r, p) \subseteq DOMAIN r
  BY DEF RowsOf
<1> QED
  BY <1>1, <1>2, <1>3, FS_Subset

\* The figures of the rows of a table in one warehouse.
LEMMA ColumnType ==
  ASSUME NEW r \in Seq(Row), NEW s \in Stores
  PROVE  \A i \in DOMAIN r : /\ [k \in DOMAIN r |-> Figures(r[k])[s]][i] = Figures(r[i])[s]
                             /\ Figures(r[i])[s] \in Nat
  BY FiguresType, RowsFinite

LEMMA DetailType ==
  ASSUME NEW r \in Seq(Row), NEW p, NEW s \in Stores
  PROVE  Detail(r, p, s) \in Nat
<1> DEFINE Column == [i \in DOMAIN r |-> Figures(r[i])[s]]
<1>1. IsFiniteSet(RowsOf(r, p)) /\ \A i \in RowsOf(r, p) : Column[i] \in Nat
  BY RowsFinite, ColumnType
<1> HIDE DEF Column
<1>2. SumFunctionOnSet(Column, RowsOf(r, p)) \in Nat
  BY <1>1, SumRecursion
<1> QED
  BY <1>2 DEF Detail, Column

LEMMA DetailsType ==
  ASSUME NEW r \in Seq(Row)
  PROVE  Details(r) \in [Products -> [Stores -> Nat]]
  BY DetailType DEF Details

LEMMA TotalType ==
  ASSUME NEW r \in Seq(Row), NEW p
  PROVE  Total(r, p) \in Nat
<1> DEFINE Sums == [i \in DOMAIN r |-> SumFunctionOnSet(Figures(r[i]), Stores)]
<1>1. ASSUME NEW i \in DOMAIN r PROVE Sums[i] \in Nat
  <2>1. \A s \in Stores : Figures(r[i])[s] \in Nat
    BY FiguresType, RowsFinite
  <2>2. SumFunctionOnSet(Figures(r[i]), Stores) \in Nat
    BY <2>1, SumRecursion, FiniteAssumption
  <2> QED
    BY <2>2
<1> HIDE DEF Sums
<1>2. SumFunctionOnSet(Sums, RowsOf(r, p)) \in Nat
  BY <1>1, RowsFinite, SumRecursion
<1> QED
  BY <1>2 DEF Total, Sums

\* The total of a product is the sum of its details: the rows added up
\* warehouse by warehouse.
LEMMA TotalIsDetails ==
  ASSUME NEW r \in Seq(Row), NEW p \in Products
  PROVE  Total(r, p) = SumFunctionOnSet(Details(r)[p], Stores)
<1> DEFINE I == DOMAIN r
           J == RowsOf(r, p)
           f == [i \in I |-> Figures(r[i])]
           g == [s \in Stores |-> [i \in I |-> Figures(r[i])[s]]]
           rows == [i \in I |-> SumFunctionOnSet(Figures(r[i]), Stores)]
           columns == Details(r)[p]
<1>1. IsFiniteSet(I) /\ IsFiniteSet(Stores) /\ J \subseteq I
  BY RowsFinite, FiniteAssumption
<1>2. \A i \in I : f[i] = Figures(r[i]) /\ rows[i] = SumFunctionOnSet(f[i], Stores)
  OBVIOUS
<1>3. Table(f, g, I, Stores)
  BY <1>2, ColumnType DEF Table
<1>4. \A s \in Stores : columns[s] = SumFunctionOnSet(g[s], J)
  BY DEF Details, Detail
<1>5. Total(r, p) = SumFunctionOnSet(rows, J)
  BY DEF Total
<1> HIDE DEF I, J, f, g, rows, columns
<1>6. \A i \in I : rows[i] = SumFunctionOnSet(f[i], Stores)
  BY <1>2
<1>7. SumFunctionOnSet(rows, J) = SumFunctionOnSet(columns, Stores)
  BY ONLY <1>1, <1>3, <1>4, <1>6, SumSwap
<1> QED
  BY <1>5, <1>7 DEF columns

\* A product on one row has the figures of that row, one on none has none.
LEMMA DetailOfOne ==
  ASSUME NEW r \in Seq(Row), NEW p, NEW s \in Stores,
         NEW i \in DOMAIN r, RowsOf(r, p) = {i}
  PROVE  Detail(r, p, s) = Whole(r[i].quantities[s])
<1> DEFINE Column == [k \in DOMAIN r |-> Figures(r[k])[s]]
<1>1. Column[i] = Figures(r[i])[s] /\ Column[i] \in Nat
  BY ColumnType
<1>2. Figures(r[i])[s] = Whole(r[i].quantities[s])
  BY FiguresType, RowsFinite
<1> HIDE DEF Column
<1>3. SumFunctionOnSet(Column, {i}) = Column[i]
  BY <1>1, SumOne
<1> QED
  BY <1>1, <1>2, <1>3 DEF Detail, Column

LEMMA DetailOfNone ==
  ASSUME NEW r \in Seq(Row), NEW p, NEW s \in Stores, RowsOf(r, p) = {}
  PROVE  Detail(r, p, s) = 0
  BY FS_EmptySet, SumZero DEF Detail

\* A page of the report is made of rows, and is short only at its end.
LEMMA PageIs ==
  ASSUME TypeOK, NEW o \in Nat
  PROVE  /\ PageAt(o) \in Seq(Row) /\ Len(PageAt(o)) \in 0..Limit
         /\ o <= Len(report) => /\ o + Len(PageAt(o)) <= Len(report)
                                /\ Len(PageAt(o)) < Limit => o + Len(PageAt(o)) = Len(report)
         /\ \A i \in 1..Len(PageAt(o)) :
              /\ PageAt(o)[i] = [product |-> report[o + i], quantities |-> qty[report[o + i]]]
              /\ o + i \in 1..Len(report)
<1> DEFINE n == Min({Limit, Len(report) - o})
           size == IF n < 0 THEN 0 ELSE n
<1>1. Len(report) \in Nat /\ Limit \in Nat \ {0}
  BY LimitAssumption DEF TypeOK
<1>2. n \in {Limit, Len(report) - o} /\ n <= Limit /\ n <= Len(report) - o
  <2> DEFINE A == {Limit, Len(report) - o}
  <2>1. \E x \in A : \A y \in A : x <= y
    BY <1>1
  <2>2. n \in A /\ \A y \in A : n <= y
    BY <2>1, Zenon DEF Min
  <2> QED
    BY <2>2
<1> HIDE DEF n
<1>3. size \in Nat /\ 1..n = 1..size /\ size <= Limit /\ n \in Int
  BY <1>1, <1>2
<1>4. \A i \in 1..size : o + i \in 1..Len(report)
  BY <1>1, <1>2
<1>5. o <= Len(report) => o + size <= Len(report) /\ (size < Limit => o + size = Len(report))
  BY <1>1, <1>2
<1> HIDE DEF size
<1>6. PageAt(o) = [i \in 1..size |-> [product |-> report[o + i], quantities |-> qty[report[o + i]]]]
  BY <1>3 DEF PageAt, n
<1>7. \A i \in 1..size :
        [product |-> report[o + i], quantities |-> qty[report[o + i]]] \in Row
  BY <1>4 DEF TypeOK, Row
<1>8. PageAt(o) \in Seq(Row) /\ Len(PageAt(o)) = size
  BY <1>3, <1>6, <1>7
<1>9. \A i \in 1..Len(PageAt(o)) :
        /\ PageAt(o)[i] = [product |-> report[o + i], quantities |-> qty[report[o + i]]]
        /\ o + i \in 1..Len(report)
  BY <1>4, <1>6, <1>8
<1>10. Len(PageAt(o)) \in 0..Limit
  BY <1>1, <1>3, <1>8
<1> QED
  BY <1>5, <1>8, <1>9, <1>10, Zenon

-----------------------------------------------------------------------------
(* The inductive invariant *)

HasSnapshot(j) == pc[j] \in {"page", "details", "totals"} \/ Done(j)

\* A run adds up under a snapshot of its own.
OwnSnapshots ==
  /\ \A j \in Jobs : HasSnapshot(j) => snapshot[j] # 0
  /\ \A j, k \in Jobs : snapshot[j] = snapshot[k] /\ snapshot[j] # 0 => j = k

\* Nothing is stored under a snapshot, and no total names it, before its run
\* inserts the details.
FreshSnapshots ==
  /\ \A i \in 1..MaxSnapshots : i > snapshots => details[i] = Nothing
  /\ \A j \in Jobs : pc[j] \in {"page", "details"} =>
       /\ details[snapshot[j]] = Nothing
       /\ \A p \in Products : totals[p].snapshot # snapshot[j]

\* Behind the insert, a snapshot holds what its run added up.
DetailsStored ==
  \A j \in Jobs : pc[j] = "totals" \/ Done(j) => details[snapshot[j]] = Details(raw[j])

\* A run starts at the top of the report.
StartsAtTop ==
  \A j \in Jobs : pc[j] \in {"stores", "upsertStores", "snapshot"} =>
    raw[j] = <<>> /\ offset[j] = 0

\* A run under way has been shown what the report says now.
NowShown ==
  \A j \in Jobs : Running(j) => \A p \in Products, s \in Stores : Said(p, s) \in shown[j][p][s]

\* What run j has read is the beginning of the report, and has been shown.
ReadsReport(j) ==
  /\ Len(raw[j]) <= Len(report)
  /\ pc[j] = "page" => offset[j] = Len(raw[j])
  /\ pc[j] # "page" => Len(report) = Len(raw[j])
  /\ \A i \in 1..Len(raw[j]) :
       /\ raw[j][i].product = report[i]
       /\ \A s \in Stores : Whole(raw[j][i].quantities[s]) \in shown[j][report[i]][s]

Reading == \A j \in Jobs : HasSnapshot(j) /\ ~moved[j] => ReadsReport(j)

SnapshotInv ==
  /\ TypeOK /\ OwnSnapshots /\ FreshSnapshots /\ DetailsStored /\ TotalsMatchDetails

SyncInv == SnapshotInv /\ StartsAtTop /\ NowShown /\ Reading

LEMMA Joined ==
  ASSUME NEW S, NEW u \in Seq(S), NEW v \in Seq(S)
  PROVE  /\ u \o v \in Seq(S) /\ Len(u \o v) = Len(u) + Len(v)
         /\ DOMAIN (u \o v) = 1..(Len(u) + Len(v))
         /\ \A k \in 1..Len(u) : (u \o v)[k] = u[k]
         /\ \A k \in 1..Len(v) : (u \o v)[Len(u) + k] = v[k]
  OBVIOUS

LEMMA Cut ==
  ASSUME NEW S, NEW s \in Seq(S), NEW m \in 1..(Len(s) + 1), NEW n \in Nat,
         m <= n + 1, n <= Len(s)
  PROVE  /\ SubSeq(s, m, n) \in Seq(S) /\ Len(SubSeq(s, m, n)) = n + 1 - m
         /\ \A k \in 1..(n + 1 - m) : SubSeq(s, m, n)[k] = s[m + k - 1]
  OBVIOUS

\* A product put anywhere into the report, or taken out of it.
LEMMA InsertedReport ==
  ASSUME NEW s \in Seq(Products), IsInjective(s),
         NEW p \in Products \ ToSet(s), NEW i \in 1..(Len(s) + 1)
  PROVE  InsertAt(s, i, p) \in Seq(Products) /\ IsInjective(InsertAt(s, i, p))
<1> DEFINE a == SubSeq(s, 1, i - 1)
           b == SubSeq(s, i, Len(s))
           c == a \o <<p>>
           t == c \o b
           From(k) == IF k < i THEN k ELSE k - 1
<1>1. Len(s) \in Nat /\ i \in Nat /\ i >= 1 /\ i <= Len(s) + 1
  OBVIOUS
<1>2. a \in Seq(Products) /\ Len(a) = i - 1 /\ \A k \in 1..(i - 1) : a[k] = s[k]
  BY <1>1, Cut
<1>3. /\ b \in Seq(Products) /\ Len(b) = Len(s) + 1 - i
      /\ \A k \in 1..(Len(s) + 1 - i) : b[k] = s[i + k - 1]
  BY <1>1, Cut
<1> HIDE DEF a, b
<1>4. c \in Seq(Products) /\ Len(c) = i /\ (\A k \in 1..(i - 1) : c[k] = s[k]) /\ c[i] = p
  <2>1. <<p>> \in Seq(Products) /\ Len(<<p>>) = 1 /\ <<p>>[1] = p
    OBVIOUS
  <2>2. /\ c \in Seq(Products) /\ Len(c) = Len(a) + Len(<<p>>)
        /\ \A k \in 1..Len(a) : c[k] = a[k]
        /\ c[Len(a) + 1] = <<p>>[1]
    BY <1>2, <2>1, Joined
  <2> QED
    BY <1>1, <1>2, <2>1, <2>2
<1> HIDE DEF c
<1>5. /\ t \in Seq(Products) /\ Len(t) = Len(s) + 1 /\ DOMAIN t = 1..(Len(s) + 1)
      /\ \A k \in 1..i : t[k] = c[k]
      /\ \A k \in 1..Len(b) : t[i + k] = b[k]
  <2>1. /\ t \in Seq(Products) /\ Len(t) = Len(c) + Len(b) /\ DOMAIN t = 1..(Len(c) + Len(b))
        /\ \A k \in 1..Len(c) : t[k] = c[k]
        /\ \A k \in 1..Len(b) : t[Len(c) + k] = b[k]
    <3>1. c \in Seq(Products) /\ b \in Seq(Products)
      BY <1>3, <1>4
    <3> QED
      BY ONLY <3>1, Joined
  <2>2. Len(c) = i /\ i + Len(b) = Len(s) + 1
    BY <1>1, <1>3, <1>4
  <2> HIDE DEF t
  <2> QED
    BY <2>1, <2>2
<1> HIDE DEF t
<1>6. ASSUME NEW k \in 1..(Len(s) + 1), k # i
      PROVE  From(k) \in 1..Len(s) /\ t[k] = s[From(k)]
  <2>1. CASE k < i
    BY <1>1, <1>4, <1>5, <2>1
  <2>2. CASE k > i
    <3>1. k - i \in 1..Len(b) /\ i + (k - i) - 1 = k - 1 /\ k - 1 \in 1..Len(s)
      BY <1>1, <1>3, <2>2
    <3>2. t[k] = b[k - i]
      <4>1. t[i + (k - i)] = b[k - i]
        BY <1>5, <3>1
      <4> QED
        BY <1>1, <2>2, <4>1
    <3>3. b[k - i] = s[i + (k - i) - 1]
      BY <1>3, <3>1
    <3> QED
      BY <1>1, <2>2, <3>1, <3>2, <3>3
  <2>3. k < i \/ k > i
    BY <1>1, <1>6
  <2> HIDE DEF From
  <2> QED
    BY <2>1, <2>2, <2>3
<1>7. t[i] = p
  BY <1>1, <1>4, <1>5
<1>8. (\A k \in 1..Len(s) : s[k] # p) /\ \A k, l \in 1..Len(s) : s[k] = s[l] => k = l
  BY DEF ToSet, IsInjective
<1>9. ASSUME NEW k \in 1..(Len(s) + 1), NEW l \in 1..(Len(s) + 1), t[k] = t[l]
      PROVE  k = l
  <2>1. k = i <=> l = i
    BY <1>6, <1>7, <1>8, <1>9
  <2>2. CASE k # i /\ l # i
    <3>1. From(k) = From(l)
      <4> HIDE DEF From
      <4> QED
        BY <1>6, <1>8, <1>9, <2>2
    <3> QED
      BY <1>1, <2>2, <3>1
  <2> QED
    BY <2>1, <2>2
<1>10. IsInjective(t)
  BY <1>5, <1>9 DEF IsInjective
<1>11. InsertAt(s, i, p) = t
  BY DEF InsertAt, t, c, b, a
<1> QED
  BY <1>5, <1>10, <1>11

LEMMA ShortenedReport ==
  ASSUME NEW s \in Seq(Products), IsInjective(s), NEW i \in DOMAIN s
  PROVE  RemoveAt(s, i) \in Seq(Products) /\ IsInjective(RemoveAt(s, i))
<1> DEFINE a == SubSeq(s, 1, i - 1)
           b == SubSeq(s, i + 1, Len(s))
           t == a \o b
           From(k) == IF k < i THEN k ELSE k + 1
<1>1. Len(s) \in Nat /\ i \in Nat /\ i >= 1 /\ i <= Len(s)
  OBVIOUS
<1>2. a \in Seq(Products) /\ Len(a) = i - 1 /\ \A k \in 1..(i - 1) : a[k] = s[k]
  BY <1>1, Cut
<1>3. /\ b \in Seq(Products) /\ Len(b) = Len(s) - i
      /\ \A k \in 1..(Len(s) - i) : b[k] = s[i + k]
  BY <1>1, Cut
<1> HIDE DEF a, b
<1>4. /\ t \in Seq(Products) /\ Len(t) = Len(s) - 1 /\ DOMAIN t = 1..(Len(s) - 1)
      /\ \A k \in 1..(i - 1) : t[k] = a[k]
      /\ \A k \in 1..Len(b) : t[(i - 1) + k] = b[k]
  <2>1. /\ t \in Seq(Products) /\ Len(t) = Len(a) + Len(b) /\ DOMAIN t = 1..(Len(a) + Len(b))
        /\ \A k \in 1..Len(a) : t[k] = a[k]
        /\ \A k \in 1..Len(b) : t[Len(a) + k] = b[k]
    <3>1. a \in Seq(Products) /\ b \in Seq(Products)
      BY <1>2, <1>3
    <3> QED
      BY ONLY <3>1, Joined
  <2>2. Len(a) = i - 1 /\ (i - 1) + Len(b) = Len(s) - 1
    BY <1>1, <1>2, <1>3
  <2> HIDE DEF t
  <2> QED
    BY <2>1, <2>2
<1> HIDE DEF t
<1>5. ASSUME NEW k \in 1..(Len(s) - 1)
      PROVE  From(k) \in 1..Len(s) /\ t[k] = s[From(k)]
  <2>1. CASE k < i
    <3>1. k \in 1..(i - 1) /\ k \in 1..Len(s) /\ From(k) = k
      BY <1>1, <2>1
    <3>2. t[k] = a[k] /\ a[k] = s[k]
      BY <1>2, <1>4, <3>1
    <3> HIDE DEF From
    <3> QED
      BY ONLY <3>1, <3>2
  <2>2. CASE k >= i
    <3>1. k + 1 - i \in 1..Len(b) /\ i + (k + 1 - i) = k + 1 /\ k + 1 \in 1..Len(s)
      BY <1>1, <1>3, <2>2
    <3>2. t[k] = b[k + 1 - i]
      <4>1. \A n \in 1..Len(b) : t[(i - 1) + n] = b[n]
        BY ONLY <1>4
      <4>2. t[(i - 1) + (k + 1 - i)] = b[k + 1 - i]
        BY ONLY <3>1, <4>1
      <4>3. (i - 1) + (k + 1 - i) = k
        BY <1>1, <2>2
      <4> QED
        BY ONLY <4>2, <4>3
    <3>3. b[k + 1 - i] = s[i + (k + 1 - i)]
      BY <1>3, <3>1
    <3> QED
      BY <1>1, <2>2, <3>1, <3>2, <3>3
  <2>3. k < i \/ k >= i
    BY <1>1
  <2> HIDE DEF From
  <2> QED
    BY <2>1, <2>2, <2>3
<1>6. \A k, l \in 1..Len(s) : s[k] = s[l] => k = l
  BY DEF IsInjective
<1>7. ASSUME NEW k \in 1..(Len(s) - 1), NEW l \in 1..(Len(s) - 1), t[k] = t[l]
      PROVE  k = l
  <2>1. From(k) = From(l)
    <3> HIDE DEF From
    <3> QED
      BY <1>5, <1>6, <1>7
  <2> QED
    BY <1>1, <2>1
<1>8. IsInjective(t)
  BY <1>4, <1>7 DEF IsInjective
<1>9. RemoveAt(s, i) = t
  BY DEF RemoveAt, t, b, a
<1> QED
  BY <1>4, <1>8, <1>9

-----------------------------------------------------------------------------
(* Types *)

LEMMA InitType == Init => TypeOK
<1> SUFFICES ASSUME Init PROVE TypeOK
  OBVIOUS
<1>1. report \in Seq(Products) /\ IsInjective(report)
  <2>1. report \in SetToAllKPermutations(Products)
    BY Zenon DEF Init
  <2>2. PICK s \in SUBSET Products : report \in SetToSeqs(s)
    BY <2>1 DEF SetToAllKPermutations
  <2>3. Cardinality(s) \in Nat
    BY FiniteAssumption, FS_Subset, FS_CardinalityType
  <2> QED
    BY <2>2, <2>3 DEF SetToSeqs, IsInjective
<1>2. /\ qty \in [Products -> [Stores -> Quantities]]
      /\ warehouses \subseteq Stores /\ stores = {} /\ snapshots = 0
  BY Zenon DEF Init
<1>3. Nothing \in [Products -> [Stores -> Nat]] /\ MaxSnapshots \in Nat
  BY BoundAssumption DEF Nothing
<1>4. details \in [1..MaxSnapshots -> [Products -> [Stores -> Nat]]]
  <2>1. details = [i \in 1..MaxSnapshots |-> Nothing]
    BY Zenon DEF Init
  <2> QED
    BY <1>3, <2>1
<1>5. totals \in [Products -> [sum : Nat, snapshot : 0..snapshots]]
  <2>1. totals = [p \in Products |-> NoTotal]
    BY Zenon DEF Init
  <2> QED
    BY <1>2, <2>1 DEF NoTotal
<1>6. /\ pc = [j \in Jobs |-> "idle"] /\ fetched = [j \in Jobs |-> {}]
      /\ snapshot = [j \in Jobs |-> 0] /\ offset = [j \in Jobs |-> 0]
      /\ raw = [j \in Jobs |-> <<>>] /\ status = [j \in Jobs |-> "success"]
      /\ live = [j \in Jobs |-> TRUE] /\ moved = [j \in Jobs |-> FALSE]
      /\ shown = [j \in Jobs |-> [p \in Products |-> [s \in Stores |-> {}]]]
  BY Zenon DEF Init
<1>7. \A j \in Jobs : raw[j] = <<>> /\ raw[j] \in Seq(Row)
  BY <1>6
<1>8. raw \in [Jobs -> Seq(Row)]
  BY <1>6, <1>7
<1>9. /\ shown \in [Jobs -> [Products -> [Stores -> SUBSET Nat]]]
  BY <1>6
<1> QED
  BY <1>1, <1>2, <1>3, <1>4, <1>5, <1>6, <1>8, <1>9 DEF TypeOK, Row

\* What the running jobs are shown is a whole number.
LEMMA ShowType ==
  ASSUME TypeOK, Show, report' \in Seq(Products), qty' \in [Products -> [Stores -> Quantities]]
  PROVE  shown' \in [Jobs -> [Products -> [Stores -> SUBSET Nat]]]
<1>1. \A p \in Products, s \in Stores : Said(p, s)' \in Nat
  BY WholeType DEF Said
<1> QED
  BY <1>1 DEF Show, TypeOK

LEMMA MoveType == TypeOK /\ Move => moved' \in [Jobs -> BOOLEAN]
  BY Zenon DEF Move, TypeOK

LEMMA GiveUpType ==
  ASSUME TypeOK, NEW j \in Jobs, GiveUp(j)
  PROVE  /\ pc' \in [Jobs -> {"idle", "stores", "upsertStores", "snapshot", "page", "details",
                              "totals", "log"}]
         /\ status' \in [Jobs -> {"success", "error"}]
  BY DEF GiveUp, Goto, TypeOK

LEMMA UpstreamType == TypeOK /\ (InsertRow \/ RemoveRow \/ SetQuantity \/ OpenStore) => TypeOK'
<1> SUFFICES ASSUME TypeOK PROVE InsertRow \/ RemoveRow \/ SetQuantity \/ OpenStore => TypeOK'
  OBVIOUS
<1> USE DEF Changed, db, locals
<1>1. CASE InsertRow
  <2>1. PICK p \in Products \ ToSet(report), i \in 1..Len(report) + 1, q \in [Stores -> Quantities] :
          /\ report' = InsertAt(report, i, p)
          /\ qty' = [qty EXCEPT ![p] = q]
    BY <1>1 DEF InsertRow
  <2>2. report' \in Seq(Products) /\ IsInjective(report')
    BY <2>1, InsertedReport DEF TypeOK
  <2>3. qty' \in [Products -> [Stores -> Quantities]]
    BY <2>1 DEF TypeOK
  <2>4. shown' \in [Jobs -> [Products -> [Stores -> SUBSET Nat]]] /\ moved' \in [Jobs -> BOOLEAN]
    BY <1>1, <2>2, <2>3, ShowType, MoveType DEF InsertRow
  <2> QED
    BY <1>1, <2>2, <2>3, <2>4 DEF InsertRow, TypeOK
<1>2. CASE RemoveRow
  <2>1. PICK i \in DOMAIN report : report' = RemoveAt(report, i)
    BY <1>2 DEF RemoveRow
  <2>2. report' \in Seq(Products) /\ IsInjective(report')
    BY <2>1, ShortenedReport DEF TypeOK
  <2>3. qty' \in [Products -> [Stores -> Quantities]]
    BY <1>2 DEF RemoveRow, TypeOK
  <2>4. shown' \in [Jobs -> [Products -> [Stores -> SUBSET Nat]]] /\ moved' \in [Jobs -> BOOLEAN]
    BY <1>2, <2>2, <2>3, ShowType, MoveType DEF RemoveRow
  <2> QED
    BY <1>2, <2>2, <2>3, <2>4 DEF RemoveRow, TypeOK
<1>3. CASE SetQuantity
  <2>1. qty' \in [Products -> [Stores -> Quantities]] /\ report' \in Seq(Products)
    <3>1. PICK p \in ToSet(report), s \in warehouses, q \in Quantities :
            qty' = [qty EXCEPT ![p][s] = q]
      BY <1>3 DEF SetQuantity
    <3>2. p \in Products /\ qty \in [Products -> [Stores -> Quantities]]
      BY DEF TypeOK, ToSet
    <3>3. [qty[p] EXCEPT ![s] = q] \in [Stores -> Quantities]
      BY <3>2
    <3>4. qty' \in [Products -> [Stores -> Quantities]]
      BY <3>1, <3>2, <3>3
    <3> QED
      BY <1>3, <3>4 DEF SetQuantity, TypeOK
  <2>2. shown' \in [Jobs -> [Products -> [Stores -> SUBSET Nat]]]
    BY <1>3, <2>1, ShowType DEF SetQuantity
  <2> QED
    BY <1>3, <2>1, <2>2 DEF SetQuantity, TypeOK
<1>4. CASE OpenStore
  <2>1. qty' \in [Products -> [Stores -> Quantities]] /\ report' \in Seq(Products)
    BY <1>4 DEF OpenStore, TypeOK
  <2>2. shown' \in [Jobs -> [Products -> [Stores -> SUBSET Nat]]]
    BY <1>4, <2>1, ShowType DEF OpenStore
  <2> QED
    BY <1>4, <2>1, <2>2 DEF OpenStore, TypeOK
<1> QED
  BY <1>1, <1>2, <1>3, <1>4

LEMMA StepType ==
  ASSUME TypeOK, NEW j \in Jobs, Start(j) \/ Step(j) \/ Crash(j) \/ Cancel(j)
  PROVE  TypeOK'
<1> USE DEF Goto, upstream, db, locals, history
<1>1. CASE Start(j)
  <2>1. \A p \in Products, s \in Stores : Said(p, s) \in Nat
    BY WholeType DEF Said, TypeOK
  <2> DEFINE now == [p \in Products |-> [s \in Stores |-> {Said(p, s)}]]
  <2>2. now \in [Products -> [Stores -> SUBSET Nat]]
    BY <2>1
  <2> HIDE DEF now
  <2>3. shown' = [shown EXCEPT ![j] = now] /\ raw' = [raw EXCEPT ![j] = <<>>]
    BY <1>1 DEF Start, now
  <2>4. shown' \in [Jobs -> [Products -> [Stores -> SUBSET Nat]]]
    BY <2>2, <2>3 DEF TypeOK
  <2>5. <<>> \in Seq(Row)
    OBVIOUS
  <2>6. raw' \in [Jobs -> Seq(Row)]
    BY <2>3, <2>5 DEF TypeOK, Row
  <2>7. snapshot' \in [Jobs -> 0..snapshots]
    BY <1>1 DEF Start, TypeOK
  <2>8. /\ pc' = [pc EXCEPT ![j] = "stores"]
        /\ live' = [live EXCEPT ![j] = TRUE]
        /\ status' = [status EXCEPT ![j] = "success"]
        /\ fetched' = [fetched EXCEPT ![j] = {}]
        /\ offset' = [offset EXCEPT ![j] = 0]
        /\ moved' = [moved EXCEPT ![j] = FALSE]
        /\ UNCHANGED <<report, qty, warehouses, stores, snapshots, details, totals>>
    BY <1>1 DEF Start
  <2> QED
    BY <2>4, <2>6, <2>7, <2>8 DEF TypeOK, Row
<1>2. CASE FetchStores(j)
  BY <1>2, GiveUpType DEF FetchStores, TypeOK
<1>3. CASE UpsertStores(j)
  BY <1>3, GiveUpType DEF UpsertStores, TypeOK
<1>4. CASE CreateSnapshot(j)
  <2>1. snapshots \in 0..MaxSnapshots /\ MaxSnapshots \in Nat /\ snapshots' \in {snapshots, snapshots + 1}
    BY <1>4, BoundAssumption DEF CreateSnapshot, TypeOK
  <2>2. snapshots' \in 0..MaxSnapshots /\ 0..snapshots \subseteq 0..snapshots'
    BY <1>4, <2>1 DEF CreateSnapshot
  <2>3. totals' \in [Products -> [sum : Nat, snapshot : 0..snapshots']]
    BY <1>4, <2>2 DEF CreateSnapshot, TypeOK
  <2>4. snapshot' \in [Jobs -> 0..snapshots']
    <3>1. snapshot' = [snapshot EXCEPT ![j] = snapshots'] \/ snapshot' = snapshot
      BY <1>4, Zenon DEF CreateSnapshot
    <3>2. snapshots' \in 0..snapshots' /\ snapshot \in [Jobs -> 0..snapshots]
      BY <2>2 DEF TypeOK
    <3> QED
      BY <2>2, <3>1, <3>2
  <2>5. /\ pc' \in [Jobs -> {"idle", "stores", "upsertStores", "snapshot", "page", "details",
                             "totals", "log"}]
        /\ status' \in [Jobs -> {"success", "error"}]
    BY <1>4, GiveUpType DEF CreateSnapshot, TypeOK
  <2> QED
    BY <1>4, <2>2, <2>3, <2>4, <2>5 DEF CreateSnapshot, TypeOK
<1>5. CASE FetchStockByStorePage(j)
  <2>1. /\ offset[j] \in Nat /\ PageAt(offset[j]) \in Seq(Row) /\ raw[j] \in Seq(Row)
        /\ Limit \in Nat
    BY PageIs, LimitAssumption DEF TypeOK, Row
  <2>2. raw[j] \o PageAt(offset[j]) \in Seq(Row)
    BY <2>1
  <2>3. raw' \in [Jobs -> Seq(Row)] /\ offset' \in [Jobs -> Nat]
    <3>1. /\ raw' = [raw EXCEPT ![j] = raw[j] \o PageAt(offset[j])] \/ raw' = raw
          /\ offset' = [offset EXCEPT ![j] = offset[j] + Limit] \/ offset' = offset
      BY <1>5, Zenon DEF FetchStockByStorePage
    <3>2. offset[j] + Limit \in Nat
      BY <2>1
    <3>3. raw \in [Jobs -> Seq(Row)] /\ offset \in [Jobs -> Nat]
      BY DEF TypeOK, Row
    <3> QED
      BY <2>2, <3>1, <3>2, <3>3
  <2>4. /\ pc' \in [Jobs -> {"idle", "stores", "upsertStores", "snapshot", "page", "details",
                             "totals", "log"}]
        /\ status' \in [Jobs -> {"success", "error"}]
    <3>1. CASE GiveUp(j)
      BY <3>1, GiveUpType
    <3>2. CASE ~GiveUp(j)
      <4> DEFINE next == CASE raw'[j] = <<>> -> "log"
                           [] raw'[j] # <<>> /\ DetailRows(Details(raw'[j])) = {} -> "totals"
                           [] OTHER -> "details"
      <4>1. next \in {"log", "totals", "details"}
        OBVIOUS
      <4>2. UNCHANGED status /\ (pc' = [pc EXCEPT ![j] = "page"] \/ pc' = [pc EXCEPT ![j] = next])
        BY <1>5, <3>2, Zenon DEF FetchStockByStorePage
      <4> HIDE DEF next
      <4> QED
        BY <4>1, <4>2 DEF TypeOK
    <3> QED
      BY <3>1, <3>2
  <2> QED
    BY <1>5, <2>3, <2>4 DEF FetchStockByStorePage, TypeOK, Row
<1>6. CASE InsertStockDetails(j)
  <2>1. Details(raw[j]) \in [Products -> [Stores -> Nat]]
    BY DetailsType DEF TypeOK, Row
  <2>2. details' \in [1..MaxSnapshots -> [Products -> [Stores -> Nat]]]
    BY <1>6, <2>1 DEF InsertStockDetails, TypeOK
  <2> QED
    BY <1>6, <2>2, GiveUpType DEF InsertStockDetails, TypeOK
<1>7. CASE UpsertProductTotals(j)
  <2>1. \A p \in Products : Total(raw[j], p) \in Nat
    BY TotalType DEF TypeOK, Row
  <2>2. snapshot[j] \in 0..snapshots
    BY DEF TypeOK
  <2>3. totals' \in [Products -> [sum : Nat, snapshot : 0..snapshots]]
    BY <1>7, <2>1, <2>2 DEF UpsertProductTotals, TypeOK
  <2> QED
    BY <1>7, <2>3, GiveUpType DEF UpsertProductTotals, TypeOK
<1>8. CASE InsertMsJobLog(j)
  BY <1>8 DEF InsertMsJobLog, TypeOK
<1>9. CASE Crash(j)
  BY <1>9 DEF Crash, TypeOK
<1>10. CASE Cancel(j)
  BY <1>10 DEF Cancel, TypeOK
<1> QED
  BY <1>1, <1>2, <1>3, <1>4, <1>5, <1>6, <1>7, <1>8, <1>9, <1>10 DEF Step

LEMMA NextType == TypeOK /\ [Next]_vars => TypeOK'
<1> SUFFICES ASSUME TypeOK, [Next]_vars PROVE TypeOK'
  OBVIOUS
<1>1. CASE UNCHANGED vars
  BY <1>1 DEF vars, upstream, db, locals, history, TypeOK
<1>2. CASE Next
  BY <1>2, UpstreamType, StepType DEF Next
<1> QED
  BY <1>1, <1>2

\* The variables keep their types: a snapshot id in a run or beside a total is
\* one that ms_snapshots has given out (service/moysklad.go:103-113).
THEOREM TypeCorrect == Spec => []TypeOK
<1>1. Init => TypeOK
  BY InitType
<1>2. TypeOK /\ [Next]_vars => TypeOK'
  BY NextType
<1> QED
  BY <1>1, <1>2, PTL DEF Spec

-----------------------------------------------------------------------------
(* Snapshots, details and totals *)

LEMMA AckedCommits == ~LoseCommit => ~Strikes("commit")
  BY DEF LoseCommit, Strikes

\* A step that leaves snapshots, details and totals alone.
LEMMA QuietStep ==
  ASSUME SnapshotInv, TypeOK', UNCHANGED <<snapshots, details, totals, snapshot>>,
         \A k \in Jobs : pc'[k] \in {"page", "details"} => pc[k] \in {"page", "details"},
         \A k \in Jobs : HasSnapshot(k)' => snapshot[k] # 0,
         \A k \in Jobs : pc'[k] = "totals" \/ Done(k)' => details[snapshot[k]] = Details(raw'[k])
  PROVE  SnapshotInv'
<1>1. OwnSnapshots'
  BY DEF SnapshotInv, OwnSnapshots
<1>2. FreshSnapshots'
  BY DEF SnapshotInv, FreshSnapshots
<1>3. DetailsStored'
  BY DEF SnapshotInv, DetailsStored
<1>4. TotalsMatchDetails'
  BY DEF SnapshotInv, TotalsMatchDetails
<1> QED
  BY <1>1, <1>2, <1>3, <1>4 DEF SnapshotInv

\* A job moved on to a place without a snapshot of its own to fill, and with
\* what it has read and written as before.
LEMMA GoneOn ==
  ASSUME SnapshotInv, TypeOK', UNCHANGED <<snapshots, details, totals, snapshot, raw>>,
         NEW j \in Jobs, pc'[j] \notin {"page", "details", "totals"}, ~Done(j)',
         \A k \in Jobs \ {j} : pc'[k] = pc[k] /\ status'[k] = status[k]
  PROVE  SnapshotInv'
<1>1. ASSUME NEW k \in Jobs, k # j
      PROVE  pc'[k] = pc[k] /\ (HasSnapshot(k)' <=> HasSnapshot(k)) /\ (Done(k)' <=> Done(k))
  BY <1>1, Zenon DEF HasSnapshot, Done
<1>2. ~HasSnapshot(j)'
  BY DEF HasSnapshot
<1>3. \A k \in Jobs : pc'[k] \in {"page", "details"} => pc[k] \in {"page", "details"}
  BY <1>1
<1>4. \A k \in Jobs : HasSnapshot(k)' => snapshot[k] # 0
  BY <1>1, <1>2 DEF SnapshotInv, OwnSnapshots
<1>5. \A k \in Jobs : pc'[k] = "totals" \/ Done(k)' => details[snapshot[k]] = Details(raw'[k])
  BY <1>1 DEF SnapshotInv, DetailsStored
<1> QED
  BY <1>3, <1>4, <1>5, QuietStep

\* A run that fails is at its log entry, not done; the others stay.
LEMMA GaveUp ==
  ASSUME TypeOK, NEW j \in Jobs, GiveUp(j)
  PROVE  /\ pc'[j] = "log" /\ ~Done(j)'
         /\ \A k \in Jobs \ {j} : pc'[k] = pc[k] /\ status'[k] = status[k]
  BY DEF GiveUp, Goto, Done, TypeOK

LEMMA MovedOn ==
  ASSUME TypeOK, NEW j \in Jobs, NEW l, Goto(j, l)
  PROVE  pc'[j] = l /\ \A k \in Jobs \ {j} : pc'[k] = pc[k]
  BY DEF Goto, TypeOK

\* The snapshot of a run that fills one is its own.
LEMMA OwnSnapshot ==
  ASSUME TypeOK, OwnSnapshots, NEW j \in Jobs, HasSnapshot(j)
  PROVE  /\ snapshot[j] \in 1..MaxSnapshots /\ snapshot[j] <= snapshots
         /\ \A k \in Jobs \ {j} : snapshot[k] # snapshot[j]
<1>1. snapshot[j] \in 0..snapshots /\ snapshots \in 0..MaxSnapshots /\ MaxSnapshots \in Nat
  BY BoundAssumption DEF TypeOK
<1>2. snapshot[j] # 0 /\ \A k \in Jobs \ {j} : snapshot[k] # snapshot[j]
  BY DEF OwnSnapshots
<1> QED
  BY <1>1, <1>2

LEMMA SnapshotCreate ==
  ASSUME SnapshotInv, TypeOK', NEW j \in Jobs, CreateSnapshot(j)
  PROVE  SnapshotInv'
<1>1. /\ TypeOK /\ pc[j] = "snapshot" /\ UNCHANGED <<details, totals, raw>>
      /\ snapshots \in Nat /\ snapshots' \in {snapshots, snapshots + 1}
      /\ \A p \in Products : totals[p].snapshot \in 0..snapshots
      /\ \A k \in Jobs : snapshot[k] \in 0..snapshots
  <2>1. TypeOK
    BY DEF SnapshotInv
  <2>2. snapshots \in 0..MaxSnapshots /\ MaxSnapshots \in Nat
    BY <2>1, BoundAssumption DEF TypeOK
  <2>3. pc[j] = "snapshot" /\ UNCHANGED <<details, totals, raw>> /\ snapshots' \in {snapshots, snapshots + 1}
    BY DEF CreateSnapshot
  <2>4. /\ \A p \in Products : totals[p].snapshot \in 0..snapshots
        /\ \A k \in Jobs : snapshot[k] \in 0..snapshots
    BY <2>1 DEF TypeOK
  <2> QED
    BY <2>1, <2>2, <2>3, <2>4
<1>2. ASSUME NEW i \in 1..MaxSnapshots, i > snapshots'
      PROVE  details'[i] = Nothing
  BY <1>1, <1>2 DEF SnapshotInv, FreshSnapshots
<1>3. TotalsMatchDetails'
  BY <1>1 DEF SnapshotInv, TotalsMatchDetails
<1>4. CASE GiveUp(j)
  <2>1. UNCHANGED snapshot
    <3>1. pc'[j] = "log"
      BY <1>1, <1>4, GaveUp
    <3>2. ~Goto(j, "page")
      BY <1>1, <3>1, MovedOn
    <3> QED
      BY <3>2, Zenon DEF CreateSnapshot
  <2>2. ~HasSnapshot(j)' /\ pc'[j] = "log" /\ ~Done(j)'
    BY <1>1, <1>4, GaveUp DEF HasSnapshot
  <2>3. ASSUME NEW k \in Jobs, k # j
        PROVE  pc'[k] = pc[k] /\ (HasSnapshot(k)' <=> HasSnapshot(k)) /\ (Done(k)' <=> Done(k))
    <3>1. pc'[k] = pc[k] /\ status'[k] = status[k] /\ raw' = raw
      BY <1>1, <1>4, <2>3, GaveUp
    <3> QED
      BY <3>1, Zenon DEF HasSnapshot, Done
  <2>4. OwnSnapshots'
    BY <2>1, <2>2, <2>3 DEF SnapshotInv, OwnSnapshots
  <2>5. FreshSnapshots'
    BY <1>1, <1>2, <2>1, <2>2, <2>3 DEF SnapshotInv, FreshSnapshots
  <2>6. DetailsStored'
    BY <1>1, <2>1, <2>2, <2>3 DEF SnapshotInv, DetailsStored
  <2> QED
    BY <1>3, <2>4, <2>5, <2>6 DEF SnapshotInv
<1>5. CASE ~GiveUp(j)
  <2>1. /\ snapshots' = snapshots + 1 /\ snapshots < MaxSnapshots /\ Goto(j, "page")
        /\ snapshot' = [snapshot EXCEPT ![j] = snapshots'] /\ UNCHANGED status
    BY <1>5, Zenon DEF CreateSnapshot
  <2>2. snapshot'[j] = snapshots + 1 /\ \A k \in Jobs \ {j} : snapshot'[k] = snapshot[k]
    BY <1>1, <2>1 DEF TypeOK
  <2>3. pc'[j] = "page" /\ \A k \in Jobs \ {j} : pc'[k] = pc[k]
    BY <1>1, <2>1, MovedOn
  <2>4. ASSUME NEW k \in Jobs, k # j
        PROVE  (HasSnapshot(k)' <=> HasSnapshot(k)) /\ (Done(k)' <=> Done(k))
    <3>1. pc'[k] = pc[k] /\ status' = status /\ raw' = raw
      BY <1>1, <2>1, <2>3, <2>4
    <3> QED
      BY <3>1, Zenon DEF HasSnapshot, Done
  <2>5. ~Done(j)'
    BY <2>3 DEF Done
  <2>6. OwnSnapshots'
    <3>1. ASSUME NEW k \in Jobs, HasSnapshot(k)' PROVE snapshot'[k] # 0
      BY <1>1, <2>2, <2>4, <3>1 DEF SnapshotInv, OwnSnapshots
    <3>2. ASSUME NEW k \in Jobs, NEW l \in Jobs, snapshot'[k] = snapshot'[l], snapshot'[k] # 0
          PROVE  k = l
      <4>1. \A m \in Jobs \ {j} : snapshot'[m] # snapshot'[j]
        BY <1>1, <2>2
      <4> QED
        BY <2>2, <3>2, <4>1 DEF SnapshotInv, OwnSnapshots
    <3> QED
      BY <3>1, <3>2 DEF OwnSnapshots
  <2>7. FreshSnapshots'
    <3>1. snapshots + 1 \in 1..MaxSnapshots /\ snapshots + 1 > snapshots
      BY <1>1, <2>1, BoundAssumption
    <3>2. details[snapshots + 1] = Nothing
      BY <3>1 DEF SnapshotInv, FreshSnapshots
    <3>3. \A p \in Products : totals[p].snapshot # snapshots + 1
      BY <1>1
    <3>4. ASSUME NEW k \in Jobs, pc'[k] \in {"page", "details"}
          PROVE  /\ details'[snapshot'[k]] = Nothing
                 /\ \A p \in Products : totals'[p].snapshot # snapshot'[k]
      <4>1. CASE k = j
        BY <1>1, <2>2, <3>2, <3>3, <4>1
      <4>2. CASE k # j
        <5>1. pc[k] \in {"page", "details"} /\ snapshot'[k] = snapshot[k]
          BY <2>2, <2>3, <3>4, <4>2
        <5> QED
          BY <1>1, <5>1 DEF SnapshotInv, FreshSnapshots
      <4> QED
        BY <4>1, <4>2
    <3> QED
      BY <1>2, <3>4 DEF FreshSnapshots
  <2>8. DetailsStored'
    BY <1>1, <2>2, <2>3, <2>4, <2>5 DEF SnapshotInv, DetailsStored
  <2> QED
    BY <1>3, <2>6, <2>7, <2>8 DEF SnapshotInv
<1> QED
  BY <1>4, <1>5

LEMMA SnapshotInsert ==
  ASSUME SnapshotInv, TypeOK', ~LoseCommit, NEW j \in Jobs, InsertStockDetails(j)
  PROVE  SnapshotInv'
<1> DEFINE inserted == [details EXCEPT ![snapshot[j]] = Details(raw[j])]
<1>1. /\ TypeOK /\ pc[j] = "details" /\ HasSnapshot(j)
      /\ UNCHANGED <<totals, raw, snapshots, snapshot>>
  BY DEF InsertStockDetails, SnapshotInv, HasSnapshot
<1>2. /\ \/ Goto(j, "totals") /\ UNCHANGED status /\ details' = inserted
         \/ GiveUp(j)
      /\ details' = inserted \/ details' = details
  BY AckedCommits, Zenon DEF InsertStockDetails
<1>3. /\ \/ pc'[j] = "totals" /\ details' = inserted
         \/ pc'[j] = "log" /\ ~Done(j)'
      /\ \A k \in Jobs \ {j} : pc'[k] = pc[k] /\ status'[k] = status[k]
  <2>1. CASE GiveUp(j)
    BY <1>1, <2>1, GaveUp
  <2>2. CASE Goto(j, "totals") /\ UNCHANGED status /\ details' = inserted
    BY <1>1, <2>2, MovedOn
  <2> QED
    BY <1>2, <2>1, <2>2
<1>4. /\ snapshot[j] \in 1..MaxSnapshots /\ snapshot[j] <= snapshots
      /\ \A k \in Jobs \ {j} : snapshot[k] # snapshot[j]
  BY <1>1, OwnSnapshot DEF SnapshotInv
<1>5. \A p \in Products : totals[p].snapshot # snapshot[j]
  BY <1>1 DEF SnapshotInv, FreshSnapshots
<1>6. /\ details' = inserted => details'[snapshot[j]] = Details(raw[j])
      /\ \A i \in 1..MaxSnapshots : i # snapshot[j] => details'[i] = details[i]
  BY <1>1, <1>2, <1>4 DEF TypeOK
<1> HIDE DEF inserted
<1>7. ASSUME NEW k \in Jobs, k # j
      PROVE  (HasSnapshot(k)' <=> HasSnapshot(k)) /\ (Done(k)' <=> Done(k)) /\ pc'[k] = pc[k]
  <2>1. pc'[k] = pc[k] /\ status'[k] = status[k] /\ raw' = raw
    BY <1>1, <1>3, <1>7
  <2> QED
    BY <2>1, Zenon DEF HasSnapshot, Done
<1>8. OwnSnapshots'
  BY <1>1, <1>4, <1>7 DEF SnapshotInv, OwnSnapshots
<1>9. FreshSnapshots'
  <2>1. ASSUME NEW i \in 1..MaxSnapshots, i > snapshots PROVE details'[i] = Nothing
    <3>1. i # snapshot[j]
      BY <1>4, <2>1, BoundAssumption, <1>1 DEF TypeOK
    <3> QED
      BY <1>6, <2>1, <3>1 DEF SnapshotInv, FreshSnapshots
  <2>2. ASSUME NEW k \in Jobs, pc'[k] \in {"page", "details"}
        PROVE  /\ details'[snapshot[k]] = Nothing
               /\ \A p \in Products : totals[p].snapshot # snapshot[k]
    <3>1. k # j /\ pc[k] \in {"page", "details"} /\ snapshot[k] # snapshot[j]
      BY <1>3, <1>4, <1>7, <2>2
    <3>2. snapshot[k] \in 1..MaxSnapshots
      BY <1>1, <3>1, OwnSnapshot DEF SnapshotInv, HasSnapshot
    <3> QED
      BY <1>6, <3>1, <3>2 DEF SnapshotInv, FreshSnapshots
  <2> QED
    BY <1>1, <2>1, <2>2 DEF FreshSnapshots
<1>10. DetailsStored'
  <2>1. ASSUME NEW k \in Jobs, pc'[k] = "totals" \/ Done(k)'
        PROVE  details'[snapshot[k]] = Details(raw[k])
    <3>1. CASE k = j
      <4>1. pc'[j] = "totals"
        BY <1>3, <2>1, <3>1
      <4> QED
        BY <1>3, <1>6, <3>1, <4>1
    <3>2. CASE k # j
      <4>1. (pc[k] = "totals" \/ Done(k)) /\ snapshot[k] # snapshot[j]
        BY <1>4, <1>7, <2>1, <3>2
      <4>2. snapshot[k] \in 1..MaxSnapshots
        BY <1>1, <4>1, OwnSnapshot DEF SnapshotInv, HasSnapshot
      <4> QED
        BY <1>6, <4>1, <4>2 DEF SnapshotInv, DetailsStored
    <3> QED
      BY <3>1, <3>2
  <2> QED
    BY <1>1, <2>1 DEF DetailsStored
<1>11. TotalsMatchDetails'
  <2>1. ASSUME NEW p \in Products, totals[p].snapshot # 0
        PROVE  details'[totals[p].snapshot] = details[totals[p].snapshot]
    <3>1. totals[p].snapshot \in 0..snapshots /\ snapshots \in 0..MaxSnapshots /\ MaxSnapshots \in Nat
      BY <1>1, BoundAssumption DEF TypeOK
    <3>2. totals[p].snapshot \in 1..MaxSnapshots
      BY <2>1, <3>1
    <3> QED
      BY <1>5, <1>6, <3>2
  <2> QED
    BY <1>1, <2>1 DEF SnapshotInv, TotalsMatchDetails
<1> QED
  BY <1>8, <1>9, <1>10, <1>11 DEF SnapshotInv

LEMMA SnapshotTotals ==
  ASSUME SnapshotInv, TypeOK', NEW j \in Jobs, UpsertProductTotals(j)
  PROVE  SnapshotInv'
<1> DEFINE upserted == [p \in Products |->
                          IF p \in Named(raw[j])
                            THEN [sum |-> Total(raw[j], p), snapshot |-> snapshot[j]]
                            ELSE totals[p]]
<1>1. /\ TypeOK /\ pc[j] = "totals" /\ HasSnapshot(j) /\ raw[j] \in Seq(Row)
      /\ UNCHANGED <<details, raw, snapshots, snapshot>>
  BY DEF UpsertProductTotals, SnapshotInv, HasSnapshot, TypeOK, Row
<1>2. /\ \/ Goto(j, "log") /\ UNCHANGED status
         \/ GiveUp(j)
      /\ totals' = upserted \/ totals' = totals
  BY Zenon DEF UpsertProductTotals
<1>3. /\ pc'[j] = "log"
      /\ \A k \in Jobs \ {j} : pc'[k] = pc[k] /\ status'[k] = status[k]
  <2>1. CASE GiveUp(j)
    BY <1>1, <2>1, GaveUp
  <2>2. CASE Goto(j, "log") /\ UNCHANGED status
    BY <1>1, <2>2, MovedOn
  <2> QED
    BY <1>2, <2>1, <2>2
<1>4. /\ snapshot[j] # 0 /\ details[snapshot[j]] = Details(raw[j])
      /\ \A k \in Jobs \ {j} : snapshot[k] # snapshot[j]
  BY <1>1, OwnSnapshot DEF SnapshotInv, DetailsStored, OwnSnapshots
<1>5. ASSUME NEW p \in Products
      PROVE  \/ totals'[p] = totals[p]
             \/ /\ totals'[p].snapshot = snapshot[j]
                /\ totals'[p].sum = Total(raw[j], p)
  BY <1>2
<1> HIDE DEF upserted
<1>6. ASSUME NEW k \in Jobs, k # j
      PROVE  (HasSnapshot(k)' <=> HasSnapshot(k)) /\ (Done(k)' <=> Done(k)) /\ pc'[k] = pc[k]
  <2>1. pc'[k] = pc[k] /\ status'[k] = status[k] /\ raw' = raw
    BY <1>1, <1>3, <1>6
  <2> QED
    BY <2>1, Zenon DEF HasSnapshot, Done
<1>7. OwnSnapshots'
  BY <1>1, <1>4, <1>6 DEF SnapshotInv, OwnSnapshots
<1>8. FreshSnapshots'
  <2>1. ASSUME NEW k \in Jobs, pc'[k] \in {"page", "details"}
        PROVE  /\ details[snapshot[k]] = Nothing
               /\ \A p \in Products : totals'[p].snapshot # snapshot[k]
    <3>1. pc[k] \in {"page", "details"} /\ snapshot[k] # snapshot[j]
      BY <1>3, <1>4, <1>6, <2>1
    <3>2. /\ details[snapshot[k]] = Nothing
          /\ \A p \in Products : totals[p].snapshot # snapshot[k]
      BY <3>1 DEF SnapshotInv, FreshSnapshots
    <3> QED
      BY <1>5, <3>1, <3>2
  <2> QED
    BY <1>1, <2>1 DEF SnapshotInv, FreshSnapshots
<1>9. DetailsStored'
  <2>1. ASSUME NEW k \in Jobs, pc'[k] = "totals" \/ Done(k)'
        PROVE  pc[k] = "totals" \/ Done(k)
    BY <1>1, <1>3, <1>6, <2>1
  <2> QED
    BY <1>1, <2>1 DEF SnapshotInv, DetailsStored
<1>10. TotalsMatchDetails'
  <2>1. ASSUME NEW p \in Products, totals'[p].snapshot # 0
        PROVE  totals'[p].sum = SumFunctionOnSet(details[totals'[p].snapshot][p], Stores)
    <3>1. CASE totals'[p] = totals[p]
      BY <2>1, <3>1 DEF SnapshotInv, TotalsMatchDetails
    <3>2. CASE totals'[p].snapshot = snapshot[j] /\ totals'[p].sum = Total(raw[j], p)
      BY <1>1, <1>4, <3>2, TotalIsDetails
    <3> QED
      BY <1>5, <3>1, <3>2
  <2> QED
    BY <1>1, <2>1 DEF TotalsMatchDetails
<1> QED
  BY <1>7, <1>8, <1>9, <1>10 DEF SnapshotInv

\* No rows to insert, no figures.
LEMMA NoRows ==
  ASSUME NEW r, DetailRows(Details(r)) = {}
  PROVE  Details(r) = Nothing
<1>1. ASSUME NEW p \in Products, NEW s \in Stores PROVE Details(r)[p][s] = 0
  <2> DEFINE x == <<p, s>>
  <2>1. x \in Products \X Stores /\ x[1] = p /\ x[2] = s
    OBVIOUS
  <2> HIDE DEF x
  <2>2. x \notin DetailRows(Details(r))
    OBVIOUS
  <2> DEFINE d == Details(r)
  <2> HIDE DEF d
  <2>3. x \notin DetailRows(d) => d[x[1]][x[2]] = 0
    BY <2>1, Zenon DEF DetailRows
  <2> QED
    BY <2>1, <2>2, <2>3 DEF d
<1>2. \A p \in Products : Details(r)[p] = [s \in Stores |-> Detail(r, p, s)]
  BY DEF Details
<1>3. ASSUME NEW p \in Products, NEW s \in Stores PROVE Detail(r, p, s) = 0
  <2>1. Details(r)[p][s] = 0
    BY ONLY <1>1
  <2>2. Details(r)[p] = [i \in Stores |-> Detail(r, p, i)]
    BY ONLY <1>2
  <2>3. [i \in Stores |-> Detail(r, p, i)][s] = Detail(r, p, s)
    OBVIOUS
  <2> QED
    BY ONLY <2>1, <2>2, <2>3
<1>4. \A p \in Products : [s \in Stores |-> Detail(r, p, s)] = [s \in Stores |-> 0]
  BY ONLY <1>3
<1>5. Details(r) = [p \in Products |-> [s \in Stores |-> Detail(r, p, s)]]
  BY DEF Details
<1>6. [p \in Products |-> [s \in Stores |-> Detail(r, p, s)]] = [p \in Products |-> [s \in Stores |-> 0]]
  BY ONLY <1>4
<1>7. Nothing = [p \in Products |-> [s \in Stores |-> 0]]
  BY Zenon DEF Nothing
<1> QED
  BY ONLY <1>5, <1>6, <1>7

\* Where a page leads: to the next, with all rows to the sums, or to the end.
LEMMA PageLeads ==
  ASSUME TypeOK, NEW j \in Jobs, FetchStockByStorePage(j)
  PROVE  /\ pc[j] = "page" /\ UNCHANGED <<upstream, db, snapshot, history>>
         /\ \A k \in Jobs \ {j} : /\ pc'[k] = pc[k] /\ status'[k] = status[k]
                                  /\ raw'[k] = raw[k] /\ offset'[k] = offset[k]
         /\ \/ /\ raw'[j] = raw[j] \o PageAt(offset[j]) /\ status'[j] = status[j]
               /\ pc'[j] = "page" /\ Len(PageAt(offset[j])) = Limit
               /\ offset'[j] = offset[j] + Limit
            \/ /\ raw'[j] = raw[j] \o PageAt(offset[j]) /\ status'[j] = status[j]
               /\ pc'[j] \in {"details", "totals"} /\ Len(PageAt(offset[j])) < Limit
               /\ pc'[j] = "totals" => DetailRows(Details(raw'[j])) = {}
            \/ pc'[j] = "log" /\ ~Done(j)'
<1>1. /\ pc[j] = "page" /\ UNCHANGED <<upstream, db, snapshot, history>>
  BY Zenon DEF FetchStockByStorePage
<1>2. CASE GiveUp(j) /\ UNCHANGED <<raw, offset>>
  BY <1>1, <1>2, GaveUp
<1> DEFINE page == PageAt(offset[j])
           read == raw[j] \o page
<1>3. ASSUME UNCHANGED status, raw' = [raw EXCEPT ![j] = read]
      PROVE  /\ raw'[j] = read /\ status'[j] = status[j]
             /\ \A k \in Jobs \ {j} : raw'[k] = raw[k] /\ status'[k] = status[k]
  BY <1>3 DEF TypeOK
<1>4. CASE /\ raw' = [raw EXCEPT ![j] = read] /\ UNCHANGED status
           /\ Len(page) = Limit /\ offset' = [offset EXCEPT ![j] = offset[j] + Limit]
           /\ Goto(j, "page")
  <2>1. offset'[j] = offset[j] + Limit /\ \A k \in Jobs \ {j} : offset'[k] = offset[k]
    BY <1>4 DEF TypeOK
  <2>2. pc'[j] = "page" /\ \A k \in Jobs \ {j} : pc'[k] = pc[k]
    BY <1>4, MovedOn
  <2> QED
    BY <1>1, <1>3, <1>4, <2>1, <2>2
<1> DEFINE next == CASE raw'[j] = <<>> -> "log"
                     [] raw'[j] # <<>> /\ DetailRows(Details(raw'[j])) = {} -> "totals"
                     [] OTHER -> "details"
<1>5. CASE /\ raw' = [raw EXCEPT ![j] = read] /\ UNCHANGED status
           /\ Len(page) < Limit /\ UNCHANGED offset /\ Goto(j, next)
  <2>1. \/ next = "log" /\ raw'[j] = <<>>
        \/ next = "totals" /\ DetailRows(Details(raw'[j])) = {}
        \/ next = "details"
    OBVIOUS
  <2> HIDE DEF next, read, page
  <2>2. pc'[j] = next /\ \A k \in Jobs \ {j} : pc'[k] = pc[k]
    BY <1>5, MovedOn
  <2>3. next = "log" => ~Done(j)'
    BY <2>1 DEF Done
  <2>4. /\ raw'[j] = read /\ status'[j] = status[j]
        /\ \A k \in Jobs \ {j} : raw'[k] = raw[k] /\ status'[k] = status[k]
    BY <1>3, <1>5
  <2> QED
    BY <1>1, <1>5, <2>1, <2>2, <2>3, <2>4 DEF read, page
<1>6. \/ /\ raw' = [raw EXCEPT ![j] = read] /\ UNCHANGED status
         /\ Len(page) = Limit /\ offset' = [offset EXCEPT ![j] = offset[j] + Limit]
         /\ Goto(j, "page")
      \/ /\ raw' = [raw EXCEPT ![j] = read] /\ UNCHANGED status
         /\ Len(page) < Limit /\ UNCHANGED offset /\ Goto(j, next)
      \/ GiveUp(j) /\ UNCHANGED <<raw, offset>>
  BY Zenon DEF FetchStockByStorePage
<1> HIDE DEF next, read, page
<1> QED
  BY <1>2, <1>4, <1>5, <1>6, Zenon

LEMMA SnapshotPage ==
  ASSUME SnapshotInv, TypeOK', NEW j \in Jobs, FetchStockByStorePage(j)
  PROVE  SnapshotInv'
<1>1. TypeOK
  BY DEF SnapshotInv
<1>2. /\ pc[j] = "page" /\ UNCHANGED <<snapshots, details, totals, snapshot>>
      /\ \A k \in Jobs \ {j} : pc'[k] = pc[k] /\ status'[k] = status[k] /\ raw'[k] = raw[k]
      /\ pc'[j] = "totals" => DetailRows(Details(raw'[j])) = {}
      /\ ~Done(j)'
  BY <1>1, PageLeads DEF db, Done
<1>3. snapshot[j] # 0 /\ details[snapshot[j]] = Nothing
  BY <1>2 DEF SnapshotInv, OwnSnapshots, FreshSnapshots, HasSnapshot
<1>4. ASSUME NEW k \in Jobs, k # j
      PROVE  pc'[k] = pc[k] /\ (HasSnapshot(k)' <=> HasSnapshot(k)) /\ (Done(k)' <=> Done(k))
  <2>1. pc'[k] = pc[k] /\ status'[k] = status[k] /\ raw'[k] = raw[k]
    BY <1>2, <1>4
  <2> QED
    BY <2>1, Zenon DEF HasSnapshot, Done
<1>5. ASSUME NEW k \in Jobs, pc'[k] = "totals" \/ Done(k)'
      PROVE  details[snapshot[k]] = Details(raw'[k])
  <2>1. CASE k = j
    BY <1>2, <1>3, <1>5, <2>1, NoRows
  <2>2. CASE k # j
    BY <1>2, <1>4, <1>5, <2>2 DEF SnapshotInv, DetailsStored
  <2> QED
    BY <2>1, <2>2
<1>6. \A k \in Jobs : pc'[k] \in {"page", "details"} => pc[k] \in {"page", "details"}
  BY <1>2, <1>4
<1>7. \A k \in Jobs : HasSnapshot(k)' => snapshot[k] # 0
  BY <1>3, <1>4 DEF SnapshotInv, OwnSnapshots
<1> QED
  BY <1>2, <1>5, <1>6, <1>7, QuietStep

LEMMA SnapshotStart ==
  ASSUME SnapshotInv, TypeOK', NEW j \in Jobs, Start(j)
  PROVE  SnapshotInv'
<1>1. /\ TypeOK /\ Goto(j, "stores") /\ UNCHANGED <<snapshots, details, totals>>
      /\ snapshot' = [snapshot EXCEPT ![j] = 0] /\ status' = [status EXCEPT ![j] = "success"]
      /\ raw' = [raw EXCEPT ![j] = <<>>]
  BY DEF Start, SnapshotInv, db
<1>2. pc'[j] = "stores" /\ \A k \in Jobs \ {j} : pc'[k] = pc[k]
  BY <1>1, MovedOn
<1>3. ASSUME NEW k \in Jobs, k # j
      PROVE  snapshot'[k] = snapshot[k] /\ status'[k] = status[k] /\ raw'[k] = raw[k]
  BY <1>1, <1>3 DEF TypeOK
<1>4. snapshot'[j] = 0 /\ ~Done(j)' /\ ~HasSnapshot(j)'
  BY <1>1, <1>2 DEF TypeOK, Done, HasSnapshot
<1>5. ASSUME NEW k \in Jobs, k # j
      PROVE  pc'[k] = pc[k] /\ (HasSnapshot(k)' <=> HasSnapshot(k)) /\ (Done(k)' <=> Done(k))
  <2>1. pc'[k] = pc[k] /\ status'[k] = status[k] /\ raw'[k] = raw[k]
    BY <1>2, <1>3, <1>5
  <2> QED
    BY <2>1, Zenon DEF HasSnapshot, Done
<1>6. OwnSnapshots'
  BY <1>3, <1>4, <1>5 DEF SnapshotInv, OwnSnapshots
<1>7. FreshSnapshots'
  BY <1>1, <1>2, <1>3, <1>5 DEF SnapshotInv, FreshSnapshots
<1>8. DetailsStored'
  BY <1>1, <1>2, <1>3, <1>4, <1>5 DEF SnapshotInv, DetailsStored
<1>9. TotalsMatchDetails'
  BY <1>1 DEF SnapshotInv, TotalsMatchDetails
<1> QED
  BY <1>6, <1>7, <1>8, <1>9 DEF SnapshotInv

\* A step that leaves the jobs, or all but where and how they run, alone.
LEMMA SnapshotStays ==
  ASSUME SnapshotInv, TypeOK', UNCHANGED <<snapshots, details, totals, snapshot, raw, status, pc>>
  PROVE  SnapshotInv'
<1>1. \A k \in Jobs : (HasSnapshot(k)' <=> HasSnapshot(k)) /\ (Done(k)' <=> Done(k))
  BY Zenon DEF HasSnapshot, Done
<1>2. \A k \in Jobs : HasSnapshot(k)' => snapshot[k] # 0
  BY <1>1 DEF SnapshotInv, OwnSnapshots
<1>3. \A k \in Jobs : pc'[k] = "totals" \/ Done(k)' => details[snapshot[k]] = Details(raw'[k])
  BY <1>1 DEF SnapshotInv, DetailsStored
<1> QED
  BY <1>2, <1>3, QuietStep

LEMMA SnapshotNext ==
  ASSUME SnapshotInv, ~LoseCommit, [Next]_vars
  PROVE  SnapshotInv'
<1>1. TypeOK /\ TypeOK'
  BY NextType DEF SnapshotInv
<1> USE <1>1
<1>2. CASE UNCHANGED vars
  BY <1>2, SnapshotStays DEF vars, db, locals
<1>3. CASE InsertRow \/ RemoveRow \/ SetQuantity \/ OpenStore
  <2>1. UNCHANGED <<db, pc, locals>>
    BY <1>3, Zenon DEF InsertRow, RemoveRow, SetQuantity, OpenStore, Changed
  <2> QED
    BY <2>1, SnapshotStays DEF db, locals
<1>4. ASSUME NEW j \in Jobs, Start(j) \/ Step(j) \/ Crash(j) \/ Cancel(j)
      PROVE  SnapshotInv'
  <2>1. CASE Start(j)
    BY <2>1, SnapshotStart
  <2>2. CASE FetchStores(j) \/ UpsertStores(j)
    <3>1. UNCHANGED <<snapshots, details, totals, snapshot, raw>>
      BY <2>2 DEF FetchStores, UpsertStores, db
    <3>2. \/ UNCHANGED status /\ \E l \in {"snapshot", "upsertStores"} : Goto(j, l)
          \/ GiveUp(j)
      BY <2>2 DEF FetchStores, UpsertStores
    <3>3. CASE GiveUp(j)
      BY <3>1, <3>3, GaveUp, GoneOn
    <3>4. CASE UNCHANGED status /\ \E l \in {"snapshot", "upsertStores"} : Goto(j, l)
      <4>1. pc'[j] \in {"snapshot", "upsertStores"} /\ \A k \in Jobs \ {j} : pc'[k] = pc[k]
        BY <3>4, MovedOn
      <4>2. ~Done(j)'
        BY <4>1 DEF Done
      <4> QED
        BY <3>1, <3>4, <4>1, <4>2, GoneOn
    <3> QED
      BY <3>2, <3>3, <3>4
  <2>3. CASE CreateSnapshot(j)
    BY <2>3, SnapshotCreate
  <2>4. CASE FetchStockByStorePage(j)
    BY <2>4, SnapshotPage
  <2>5. CASE InsertStockDetails(j)
    BY <2>5, SnapshotInsert
  <2>6. CASE UpsertProductTotals(j)
    BY <2>6, SnapshotTotals
  <2>7. CASE InsertMsJobLog(j) \/ Crash(j)
    <3>1. UNCHANGED <<snapshots, details, totals, snapshot, raw, status>> /\ Goto(j, "idle")
      BY <2>7 DEF InsertMsJobLog, Crash, db, locals
    <3>2. pc'[j] = "idle" /\ \A k \in Jobs \ {j} : pc'[k] = pc[k]
      BY <3>1, MovedOn
    <3>3. ~Done(j)'
      BY <3>2 DEF Done
    <3> QED
      BY <3>1, <3>2, <3>3, GoneOn
  <2>8. CASE Cancel(j)
    BY <2>8, SnapshotStays DEF Cancel, db, locals
  <2> QED
    BY <1>4, <2>1, <2>2, <2>3, <2>4, <2>5, <2>6, <2>7, <2>8 DEF Step
<1> QED
  BY <1>2, <1>3, <1>4 DEF Next

LEMMA SnapshotInit == Init => SnapshotInv
<1> SUFFICES ASSUME Init PROVE SnapshotInv
  OBVIOUS
<1>1. /\ pc = [j \in Jobs |-> "idle"] /\ snapshot = [j \in Jobs |-> 0]
      /\ details = [i \in 1..MaxSnapshots |-> Nothing] /\ totals = [p \in Products |-> NoTotal]
  BY Zenon DEF Init
<1>2. \A j \in Jobs : pc[j] = "idle" /\ ~Done(j) /\ ~HasSnapshot(j)
  BY <1>1 DEF Done, HasSnapshot
<1>3. \A p \in Products : totals[p].snapshot = 0
  BY <1>1 DEF NoTotal
<1>4. OwnSnapshots
  BY <1>1, <1>2 DEF OwnSnapshots
<1>5. FreshSnapshots
  BY <1>1, <1>2 DEF FreshSnapshots
<1>6. DetailsStored
  BY <1>2 DEF DetailsStored
<1>7. TotalsMatchDetails
  BY <1>3 DEF TotalsMatchDetails
<1> QED
  BY <1>4, <1>5, <1>6, <1>7, InitType DEF SnapshotInv

\* The total of a product is the sum of the details of the snapshot it names,
\* whatever fails or runs beside it, short of an acked batch that does not commit:
\* totals are written after the details and from the same rows
\* (service/moysklad.go:123-141, 227-270), and nothing is stored under a snapshot
\* again.
THEOREM TotalsAlwaysMatch ==
  ASSUME ~LoseCommit
  PROVE  Spec => []TotalsMatchDetails
<1>1. Init => SnapshotInv
  BY SnapshotInit
<1>2. SnapshotInv /\ [Next]_vars => SnapshotInv'
  BY SnapshotNext
<1>3. SnapshotInv => TotalsMatchDetails
  BY DEF SnapshotInv
<1> QED
  BY <1>1, <1>2, <1>3, PTL DEF Spec

-----------------------------------------------------------------------------
(* The tables as a store of snapshots *)

\* The sum that the store speaks of is the sum of the synchronization.
LEMMA StoreSum ==
  ASSUME NEW g, NEW T
  PROVE  Store!SumFunctionOnSet(g, T) = SumFunctionOnSet(g, T)
  BY DEF SumFunctionOnSet, FoldFunctionOnSet, MapThenFoldSet,
         Store!SumFunctionOnSet, Store!FoldFunctionOnSet, Store!MapThenFoldSet

LEMMA StoreInit == Init => Store!Init
  BY DEF Init, Store!Init, Nothing, NoTotal, Store!Empty

\* The insert of the details fills the run's own snapshot, or nothing.
LEMMA InsertFills ==
  ASSUME SnapshotInv, NEW j \in Jobs, InsertStockDetails(j)
  PROVE  Store!Fill(snapshot[j]) \/ UNCHANGED <<stores, snapshots, details, totals>>
<1> DEFINE i == snapshot[j]
           inserted == [details EXCEPT ![i] = Details(raw[j])]
<1>1. /\ TypeOK /\ pc[j] = "details" /\ HasSnapshot(j) /\ raw[j] \in Seq(Row)
      /\ UNCHANGED <<stores, snapshots, totals>>
  BY DEF InsertStockDetails, SnapshotInv, HasSnapshot, TypeOK, Row
<1>2. details' = details \/ (details' = inserted /\ StoresKnown(j))
  BY Zenon DEF InsertStockDetails
<1>3. i \in 1..MaxSnapshots
  BY <1>1, OwnSnapshot DEF SnapshotInv
<1>4. details[i] = Nothing /\ \A p \in Products : totals[p].snapshot # i
  BY <1>1 DEF SnapshotInv, FreshSnapshots
<1>5. ASSUME details' = inserted, StoresKnown(j) PROVE Store!Fill(i)
  <2>1. details'[i] = Details(raw[j])
    BY <1>1, <1>3, <1>5 DEF TypeOK
  <2>2. details' = [details EXCEPT ![i] = details'[i]]
    BY <1>5, <2>1
  <2>3. details'[i] \in [Products -> [Stores -> Nat]]
    BY <1>1, <2>1, DetailsType
  <2>4. ASSUME NEW p \in Products, NEW s \in Stores, details'[i][p][s] # 0
        PROVE  s \in stores
    <3> DEFINE x == <<p, s>>
    <3>1. x \in Products \X Stores /\ x[1] = p /\ x[2] = s
      OBVIOUS
    <3> HIDE DEF x
    <3>2. x \in DetailRows(Details(raw[j]))
      BY <2>1, <2>4, <3>1 DEF DetailRows
    <3> QED
      BY <1>5, <3>1, <3>2 DEF StoresKnown
  <2> QED
    BY <1>1, <1>4, <2>2, <2>3, <2>4, Zenon DEF Store!Fill, Store!Empty, Nothing
<1> QED
  BY <1>1, <1>2, <1>5

\* The upsert of the totals publishes it, because they add up to its details.
LEMMA UpsertPublishes ==
  ASSUME SnapshotInv, TypeOK', NEW j \in Jobs, UpsertProductTotals(j)
  PROVE  Store!Publish(snapshot[j]) \/ UNCHANGED <<stores, snapshots, details, totals>>
<1> DEFINE upserted == [p \in Products |->
                          IF p \in Named(raw[j])
                            THEN [sum |-> Total(raw[j], p), snapshot |-> snapshot[j]]
                            ELSE totals[p]]
<1>1. /\ TypeOK /\ pc[j] = "totals" /\ raw[j] \in Seq(Row)
      /\ UNCHANGED <<stores, snapshots, details>>
  BY DEF UpsertProductTotals, SnapshotInv, TypeOK, Row
<1>2. totals' = upserted \/ totals' = totals
  BY Zenon DEF UpsertProductTotals
<1>3. details[snapshot[j]] = Details(raw[j])
  BY <1>1 DEF SnapshotInv, DetailsStored
<1>4. ASSUME NEW p \in Products
      PROVE  Store!SumFunctionOnSet(details[snapshot[j]][p], Stores) = Total(raw[j], p)
  BY <1>1, <1>3, TotalIsDetails, StoreSum
<1>5. totals' \in [Products -> [sum : Nat, snapshot : 0..snapshots]]
  BY <1>1 DEF TypeOK
<1>6. ASSUME totals' = upserted PROVE Store!Publish(snapshot[j])
  <2>1. ASSUME NEW p \in Products
        PROVE  \/ totals'[p] = totals[p]
               \/ totals'[p] = [sum |-> Store!SumFunctionOnSet(details[snapshot[j]][p], Stores),
                                snapshot |-> snapshot[j]]
    BY <1>4, <1>6
  <2> HIDE DEF upserted
  <2> QED
    BY <1>1, <1>5, <2>1, Zenon DEF Store!Publish
<1> HIDE DEF upserted
<1> QED
  BY <1>1, <1>2, <1>6

\* Every other step of a run learns warehouses, opens a snapshot or leaves the
\* tables alone.
LEMMA StoreNext ==
  ASSUME SnapshotInv, TypeOK', [Next]_vars
  PROVE  [Store!Next]_Store!svars
<1> USE DEF Store!svars
<1>1. TypeOK /\ snapshots \in 0..MaxSnapshots /\ MaxSnapshots \in Nat
  BY BoundAssumption DEF SnapshotInv, TypeOK
<1>2. ASSUME UNCHANGED db PROVE UNCHANGED Store!svars
  BY <1>2 DEF db
<1>3. CASE UNCHANGED vars
  BY <1>2, <1>3 DEF vars
<1>4. CASE InsertRow \/ RemoveRow \/ SetQuantity \/ OpenStore
  <2>1. UNCHANGED db
    BY <1>4, Zenon DEF InsertRow, RemoveRow, SetQuantity, OpenStore, Changed
  <2> QED
    BY <1>2, <2>1
<1>5. ASSUME NEW j \in Jobs, Start(j) \/ Step(j) \/ Crash(j) \/ Cancel(j)
      PROVE  [Store!Next]_Store!svars
  <2>1. ASSUME HasSnapshot(j) PROVE snapshot[j] \in 1..snapshots
    <3>1. snapshot[j] \in 1..MaxSnapshots /\ snapshot[j] <= snapshots
      BY <1>1, <2>1, OwnSnapshot DEF SnapshotInv
    <3> QED
      BY <1>1, <3>1
  <2>2. CASE Start(j) \/ Crash(j) \/ Cancel(j) \/ InsertMsJobLog(j) \/ FetchStores(j)
    <3>1. UNCHANGED db
      BY <2>2, Zenon DEF Start, Crash, Cancel, InsertMsJobLog, FetchStores
    <3> QED
      BY <1>2, <3>1
  <2>3. CASE FetchStockByStorePage(j)
    <3>1. UNCHANGED db
      BY <2>3, Zenon DEF FetchStockByStorePage
    <3> QED
      BY <1>2, <3>1
  <2>4. CASE UpsertStores(j)
    <3>1. /\ stores' = stores \/ stores' = stores \cup fetched[j]
          /\ UNCHANGED <<snapshots, details, totals>>
      BY <2>4 DEF UpsertStores
    <3>2. fetched[j] \subseteq Stores /\ stores \subseteq Stores
      BY <1>1 DEF TypeOK
    <3>3. Store!Learn
      BY <3>1, <3>2 DEF Store!Learn
    <3> QED
      BY <3>3 DEF Store!Next
  <2>5. CASE CreateSnapshot(j)
    <3>1. /\ snapshots' = snapshots \/ snapshots' = snapshots + 1
          /\ UNCHANGED <<stores, details, totals>>
      BY <2>5 DEF CreateSnapshot
    <3>2. snapshots' \in 0..MaxSnapshots
      BY DEF TypeOK
    <3>3. CASE snapshots' = snapshots + 1
      <4>1. Store!Open
        BY <1>1, <3>1, <3>2, <3>3 DEF Store!Open
      <4> QED
        BY <4>1 DEF Store!Next
    <3> QED
      BY <3>1, <3>3
  <2>6. CASE InsertStockDetails(j)
    <3>1. snapshot[j] \in 1..snapshots
      BY <2>1, <2>6 DEF InsertStockDetails, HasSnapshot
    <3> QED
      BY <2>6, <3>1, InsertFills DEF Store!Next
  <2>7. CASE UpsertProductTotals(j)
    <3>1. snapshot[j] \in 1..snapshots
      BY <2>1, <2>7 DEF UpsertProductTotals, HasSnapshot
    <3> QED
      BY <2>7, <3>1, UpsertPublishes DEF Store!Next
  <2> QED
    BY <1>5, <2>2, <2>3, <2>4, <2>5, <2>6, <2>7 DEF Step
<1> QED
  BY <1>3, <1>4, <1>5 DEF Next

\* The tables implement a store of snapshots, with any number of runs side by
\* side and whatever fails, if acked batches commit: a snapshot is filled once, and
\* only by warehouses that ms_stores has; what a total names never changes any
\* more; and a total is the sum of one snapshot, never of two.
THEOREM MoyskladSyncImplementsStore ==
  ASSUME ~LoseCommit
  PROVE  Spec => ImplementsStore
<1>1. Init => SnapshotInv
  BY SnapshotInit
<1>2. SnapshotInv /\ [Next]_vars => SnapshotInv'
  BY SnapshotNext
<1>3. SnapshotInv /\ SnapshotInv' /\ [Next]_vars => [Store!Next]_Store!svars
  BY StoreNext DEF SnapshotInv
<1> QED
  BY <1>1, <1>2, <1>3, StoreInit, PTL DEF Spec, ImplementsStore, Store!Spec

-----------------------------------------------------------------------------
(* What a run has read, and what it has been shown *)

\* The part of the invariant that is about the report.
ReadInv == StartsAtTop /\ NowShown /\ Reading

\* A run that has read no more, of a report that is the same.
LEMMA ReadsStill ==
  ASSUME TypeOK, Reading, NEW k \in Jobs, HasSnapshot(k), ~moved[k],
         UNCHANGED report, raw'[k] = raw[k], offset'[k] = offset[k], pc'[k] = "page" <=> pc[k] = "page",
         \A p \in Products, s \in Stores : shown[k][p][s] \subseteq shown'[k][p][s]
  PROVE  ReadsReport(k)'
<1>1. ReadsReport(k)
  BY DEF Reading
<1>2. \A i \in 1..Len(raw[k]) : report[i] \in Products
  BY <1>1 DEF ReadsReport, TypeOK
<1> QED
  BY <1>1, <1>2 DEF ReadsReport

\* A step of one job, or of none, that neither reads nor changes the report.
LEMMA NothingRead ==
  ASSUME TypeOK, ReadInv, UNCHANGED <<report, qty, shown, moved, raw, offset>>,
         \A k \in Jobs : Running(k)' => Running(k),
         \A k \in Jobs : HasSnapshot(k)' => HasSnapshot(k) /\ (pc'[k] = "page" <=> pc[k] = "page"),
         \A k \in Jobs : pc'[k] \in {"stores", "upsertStores", "snapshot"} =>
                           pc[k] \in {"stores", "upsertStores", "snapshot"}
  PROVE  ReadInv'
<1>1. StartsAtTop'
  BY DEF ReadInv, StartsAtTop
<1>2. NowShown'
  BY DEF ReadInv, NowShown, Said
<1>3. Reading'
  <2>1. ASSUME NEW k \in Jobs, HasSnapshot(k)', ~moved'[k] PROVE ReadsReport(k)'
    <3>1. HasSnapshot(k) /\ ~moved[k] /\ (pc'[k] = "page" <=> pc[k] = "page")
      BY <2>1
    <3> QED
      BY <3>1, ReadsStill DEF ReadInv
  <2> QED
    BY <2>1 DEF Reading
<1> QED
  BY <1>1, <1>2, <1>3 DEF ReadInv

LEMMA ReadUpstream ==
  ASSUME TypeOK, ReadInv, InsertRow \/ RemoveRow \/ SetQuantity \/ OpenStore
  PROVE  ReadInv'
<1>1. /\ UNCHANGED <<pc, locals>> /\ Show
      /\ Move \/ UNCHANGED <<report, moved>>
  BY Zenon DEF InsertRow, RemoveRow, SetQuantity, OpenStore, Changed
<1>2. UNCHANGED <<pc, raw, offset, status>>
  BY <1>1 DEF locals
<1>3. StartsAtTop'
  BY <1>2 DEF ReadInv, StartsAtTop
<1>4. ASSUME NEW k \in Jobs, Running(k)', NEW p \in Products, NEW s \in Stores
      PROVE  shown'[k][p][s] = shown[k][p][s] \cup {Said(p, s)'}
  <2>1. Running(k)
    BY <1>2, <1>4 DEF Running
  <2>2. shown'[k] = [q \in Products |-> [t \in Stores |-> shown[k][q][t] \cup {Said(q, t)'}]]
    BY <1>1, <2>1, Zenon DEF Show
  <2> QED
    BY <2>2
<1>5. NowShown'
  BY <1>4 DEF NowShown
<1>6. Reading'
  <2>1. ASSUME NEW k \in Jobs, HasSnapshot(k)', ~moved'[k] PROVE ReadsReport(k)'
    <3>1. HasSnapshot(k) /\ Running(k) /\ Running(k)'
      BY <1>2, <2>1 DEF HasSnapshot, Done, Running
    <3>2. ~Move
      BY <2>1, <3>1, Zenon DEF Move
    <3>3. UNCHANGED report /\ ~moved[k]
      BY <1>1, <2>1, <3>2
    <3>4. \A p \in Products, s \in Stores : shown[k][p][s] \subseteq shown'[k][p][s]
      BY <1>4, <3>1
    <3> QED
      BY <1>2, <3>1, <3>3, <3>4, ReadsStill DEF ReadInv
  <2> QED
    BY <2>1 DEF Reading
<1> QED
  BY <1>3, <1>5, <1>6 DEF ReadInv

LEMMA ReadStart ==
  ASSUME TypeOK, ReadInv, NEW j \in Jobs, Start(j)
  PROVE  ReadInv'
<1>1. /\ Goto(j, "stores") /\ UNCHANGED <<report, qty>> /\ ~Running(j)
      /\ status' = [status EXCEPT ![j] = "success"]
      /\ offset' = [offset EXCEPT ![j] = 0] /\ raw' = [raw EXCEPT ![j] = <<>>]
      /\ shown' = [shown EXCEPT ![j] = [p \in Products |-> [s \in Stores |-> {Said(p, s)}]]]
      /\ moved' = [moved EXCEPT ![j] = FALSE]
  BY DEF Start, upstream
<1>2. pc'[j] = "stores" /\ \A k \in Jobs \ {j} : pc'[k] = pc[k]
  BY <1>1, MovedOn
<1>3. raw'[j] = <<>> /\ offset'[j] = 0
      /\ \A p \in Products, s \in Stores : shown'[j][p][s] = {Said(p, s)}
  BY <1>1 DEF TypeOK
<1>4. ASSUME NEW k \in Jobs, k # j
      PROVE  /\ pc'[k] = pc[k] /\ status'[k] = status[k] /\ offset'[k] = offset[k]
             /\ raw'[k] = raw[k] /\ shown'[k] = shown[k] /\ moved'[k] = moved[k]
  BY <1>1, <1>2, <1>4 DEF TypeOK
<1>5. \A p \in Products, s \in Stores : Said(p, s)' = Said(p, s)
  BY <1>1 DEF Said
<1>6. StartsAtTop'
  BY <1>3, <1>4 DEF ReadInv, StartsAtTop
<1>7. NowShown'
  <2>1. ASSUME NEW k \in Jobs, Running(k)', NEW p \in Products, NEW s \in Stores
        PROVE  Said(p, s) \in shown'[k][p][s]
    <3>1. CASE k = j
      BY <1>3, <3>1
    <3>2. CASE k # j
      BY <1>4, <2>1, <3>2 DEF ReadInv, NowShown, Running
    <3> QED
      BY <3>1, <3>2
  <2> QED
    BY <1>5, <2>1 DEF NowShown
<1>8. Reading'
  <2>1. ASSUME NEW k \in Jobs, HasSnapshot(k)', ~moved'[k] PROVE ReadsReport(k)'
    <3>1. k # j
      BY <1>2, <2>1 DEF HasSnapshot, Done
    <3>2. HasSnapshot(k) /\ ~moved[k]
      BY <1>4, <2>1, <3>1 DEF HasSnapshot, Done
    <3> QED
      BY <1>1, <1>4, <3>1, <3>2, ReadsStill DEF ReadInv
  <2> QED
    BY <2>1 DEF Reading
<1> QED
  BY <1>6, <1>7, <1>8 DEF ReadInv

\* A new snapshot begins at the top of the report.
LEMMA ReadCreate ==
  ASSUME TypeOK, ReadInv, NEW j \in Jobs, CreateSnapshot(j)
  PROVE  ReadInv'
<1>1. /\ pc[j] = "snapshot" /\ raw[j] = <<>> /\ offset[j] = 0
      /\ UNCHANGED <<report, qty, shown, moved, raw, offset>>
  BY DEF CreateSnapshot, ReadInv, StartsAtTop, upstream, history
<1>2. /\ \/ pc'[j] = "page" /\ status'[j] = status[j]
         \/ pc'[j] = "log" /\ ~Done(j)'
      /\ \A k \in Jobs \ {j} : pc'[k] = pc[k] /\ status'[k] = status[k]
  <2>1. CASE GiveUp(j)
    BY <2>1, GaveUp
  <2>2. CASE Goto(j, "page") /\ UNCHANGED status
    BY <2>2, MovedOn
  <2> QED
    BY <2>1, <2>2, Zenon DEF CreateSnapshot
<1>3. StartsAtTop'
  BY <1>1, <1>2 DEF ReadInv, StartsAtTop
<1>4. NowShown'
  <2>1. \A k \in Jobs : Running(k)' => Running(k)
    BY <1>1, <1>2 DEF Running
  <2> QED
    BY <1>1, <2>1 DEF ReadInv, NowShown, Said
<1>5. Reading'
  <2>1. ASSUME NEW k \in Jobs, HasSnapshot(k)', ~moved'[k] PROVE ReadsReport(k)'
    <3>1. CASE k = j
      <4>1. raw'[k] = <<>> /\ offset'[k] = 0 /\ pc'[k] = "page"
        BY <1>1, <1>2, <2>1, <3>1 DEF HasSnapshot
      <4>2. Len(report') \in Nat /\ Len(<<>>) = 0
        BY <1>1 DEF TypeOK
      <4> QED
        BY <4>1, <4>2 DEF ReadsReport
    <3>2. CASE k # j
      <4>1. HasSnapshot(k) /\ ~moved[k] /\ pc'[k] = pc[k]
        BY <1>1, <1>2, <2>1, <3>2 DEF HasSnapshot, Done
      <4> QED
        BY <1>1, <4>1, ReadsStill DEF ReadInv
    <3> QED
      BY <3>1, <3>2
  <2> QED
    BY <2>1 DEF Reading
<1> QED
  BY <1>3, <1>4, <1>5 DEF ReadInv

\* One page more is the next part of the report, as it is shown now.
LEMMA ReadPage ==
  ASSUME TypeOK, ReadInv, NEW j \in Jobs, FetchStockByStorePage(j)
  PROVE  ReadInv'
<1>1. /\ pc[j] = "page" /\ UNCHANGED <<report, qty, shown, moved>>
      /\ \A k \in Jobs \ {j} : /\ pc'[k] = pc[k] /\ status'[k] = status[k]
                               /\ raw'[k] = raw[k] /\ offset'[k] = offset[k]
      /\ pc'[j] \in {"page", "details", "totals", "log"}
  BY PageLeads DEF upstream, history
<1>2. StartsAtTop'
  BY <1>1 DEF ReadInv, StartsAtTop
<1>3. NowShown'
  <2>1. \A k \in Jobs : Running(k)' => Running(k)
    BY <1>1 DEF Running
  <2> QED
    BY <1>1, <2>1 DEF ReadInv, NowShown, Said
<1>4. ASSUME HasSnapshot(j)', ~moved'[j] PROVE ReadsReport(j)'
  <2> DEFINE o == offset[j]
             page == PageAt(o)
  <2>1. /\ raw'[j] = raw[j] \o page
        /\ \/ pc'[j] = "page" /\ Len(page) = Limit /\ offset'[j] = o + Limit
           \/ pc'[j] \in {"details", "totals"} /\ Len(page) < Limit
    BY <1>4, PageLeads DEF HasSnapshot
  <2>2. /\ ReadsReport(j) /\ o = Len(raw[j]) /\ o \in Nat /\ raw[j] \in Seq(Row)
        /\ o <= Len(report) /\ Len(report) \in Nat /\ Limit \in Nat
    <3>1. ReadsReport(j)
      BY <1>1, <1>4 DEF ReadInv, Reading, HasSnapshot
    <3>2. /\ raw[j] \in Seq(Row) /\ report \in Seq(Products) /\ o \in Nat /\ Limit \in Nat
      BY LimitAssumption DEF TypeOK, Row
    <3>3. Len(raw[j]) <= Len(report) /\ o = Len(raw[j])
      BY <1>1, <3>1, Zenon DEF ReadsReport
    <3>4. Len(report) \in Nat
      BY <3>2
    <3> QED
      BY <3>1, <3>2, <3>3, <3>4
  <2>3. /\ page \in Seq(Row) /\ Len(page) \in Nat
        /\ o + Len(page) <= Len(report)
        /\ Len(page) < Limit => o + Len(page) = Len(report)
        /\ \A i \in 1..Len(page) :
             /\ page[i] = [product |-> report[o + i], quantities |-> qty[report[o + i]]]
             /\ o + i \in 1..Len(report)
    <3> HIDE DEF o
    <3>1. Len(page) \in 0..Limit /\ page \in Seq(Row)
      BY <2>2, PageIs
    <3>2. /\ o <= Len(report) => /\ o + Len(page) <= Len(report)
                                 /\ Len(page) < Limit => o + Len(page) = Len(report)
          /\ \A i \in 1..Len(page) :
               /\ page[i] = [product |-> report[o + i], quantities |-> qty[report[o + i]]]
               /\ o + i \in 1..Len(report)
      BY <2>2, PageIs
    <3> HIDE DEF page
    <3>3. Len(page) \in Nat
      BY <2>2, <3>1
    <3> QED
      BY <2>2, <3>1, <3>2, <3>3
  <2> HIDE DEF page, o
  <2>4. /\ Len(raw'[j]) = o + Len(page)
        /\ \A i \in 1..o : raw'[j][i] = raw[j][i]
        /\ \A i \in 1..Len(page) : raw'[j][o + i] = page[i]
    BY <2>1, <2>2, <2>3
  <2>5. ASSUME NEW i \in 1..Len(raw'[j])
        PROVE  /\ raw'[j][i].product = report[i]
               /\ \A s \in Stores : Whole(raw'[j][i].quantities[s]) \in shown[j][report[i]][s]
    <3>1. CASE i <= o
      <4>1. i \in 1..Len(raw[j]) /\ raw'[j][i] = raw[j][i]
        BY <2>2, <2>4, <3>1
      <4> QED
        BY <2>2, <4>1 DEF ReadsReport
    <3>2. CASE i > o
      <4>1. i - o \in 1..Len(page) /\ o + (i - o) = i
        BY <2>2, <2>3, <2>4, <3>2
      <4>2. raw'[j][i] = page[i - o]
        BY <2>4, <4>1
      <4>3. raw'[j][i] = [product |-> report[i], quantities |-> qty[report[i]]] /\ i \in 1..Len(report)
        BY <2>3, <4>1, <4>2
      <4>4. report[i] \in Products /\ report[i] \in ToSet(report)
        BY <4>3 DEF TypeOK, ToSet
      <4>5. Running(j)
        BY <1>1 DEF Running
      <4>6. \A s \in Stores : Whole(qty[report[i]][s]) \in shown[j][report[i]][s]
        BY <4>4, <4>5 DEF ReadInv, NowShown, Said
      <4> QED
        BY <4>3, <4>6
    <3> QED
      BY <2>2, <2>3, <2>4, <3>1, <3>2
  <2>6. /\ Len(raw'[j]) <= Len(report)
        /\ pc'[j] = "page" => offset'[j] = Len(raw'[j])
        /\ pc'[j] # "page" => Len(report) = Len(raw'[j])
    BY <2>1, <2>3, <2>4
  <2> QED
    BY <1>1, <2>5, <2>6 DEF ReadsReport
<1>5. Reading'
  <2>1. ASSUME NEW k \in Jobs, HasSnapshot(k)', ~moved'[k] PROVE ReadsReport(k)'
    <3>1. CASE k = j
      BY <1>4, <2>1, <3>1
    <3>2. CASE k # j
      <4>1. HasSnapshot(k) /\ ~moved[k] /\ pc'[k] = pc[k]
        <5>1. pc'[k] = pc[k] /\ status'[k] = status[k] /\ raw'[k] = raw[k] /\ moved' = moved
          BY <1>1, <3>2
        <5> QED
          BY <2>1, <5>1, Zenon DEF HasSnapshot, Done
      <4> QED
        BY <1>1, <3>2, <4>1, ReadsStill DEF ReadInv
    <3> QED
      BY <3>1, <3>2
  <2> QED
    BY <2>1 DEF Reading
<1> QED
  BY <1>2, <1>3, <1>5 DEF ReadInv

LEMMA ReadNext == TypeOK /\ ReadInv /\ [Next]_vars => ReadInv'
<1> SUFFICES ASSUME TypeOK, ReadInv, [Next]_vars PROVE ReadInv'
  OBVIOUS
<1>1. CASE UNCHANGED vars
  <2>1. UNCHANGED <<report, qty, shown, moved, raw, offset, pc, status>>
    BY <1>1 DEF vars, upstream, locals, history
  <2> QED
    BY <2>1, NothingRead DEF Running, HasSnapshot, Done
<1>2. CASE InsertRow \/ RemoveRow \/ SetQuantity \/ OpenStore
  BY <1>2, ReadUpstream
<1>3. ASSUME NEW j \in Jobs, Start(j) \/ Step(j) \/ Crash(j) \/ Cancel(j)
      PROVE  ReadInv'
  <2>1. CASE Start(j)
    BY <2>1, ReadStart
  <2>2. CASE CreateSnapshot(j)
    BY <2>2, ReadCreate
  <2>3. CASE FetchStockByStorePage(j)
    BY <2>3, ReadPage
  <2>4. CASE FetchStores(j) \/ UpsertStores(j)
    <3>1. /\ UNCHANGED <<report, qty, shown, moved, raw, offset>>
          /\ pc[j] \in {"stores", "upsertStores"}
      BY <2>4 DEF FetchStores, UpsertStores, upstream, history
    <3>2. /\ pc'[j] \in {"snapshot", "upsertStores"} \/ (pc'[j] = "log" /\ ~Done(j)')
          /\ \A k \in Jobs \ {j} : pc'[k] = pc[k] /\ status'[k] = status[k]
      <4>1. \/ UNCHANGED status /\ \E l \in {"snapshot", "upsertStores"} : Goto(j, l)
            \/ GiveUp(j)
        BY <2>4 DEF FetchStores, UpsertStores
      <4>2. CASE GiveUp(j)
        BY <4>2, GaveUp
      <4>3. CASE UNCHANGED status /\ \E l \in {"snapshot", "upsertStores"} : Goto(j, l)
        BY <4>3, MovedOn
      <4> QED
        BY <4>1, <4>2, <4>3
    <3>3. ~HasSnapshot(j)'
      BY <3>2 DEF HasSnapshot, Done
    <3>4. \A k \in Jobs \ {j} : HasSnapshot(k)' => HasSnapshot(k)
      BY <3>1, <3>2 DEF HasSnapshot, Done
    <3> QED
      BY <3>1, <3>2, <3>3, <3>4, NothingRead DEF Running
  <2>5. CASE InsertStockDetails(j)
    <3>1. /\ UNCHANGED <<report, qty, shown, moved, raw, offset>> /\ pc[j] = "details"
      BY <2>5 DEF InsertStockDetails, upstream, history
    <3>2. /\ pc'[j] = "totals" \/ (pc'[j] = "log" /\ ~Done(j)')
          /\ \A k \in Jobs \ {j} : pc'[k] = pc[k] /\ status'[k] = status[k]
      <4>1. \/ UNCHANGED status /\ Goto(j, "totals")
            \/ GiveUp(j)
        BY <2>5, Zenon DEF InsertStockDetails
      <4> QED
        BY <4>1, GaveUp, MovedOn
    <3>3. HasSnapshot(j) /\ \A k \in Jobs \ {j} : HasSnapshot(k)' => HasSnapshot(k)
      BY <3>1, <3>2 DEF HasSnapshot, Done
    <3> QED
      BY <3>1, <3>2, <3>3, NothingRead DEF Running
  <2>6. CASE UpsertProductTotals(j)
    <3>1. /\ UNCHANGED <<report, qty, shown, moved, raw, offset>> /\ pc[j] = "totals"
      BY <2>6 DEF UpsertProductTotals, upstream, history
    <3>2. /\ pc'[j] = "log"
          /\ \A k \in Jobs \ {j} : pc'[k] = pc[k] /\ status'[k] = status[k]
      <4>1. \/ UNCHANGED status /\ Goto(j, "log")
            \/ GiveUp(j)
        BY <2>6, Zenon DEF UpsertProductTotals
      <4> QED
        BY <4>1, GaveUp, MovedOn
    <3>3. HasSnapshot(j) /\ \A k \in Jobs \ {j} : HasSnapshot(k)' => HasSnapshot(k)
      BY <3>1, <3>2 DEF HasSnapshot, Done
    <3> QED
      BY <3>1, <3>2, <3>3, NothingRead DEF Running
  <2>7. CASE InsertMsJobLog(j) \/ Crash(j)
    <3>1. UNCHANGED <<report, qty, shown, moved, raw, offset, status>> /\ Goto(j, "idle")
      BY <2>7 DEF InsertMsJobLog, Crash, upstream, locals, history
    <3>2. pc'[j] = "idle" /\ \A k \in Jobs \ {j} : pc'[k] = pc[k]
      BY <3>1, MovedOn
    <3>3. ~HasSnapshot(j)' /\ \A k \in Jobs \ {j} : HasSnapshot(k)' => HasSnapshot(k)
      BY <3>1, <3>2 DEF HasSnapshot, Done
    <3> QED
      BY <3>1, <3>2, <3>3, NothingRead DEF Running
  <2>8. CASE Cancel(j)
    <3>1. UNCHANGED <<report, qty, shown, moved, raw, offset, pc, status>>
      BY <2>8 DEF Cancel, upstream, locals, history
    <3> QED
      BY <3>1, NothingRead DEF Running, HasSnapshot, Done
  <2> QED
    BY <1>3, <2>1, <2>2, <2>3, <2>4, <2>5, <2>6, <2>7, <2>8 DEF Step
<1> QED
  BY <1>1, <1>2, <1>3 DEF Next

LEMMA SyncInit == Init => SyncInv
<1> SUFFICES ASSUME Init PROVE SyncInv
  OBVIOUS
<1>1. \A j \in Jobs : pc[j] = "idle"
  <2>1. pc = [j \in Jobs |-> "idle"]
    BY Zenon DEF Init
  <2> QED
    BY <2>1
<1>2. StartsAtTop /\ NowShown /\ Reading
  BY <1>1 DEF StartsAtTop, NowShown, Reading, Running, HasSnapshot, Done
<1> QED
  BY <1>2, SnapshotInit DEF SyncInv

LEMMA SyncNext ==
  ASSUME SyncInv, ~LoseCommit, [Next]_vars
  PROVE  SyncInv'
<1>1. SnapshotInv'
  BY SnapshotNext DEF SyncInv
<1>2. ReadInv'
  BY ReadNext DEF SyncInv, SnapshotInv, ReadInv
<1> QED
  BY <1>1, <1>2 DEF SyncInv, ReadInv

\* A product that a run has read is on one row, the others on none.
LEMMA OneRow ==
  ASSUME TypeOK, NEW j \in Jobs, ReadsReport(j), NEW p
  PROVE  \/ p \notin ToSet(report) /\ RowsOf(raw[j], p) = {}
         \/ \E i \in DOMAIN raw[j] : report[i] = p /\ RowsOf(raw[j], p) = {i}
         \/ p \in ToSet(report) /\ pc[j] = "page"
<1>1. /\ DOMAIN raw[j] = 1..Len(raw[j]) /\ DOMAIN report = 1..Len(report)
      /\ Len(raw[j]) \in Nat /\ Len(report) \in Nat /\ Len(raw[j]) <= Len(report)
      /\ \A i \in DOMAIN raw[j] : raw[j][i].product = report[i]
  <2>1. raw[j] \in Seq(Row) /\ report \in Seq(Products)
    BY DEF TypeOK, Row
  <2>2. DOMAIN raw[j] = 1..Len(raw[j]) /\ Len(raw[j]) \in Nat
    BY <2>1
  <2>3. DOMAIN report = 1..Len(report) /\ Len(report) \in Nat
    BY <2>1
  <2>4. Len(raw[j]) <= Len(report) /\ \A i \in 1..Len(raw[j]) : raw[j][i].product = report[i]
    BY Zenon DEF ReadsReport
  <2> QED
    BY <2>2, <2>3, <2>4
<1>2. \A i, k \in 1..Len(report) : report[i] = report[k] => i = k
  BY <1>1 DEF TypeOK, IsInjective
<1>3. CASE \E i \in DOMAIN raw[j] : report[i] = p
  <2>1. PICK i \in DOMAIN raw[j] : report[i] = p
    BY <1>3
  <2>2. \A k \in DOMAIN raw[j] : k \in 1..Len(report) /\ (raw[j][k].product = p <=> k = i)
    BY <1>1, <1>2, <2>1
  <2>3. RowsOf(raw[j], p) = {i}
    BY <2>1, <2>2 DEF RowsOf
  <2> QED
    BY <2>1, <2>3
<1>4. CASE ~\E i \in DOMAIN raw[j] : report[i] = p
  <2>1. RowsOf(raw[j], p) = {}
    BY <1>1, <1>4 DEF RowsOf
  <2>2. pc[j] # "page" => p \notin ToSet(report)
    BY <1>1, <1>4 DEF ReadsReport, ToSet
  <2> QED
    BY <2>1, <2>2
<1> QED
  BY <1>3, <1>4

LEMMA ShownFromInv == SyncInv => SnapshotWasShown
<1> SUFFICES ASSUME SyncInv, NEW j \in Jobs, Done(j), ~moved[j],
                    NEW p \in Products, NEW s \in Stores
             PROVE  details[snapshot[j]][p][s] \in shown[j][p][s]
  BY DEF SnapshotWasShown
<1>1. /\ TypeOK /\ ReadsReport(j) /\ pc[j] = "log" /\ raw[j] \in Seq(Row)
      /\ details[snapshot[j]] = Details(raw[j])
  BY DEF SyncInv, SnapshotInv, DetailsStored, Reading, HasSnapshot, Done, TypeOK, Row
<1>2. details[snapshot[j]][p][s] = Detail(raw[j], p, s)
  BY <1>1 DEF Details
<1>3. CASE p \notin ToSet(report) /\ RowsOf(raw[j], p) = {}
  <2>1. Detail(raw[j], p, s) = 0
    BY <1>1, <1>3, DetailOfNone
  <2>2. Said(p, s) = 0 /\ Running(j)
    BY <1>1, <1>3 DEF Said, Running
  <2>3. Said(p, s) \in shown[j][p][s]
    BY <2>2 DEF SyncInv, NowShown
  <2> QED
    BY <1>2, <2>1, <2>2, <2>3
<1>4. CASE \E i \in DOMAIN raw[j] : report[i] = p /\ RowsOf(raw[j], p) = {i}
  <2>1. PICK i \in DOMAIN raw[j] : report[i] = p /\ RowsOf(raw[j], p) = {i}
    BY <1>4
  <2>2. Detail(raw[j], p, s) = Whole(raw[j][i].quantities[s])
    BY <1>1, <2>1, DetailOfOne
  <2>3. i \in 1..Len(raw[j])
    BY <1>1, <2>1
  <2>4. Whole(raw[j][i].quantities[s]) \in shown[j][p][s]
    BY <1>1, <2>1, <2>3 DEF ReadsReport
  <2> QED
    BY <1>2, <2>2, <2>4
<1> QED
  BY <1>1, <1>3, <1>4, OneRow

\* README.md:17 promises point-in-time snapshots.  As long as no product enters
\* or leaves the report meanwhile and acked batches commit, each figure of a
\* finished one is a figure the report showed for that product and warehouse
\* during the run
\* (service/moysklad.go:115-141, client/moysklad.go:94-135).
THEOREM SnapshotAlwaysShown ==
  ASSUME ~LoseCommit
  PROVE  Spec => []SnapshotWasShown
<1>1. Init => SyncInv
  BY SyncInit
<1>2. SyncInv /\ [Next]_vars => SyncInv'
  BY SyncNext
<1>3. SyncInv => SnapshotWasShown
  BY ShownFromInv
<1> QED
  BY <1>1, <1>2, <1>3, PTL DEF Spec

\* A run gets done by writing the totals.
LEMMA DoneByTotals ==
  ASSUME SnapshotInv, Next, NEW j \in Jobs, ~Done(j), Done(j)'
  PROVE  UpsertProductTotals(j) /\ ~GiveUp(j)
<1>1. TypeOK
  BY DEF SnapshotInv
<1>2. UNCHANGED <<pc, status, raw>> => FALSE
  BY Zenon DEF Done
<1>3. CASE InsertRow \/ RemoveRow \/ SetQuantity \/ OpenStore
  <2>1. UNCHANGED <<pc, locals>>
    BY <1>3, Zenon DEF InsertRow, RemoveRow, SetQuantity, OpenStore, Changed
  <2> QED
    BY <1>2, <2>1 DEF locals
<1>4. ASSUME NEW k \in Jobs, Start(k) \/ Step(k) \/ Crash(k) \/ Cancel(k)
      PROVE  k = j /\ UpsertProductTotals(j) /\ ~GiveUp(j)
  <2>1. \A l : Goto(k, l) => pc'[k] = l /\ \A m \in Jobs \ {k} : pc'[m] = pc[m]
    BY <1>1, MovedOn
  <2>2. GiveUp(k) => ~Done(k)' /\ \A m \in Jobs \ {k} : pc'[m] = pc[m] /\ status'[m] = status[m]
    BY <1>1, GaveUp
  <2>3. pc'[j] = "log" /\ status'[j] = "success" /\ raw'[j] # <<>>
    BY DEF Done
  <2>4. CASE Start(k)
    <3>1. /\ Goto(k, "stores") /\ status' = [status EXCEPT ![k] = "success"]
          /\ raw' = [raw EXCEPT ![k] = <<>>]
      BY <2>4 DEF Start
    <3>2. k # j
      BY <2>1, <2>3, <3>1
    <3>3. pc'[j] = pc[j] /\ status'[j] = status[j] /\ raw'[j] = raw[j]
      BY <1>1, <2>1, <3>1, <3>2 DEF TypeOK
    <3> QED
      BY <3>3, Zenon DEF Done
  <2>5. CASE Cancel(k)
    BY <1>2, <2>5 DEF Cancel, locals
  <2>6. CASE InsertMsJobLog(k) \/ Crash(k)
    <3>1. Goto(k, "idle") /\ UNCHANGED <<status, raw>>
      BY <2>6 DEF InsertMsJobLog, Crash, locals
    <3>2. k # j
      BY <2>1, <2>3, <3>1
    <3>3. pc'[j] = pc[j]
      BY <2>1, <3>1, <3>2
    <3> QED
      BY <3>1, <3>3, Zenon DEF Done
  <2>7. CASE FetchStockByStorePage(k)
    <3>1. k # j
      BY <1>1, <2>3, <2>7, PageLeads
    <3>2. pc'[j] = pc[j] /\ status'[j] = status[j] /\ raw'[j] = raw[j]
      BY <1>1, <2>7, <3>1, PageLeads
    <3> QED
      BY <3>2, Zenon DEF Done
  <2>8. CASE FetchStores(k) \/ UpsertStores(k) \/ CreateSnapshot(k) \/ InsertStockDetails(k)
    <3>1. /\ UNCHANGED raw
          /\ \/ UNCHANGED status /\ \E l \in {"snapshot", "upsertStores", "page", "totals"} : Goto(k, l)
             \/ GiveUp(k)
      BY <2>8, Zenon DEF FetchStores, UpsertStores, CreateSnapshot, InsertStockDetails
    <3>2. k # j
      BY <2>1, <2>2, <2>3, <3>1
    <3>3. pc'[j] = pc[j] /\ status'[j] = status[j] /\ raw'[j] = raw[j]
      BY <2>1, <2>2, <3>1, <3>2
    <3> QED
      BY <3>3, Zenon DEF Done
  <2>9. CASE UpsertProductTotals(k)
    <3>1. /\ UNCHANGED raw
          /\ \/ UNCHANGED status /\ Goto(k, "log")
             \/ GiveUp(k)
      BY <2>9, Zenon DEF UpsertProductTotals
    <3>2. CASE k # j
      <4>1. pc'[j] = pc[j] /\ status'[j] = status[j] /\ raw'[j] = raw[j]
        BY <2>1, <2>2, <3>1, <3>2
      <4> QED
        BY <4>1, Zenon DEF Done
    <3> QED
      BY <2>2, <2>9, <3>2
  <2> QED
    BY <1>4, <2>4, <2>5, <2>6, <2>7, <2>8, <2>9 DEF Step
<1> QED
  BY <1>3, <1>4 DEF Next

\* Under the same conditions a run that gets through leaves no product of the
\* report with the total of another snapshot (service/moysklad.go:132-141).
THEOREM SuccessAlwaysRenews ==
  ASSUME ~LoseCommit
  PROVE  Spec => SuccessRenewsAll
<1>1. Init => SyncInv
  BY SyncInit
<1>2. SyncInv /\ [Next]_vars => SyncInv'
  BY SyncNext
<1>3. SyncInv /\ [Next]_vars =>
        [\A j \in Jobs : ~Done(j) /\ Done(j)' /\ ~moved[j] =>
           \A p \in ToSet(report) : totals'[p].snapshot = snapshot[j]]_vars
  <2> SUFFICES ASSUME SyncInv, Next, NEW j \in Jobs, ~Done(j), Done(j)', ~moved[j],
                      NEW p \in ToSet(report)
               PROVE  totals'[p].snapshot = snapshot[j]
    OBVIOUS
  <2>1. TypeOK /\ SnapshotInv /\ p \in Products
    <3>1. TypeOK /\ SnapshotInv
      BY DEF SyncInv, SnapshotInv
    <3>2. report \in Seq(Products)
      BY <3>1 DEF TypeOK
    <3> QED
      BY <3>1, <3>2 DEF ToSet
  <2>2. UpsertProductTotals(j) /\ ~GiveUp(j)
    BY <2>1, DoneByTotals
  <2>3. /\ pc[j] = "totals"
        /\ totals' = [q \in Products |->
                        IF q \in Named(raw[j])
                          THEN [sum |-> Total(raw[j], q), snapshot |-> snapshot[j]]
                          ELSE totals[q]]
    BY <2>2, AckedCommits, Zenon DEF UpsertProductTotals
  <2>4. ReadsReport(j)
    BY <2>3 DEF SyncInv, Reading, HasSnapshot
  <2>5. PICK i \in DOMAIN raw[j] : RowsOf(raw[j], p) = {i}
    BY <2>1, <2>3, <2>4, OneRow
  <2>6. p \in Named(raw[j])
    BY <2>5 DEF RowsOf, Named
  <2> QED
    BY <2>1, <2>3, <2>6
<1> QED
  BY <1>1, <1>2, <1>3, PTL DEF Spec, SuccessRenewsAll

=============================================================================
