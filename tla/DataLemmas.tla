----------------------------- MODULE DataLemmas -----------------------------
(***************************************************************************)
(* Facts about data that several proofs need.                              *)
(***************************************************************************)
EXTENDS Numpy, SequencesExt, FiniteSetTheorems, TLAPS

-----------------------------------------------------------------------------
(* Induction, for sets of numbers.                                         *)

LEMMA Minimum ==
    ASSUME NEW S, S \subseteq Nat, S # {}
    PROVE  \E x \in S : \A y \in S : x <= y
  <1>1. PICK x \in S : \A y \in S : ~ (<<y, x>> \in OpToRel(<, Nat))
    BY NatLessThanWellFounded, WFMin
  <1>2. ASSUME NEW y \in S PROVE x <= y
    <2>1. ~ (<<y, x>> \in {ss \in Nat \X Nat : ss[1] < ss[2]})
      BY <1>1 DEF OpToRel
    <2> QED
      BY <2>1
  <1> QED
    BY <1>2

\* What holds at 0 and is handed on up to n holds up to n.
LEMMA Upwards ==
    ASSUME NEW n \in Nat, NEW T, 0 \in T, \A k \in 0 .. n - 1 : k \in T => k + 1 \in T
    PROVE  0 .. n \subseteq T
  <1> SUFFICES ASSUME (0 .. n) \ T # {} PROVE FALSE
    OBVIOUS
  <1>1. PICK x \in (0 .. n) \ T : \A y \in (0 .. n) \ T : x <= y
    <2>1. (0 .. n) \ T \subseteq Nat
      OBVIOUS
    <2> QED
      BY <2>1, Minimum
  <1>2. x - 1 \in 0 .. n - 1 /\ x - 1 \in T
    BY <1>1
  <1> QED
    BY <1>1, <1>2

\* G[k] leads from the value at k - 1 to the one at k, and f follows it.
Leads(n, V, base, G) == n \in Nat /\ base \in V /\ \A v \in V, k \in 1 .. n : G[k][v] \in V
Follows(f, n, V, base, G) ==
    f \in [0 .. n -> V] /\ f[0] = base /\ \A k \in 1 .. n : f[k] = G[k][f[k - 1]]

\* A recursive definition along 0 .. n has a solution.
LEMMA Recursion ==
    ASSUME NEW n, NEW V, NEW base, NEW G, Leads(n, V, base, G)
    PROVE  \E f : Follows(f, n, V, base, G)
  <1> USE DEF Leads, Follows
  <1> DEFINE Sol(m, f) == f \in [0 .. m -> V] /\ f[0] = base /\ \A k \in 1 .. m : f[k] = G[k][f[k - 1]]
             T == {m \in 0 .. n : \E f : Sol(m, f)}
  <1>1. 0 \in T
    <2> DEFINE g == [k \in 0 .. 0 |-> base]
    <2>1. g[0] = base /\ g \in [0 .. 0 -> V] /\ 1 .. 0 = {}
      OBVIOUS
    <2>2. Sol(0, g)
      BY <2>1
    <2> HIDE DEF Sol, g
    <2> QED
      BY <2>2
  <1>2. ASSUME NEW m \in 0 .. n - 1, m \in T PROVE m + 1 \in T
    <2>1. PICK f : Sol(m, f)
      BY <1>2
    <2>2. f[m] \in V /\ m + 1 \in 1 .. n
      BY <2>1
    <2> DEFINE next == G[m + 1][f[m]]
    <2>3. next \in V
      BY <2>2
    <2> HIDE DEF next
    <2> DEFINE g == [k \in 0 .. m + 1 |-> IF k = m + 1 THEN next ELSE f[k]]
    <2>4. g \in [0 .. m + 1 -> V] /\ g[0] = base
      BY <2>1, <2>3
    <2>5. ASSUME NEW k \in 1 .. m + 1 PROVE g[k] = G[k][g[k - 1]]
      <3>1. CASE k = m + 1
        BY <2>1, <3>1 DEF next
      <3>2. CASE k # m + 1
        <4>1. k \in 1 .. m /\ k - 1 \in 0 .. m + 1 /\ k - 1 # m + 1
          BY <3>2
        <4>2. f[k] = G[k][f[k - 1]]
          BY <2>1, <4>1
        <4> QED
          BY <4>1, <4>2
      <3> QED
        BY <3>1, <3>2
    <2>6. Sol(m + 1, g)
      BY <2>4, <2>5
    <2> HIDE DEF Sol, g
    <2> QED
      BY <2>6
  <1> HIDE DEF T
  <1>3. 0 .. n \subseteq T
    BY <1>1, <1>2, Upwards
  <1>4. n \in T
    BY <1>3
  <1> QED
    BY <1>4 DEF T

-----------------------------------------------------------------------------
(* Sorting.                                                                *)

\* A finite set with a strict total order R has one ascending enumeration, at least.
LEMMA Enumeration ==
    ASSUME NEW S, IsFiniteSet(S), NEW R,
           \A x, y \in S : x # y => <<x, y>> \in R \/ <<y, x>> \in R,
           \A x \in S : <<x, x>> \notin R,
           \A x, y, z \in S : <<x, y>> \in R /\ <<y, z>> \in R => <<x, z>> \in R
    PROVE  \E f \in Bijection(1 .. Cardinality(S), S) :
              \A i, j \in 1 .. Cardinality(S) : i < j => <<f[i], f[j]>> \in R
  <1> DEFINE n == Cardinality(S)
             below(x) == {y \in S : <<y, x>> \in R}
             pos == [x \in S |-> Cardinality(below(x)) + 1]
  <1>1. n \in Nat /\ IsFiniteSet(1 .. n) /\ Cardinality(1 .. n) = n
    BY FS_CardinalityType, FS_Interval
  <1>2. ASSUME NEW x \in S
        PROVE  IsFiniteSet(below(x)) /\ Cardinality(below(x)) \in 0 .. n - 1
    <2>1. below(x) \in SUBSET S /\ x \notin below(x)
      OBVIOUS
    <2> HIDE DEF below
    <2>2. /\ IsFiniteSet(below(x)) /\ Cardinality(below(x)) <= n
          /\ (Cardinality(below(x)) = n => below(x) = S)
      BY <2>1, FS_Subset
    <2>3. Cardinality(below(x)) \in Nat
      BY <2>2, FS_CardinalityType
    <2> QED
      BY <2>1, <2>2, <2>3, <1>1
  <1>3. ASSUME NEW x \in S, NEW y \in S, <<x, y>> \in R
        PROVE  Cardinality(below(x)) < Cardinality(below(y))
    <2>1. below(x) \in SUBSET below(y) /\ x \in below(y) /\ x \notin below(x)
      BY <1>3
    <2> HIDE DEF below
    <2>2. IsFiniteSet(below(y)) /\ Cardinality(below(x)) \in Int /\ Cardinality(below(y)) \in Int
      BY <1>1, <1>2
    <2> QED
      BY <2>1, <2>2, FS_Subset
  <1>4. pos \in [S -> 1 .. n]
    <2> HIDE DEF below, n
    <2>1. ASSUME NEW x \in S PROVE Cardinality(below(x)) + 1 \in 1 .. n
      BY <1>1, <1>2
    <2> QED
      BY <2>1
  <1>5. \A x, y \in S : <<x, y>> \in R => pos[x] < pos[y]
    <2> TAKE x \in S, y \in S
    <2> HIDE DEF below
    <2>1. Cardinality(below(x)) \in Int /\ Cardinality(below(y)) \in Int
      BY <1>1, <1>2
    <2> QED
      BY <1>3, <2>1
  <1> HIDE DEF pos
  <1>6. pos \in Injection(S, 1 .. n)
    <2>1. \A x \in S : pos[x] \in Int
      BY <1>1, <1>4
    <2>2. ASSUME NEW x \in S, NEW y \in S, x # y PROVE pos[x] # pos[y]
      <3>1. <<x, y>> \in R \/ <<y, x>> \in R
        BY <2>2
      <3>2. pos[x] < pos[y] \/ pos[y] < pos[x]
        BY <3>1, <1>5
      <3> QED
        BY <2>1, <3>2
    <2> QED
      BY <1>4, <2>2 DEF Injection, IsInjective
  <1>7. pos \in Surjection(S, 1 .. n)
    BY <1>1, <1>6, FS_Injection
  <1>8. \A i \in 1 .. n : \E x \in S : pos[x] = i
    BY <1>7 DEF Surjection
  <1> DEFINE f == [i \in 1 .. n |-> CHOOSE x \in S : pos[x] = i]
  <1>9. \A i \in 1 .. n : f[i] \in S /\ pos[f[i]] = i
    BY <1>8
  <1>10. f \in [1 .. n -> S]
    BY <1>9
  <1> HIDE DEF f, n
  <1>11. \A i, j \in 1 .. n : f[i] = f[j] => i = j
    BY <1>9
  <1>12. \A x \in S : \E i \in 1 .. n : f[i] = x
    <2> TAKE x \in S
    <2>1. pos[x] \in 1 .. n
      BY <1>4
    <2>2. pos[f[pos[x]]] = pos[x] /\ f[pos[x]] \in S
      BY <1>9, <2>1
    <2>3. f[pos[x]] = x
      BY <2>2, <1>6, <1>4 DEF Injection, IsInjective
    <2> QED
      BY <2>1, <2>3
  <1>13. f \in Bijection(1 .. n, S)
    BY <1>10, <1>11, <1>12 DEF Bijection, Injection, Surjection, IsInjective
  <1>14. \A i, j \in 1 .. n : i < j => <<f[i], f[j]>> \in R
    <2> SUFFICES ASSUME NEW i \in 1 .. n, NEW j \in 1 .. n, i < j PROVE <<f[i], f[j]>> \in R
      OBVIOUS
    <2>1. f[i] \in S /\ f[j] \in S /\ pos[f[i]] = i /\ pos[f[j]] = j
      BY <1>9
    <2>2. f[i] # f[j]
      BY <2>1, <1>1
    <2>3. ~ (<<f[j], f[i]>> \in R)
      BY <2>1, <1>5, <1>1
    <2> QED
      BY <2>1, <2>2, <2>3
  <1> QED
    BY <1>13, <1>14 DEF n

\* Numbers are sorted by a permutation of their places, a stable one.
LEMMA Sorting ==
    ASSUME NEW n \in Nat, NEW t \in [1 .. n -> Int]
    PROVE  \E p \in Bijection(1 .. n, 1 .. n) :
              \A j, k \in 1 .. n : j < k => \/ t[p[j]] < t[p[k]]
                                            \/ t[p[j]] = t[p[k]] /\ p[j] < p[k]
  <1> DEFINE R == {x \in (1 .. n) \X (1 .. n) :
                      t[x[1]] < t[x[2]] \/ (t[x[1]] = t[x[2]] /\ x[1] < x[2])}
             S == 1 .. n
  <1>1. \A i, j \in S : <<i, j>> \in R <=> (t[i] < t[j] \/ (t[i] = t[j] /\ i < j))
    OBVIOUS
  <1>2. \A i \in S : t[i] \in Int /\ i \in Int
    OBVIOUS
  <1>3. IsFiniteSet(S) /\ Cardinality(S) = n
    BY FS_Interval
  <1> HIDE DEF R, S
  <1>4. /\ \A x, y \in S : x # y => <<x, y>> \in R \/ <<y, x>> \in R
        /\ \A x \in S : <<x, x>> \notin R
        /\ \A x, y, z \in S : <<x, y>> \in R /\ <<y, z>> \in R => <<x, z>> \in R
    BY <1>1, <1>2
  <1>5. PICK p \in Bijection(1 .. Cardinality(S), S) :
            \A i, j \in 1 .. Cardinality(S) : i < j => <<p[i], p[j]>> \in R
    BY <1>3, <1>4, Enumeration
  <1>6. p \in Bijection(1 .. n, 1 .. n) /\ S = 1 .. n
    BY <1>3, <1>5 DEF S
  <1>7. \A j, k \in 1 .. n : j < k => <<p[j], p[k]>> \in R /\ p[j] \in S /\ p[k] \in S
    BY <1>3, <1>5, <1>6 DEF Bijection, Injection
  <1> QED
    BY <1>1, <1>6, <1>7

-----------------------------------------------------------------------------
(* Sums over finite sets, SumFunctionOnSet of the community modules.       *)

\* A family of subsets of a finite set has one that contains no other.
LEMMA LeastSubset ==
    ASSUME NEW S, IsFiniteSet(S), NEW C, C \subseteq SUBSET S, C # {}
    PROVE  \E T \in C : \A U \in C : U \subseteq T => U = T
  <1> DEFINE sizes == {Cardinality(T) : T \in C}
  <1>1. \A T \in C : IsFiniteSet(T) /\ Cardinality(T) \in Nat
    BY FS_Subset, FS_CardinalityType
  <1>2. PICK m \in sizes : \A k \in sizes : m <= k
    <2>1. sizes \subseteq Nat /\ sizes # {}
      BY <1>1
    <2> HIDE DEF sizes
    <2> QED
      BY <2>1, Minimum
  <1>3. PICK T \in C : Cardinality(T) = m
    BY <1>2
  <1>4. ASSUME NEW U \in C, U \subseteq T PROVE U = T
    <2>1. Cardinality(U) <= Cardinality(T) /\ (Cardinality(T) = Cardinality(U) => T = U)
      BY <1>1, <1>4, FS_Subset
    <2>2. m <= Cardinality(U) /\ Cardinality(U) \in Nat /\ m \in Nat
      BY <1>1, <1>2, <1>3
    <2> QED
      BY <1>3, <2>1, <2>2
  <1> QED
    BY <1>4

\* Pick is the choice that a fold over a set makes; Folds(f, S, h) says that h has the sums
\* of f over all subsets of S.
Pick(T) == CHOOSE x \in T : TRUE
Folds(f, S, h) == h = [T \in SUBSET S |-> IF T = {} THEN 0 ELSE f[Pick(T)] + h[T \ {Pick(T)}]]

LEMMA PickIn ==
    ASSUME NEW T, T # {}
    PROVE  Pick(T) \in T
  BY DEF Pick

\* Two tables of sums agree.
LEMMA FoldsAgree ==
    ASSUME NEW f, NEW S, NEW g, Folds(f, S, g), NEW U, NEW h, Folds(f, U, h),
           NEW T, T \subseteq S, T \subseteq U, IsFiniteSet(T)
    PROVE  g[T] = h[T]
  <1> DEFINE C == {A \in SUBSET T : g[A] # h[A]}
  <1> SUFFICES ASSUME C # {} PROVE FALSE
    OBVIOUS
  <1>1. PICK A \in C : \A B \in C : B \subseteq A => B = A
    <2>1. C \subseteq SUBSET T
      OBVIOUS
    <2> HIDE DEF C
    <2> QED
      BY <2>1, LeastSubset
  <1>2. A # {}
    BY <1>1 DEF Folds
  <1>3. Pick(A) \in A
    BY <1>2, PickIn
  <1>4. A \ {Pick(A)} \notin C /\ A \ {Pick(A)} \in SUBSET T
    BY <1>1, <1>3
  <1>5. g[A \ {Pick(A)}] = h[A \ {Pick(A)}]
    BY <1>4
  <1>6. A \in SUBSET S /\ A \in SUBSET U
    BY <1>1
  <1>7. g[A] = f[Pick(A)] + g[A \ {Pick(A)}] /\ h[A] = f[Pick(A)] + h[A \ {Pick(A)}]
    BY <1>2, <1>6 DEF Folds
  <1> QED
    BY <1>1, <1>5, <1>7

\* The subsets of up to m elements of S.
Small(S, m) == {T \in SUBSET S : Cardinality(T) <= m}

LEMMA FoldsExists ==
    ASSUME NEW f, NEW S, IsFiniteSet(S)
    PROVE  \E h : Folds(f, S, h)
  <1> DEFINE n == Cardinality(S)
             Sol(m, h) == /\ h = [T \in Small(S, m) |-> h[T]]
                          /\ \A T \in Small(S, m) :
                                h[T] = IF T = {} THEN 0 ELSE f[Pick(T)] + h[T \ {Pick(T)}]
             M == {m \in 0 .. n : \E h : Sol(m, h)}
  <1>1. n \in Nat /\ \A T \in SUBSET S : IsFiniteSet(T) /\ Cardinality(T) \in 0 .. n
    BY FS_CardinalityType, FS_Subset
  <1>2. 0 \in M
    <2> DEFINE h == [T \in Small(S, 0) |-> 0]
    <2>1. \A T \in Small(S, 0) : T = {}
      BY <1>1, FS_EmptySet DEF Small
    <2>2. Sol(0, h)
      BY <2>1
    <2> HIDE DEF Sol, h
    <2> QED
      BY <1>1, <2>2
  <1>3. ASSUME NEW m \in 0 .. n - 1, m \in M PROVE m + 1 \in M
    <2>1. PICK g : Sol(m, g)
      BY <1>3
    <2> DEFINE value(T) == IF T = {} THEN 0 ELSE f[Pick(T)] + g[T \ {Pick(T)}]
               h == [T \in Small(S, m + 1) |-> value(T)]
    <2>2. Small(S, m) \subseteq Small(S, m + 1)
      BY <1>1 DEF Small
    <2>3. \A T \in Small(S, m) : h[T] = g[T]
      BY <2>1, <2>2
    <2>4. ASSUME NEW T \in Small(S, m + 1), T # {}
          PROVE  T \ {Pick(T)} \in Small(S, m)
      <3>1. Pick(T) \in T /\ IsFiniteSet(T) /\ Cardinality(T) \in Nat
        BY <1>1, <2>4, PickIn DEF Small
      <3>2. Cardinality(T \ {Pick(T)}) = Cardinality(T) - 1
        BY <3>1, FS_RemoveElement
      <3> QED
        BY <3>1, <3>2 DEF Small
    <2>5. ASSUME NEW T \in Small(S, m + 1)
          PROVE  h[T] = IF T = {} THEN 0 ELSE f[Pick(T)] + h[T \ {Pick(T)}]
      <3>1. T # {} => h[T \ {Pick(T)}] = g[T \ {Pick(T)}]
        BY <2>3, <2>4
      <3> QED
        BY <3>1
    <2>6. Sol(m + 1, h)
      BY <2>5
    <2>7. m + 1 \in 0 .. n
      BY <1>1
    <2> HIDE DEF Sol, h, n
    <2> QED
      BY <2>6, <2>7
  <1> HIDE DEF M
  <1>4. 0 .. n \subseteq M
    BY <1>1, <1>2, <1>3, Upwards
  <1>5. PICK h : Sol(n, h)
    BY <1>1, <1>4 DEF M
  <1>6. Small(S, n) = SUBSET S
    BY <1>1 DEF Small
  <1>7. h = [T \in SUBSET S |-> h[T]]
    BY <1>5, <1>6
  <1>8. \A T \in SUBSET S : h[T] = IF T = {} THEN 0 ELSE f[Pick(T)] + h[T \ {Pick(T)}]
    BY <1>5, <1>6
  <1> DEFINE k == [T \in SUBSET S |-> IF T = {} THEN 0 ELSE f[Pick(T)] + h[T \ {Pick(T)}]]
  <1>9. h = k
    BY <1>7, <1>8
  <1> QED
    BY <1>9 DEF Folds

LEMMA SumIsFold ==
    ASSUME NEW f, NEW S, IsFiniteSet(S)
    PROVE  \E h : Folds(f, S, h) /\ SumFunctionOnSet(f, S) = h[S]
  <1> DEFINE h == CHOOSE h : Folds(f, S, h)
  <1>1. Folds(f, S, h)
    BY FoldsExists
  <1>2. SumFunctionOnSet(f, S) = h[S]
    BY DEF SumFunctionOnSet, FoldFunctionOnSet, MapThenFoldSet, Folds, Pick
  <1> QED
    BY <1>1, <1>2
LEMMA SumEmpty ==
    ASSUME NEW f
    PROVE  SumFunctionOnSet(f, {}) = 0
  <1>1. IsFiniteSet({})
    BY FS_EmptySet
  <1>2. PICK h : Folds(f, {}, h) /\ SumFunctionOnSet(f, {}) = h[{}]
    BY <1>1, SumIsFold
  <1> QED
    BY <1>2 DEF Folds

\* The table of any finite set that has S as a subset knows the sum over S.
LEMMA SumInTable ==
    ASSUME NEW f, NEW S, IsFiniteSet(S), NEW h, Folds(f, S, h), NEW T \in SUBSET S
    PROVE  SumFunctionOnSet(f, T) = h[T]
  <1>1. IsFiniteSet(T)
    BY FS_Subset
  <1>2. PICK g : Folds(f, T, g) /\ SumFunctionOnSet(f, T) = g[T]
    BY <1>1, SumIsFold
  <1> QED
    BY <1>1, <1>2, FoldsAgree

LEMMA SumPick ==
    ASSUME NEW f, NEW S, IsFiniteSet(S), S # {}
    PROVE  SumFunctionOnSet(f, S) = f[Pick(S)] + SumFunctionOnSet(f, S \ {Pick(S)})
  <1>1. PICK h : Folds(f, S, h)
    BY FoldsExists
  <1>2. SumFunctionOnSet(f, S) = h[S]
    BY <1>1, SumInTable
  <1>3. S \ {Pick(S)} \in SUBSET S
    OBVIOUS
  <1>4. SumFunctionOnSet(f, S \ {Pick(S)}) = h[S \ {Pick(S)}]
    BY <1>1, <1>3, SumInTable
  <1>5. h[S] = f[Pick(S)] + h[S \ {Pick(S)}]
    BY <1>1 DEF Folds
  <1> QED
    BY <1>2, <1>4, <1>5

LEMMA SumInt ==
    ASSUME NEW f, NEW S, IsFiniteSet(S), \A x \in S : f[x] \in Int
    PROVE  SumFunctionOnSet(f, S) \in Int
  <1> DEFINE C == {T \in SUBSET S : SumFunctionOnSet(f, T) \notin Int}
  <1> SUFFICES ASSUME C # {} PROVE FALSE
    OBVIOUS
  <1>1. PICK T \in C : \A U \in C : U \subseteq T => U = T
    <2>1. C \subseteq SUBSET S
      OBVIOUS
    <2> HIDE DEF C
    <2> QED
      BY <2>1, LeastSubset
  <1>2. T # {} /\ IsFiniteSet(T)
    <2>1. SumFunctionOnSet(f, {}) \in Int
      BY SumEmpty
    <2> QED
      BY <1>1, <2>1, FS_Subset
  <1>3. Pick(T) \in T
    BY <1>2, PickIn
  <1>4. SumFunctionOnSet(f, T \ {Pick(T)}) \in Int
    BY <1>1, <1>3
  <1>5. SumFunctionOnSet(f, T) = f[Pick(T)] + SumFunctionOnSet(f, T \ {Pick(T)})
    BY <1>2, SumPick
  <1> QED
    BY <1>1, <1>3, <1>4, <1>5

\* The order in which a sum is taken does not matter.
LEMMA SumRemove ==
    ASSUME NEW f, NEW S, IsFiniteSet(S), \A x \in S : f[x] \in Int, NEW e \in S
    PROVE  SumFunctionOnSet(f, S) = f[e] + SumFunctionOnSet(f, S \ {e})
  <1> DEFINE C == {T \in SUBSET S :
                      \E x \in T : SumFunctionOnSet(f, T) # f[x] + SumFunctionOnSet(f, T \ {x})}
  <1> SUFFICES ASSUME C # {} PROVE FALSE
    OBVIOUS
  <1>1. PICK T \in C : \A U \in C : U \subseteq T => U = T
    <2>1. C \subseteq SUBSET S
      OBVIOUS
    <2> HIDE DEF C
    <2> QED
      BY <2>1, LeastSubset
  <1>2. PICK x \in T : SumFunctionOnSet(f, T) # f[x] + SumFunctionOnSet(f, T \ {x})
    BY <1>1
  <1> DEFINE y == Pick(T)
             rest == T \ {x, y}
  <1>3. T # {} /\ IsFiniteSet(T) /\ y \in T /\ IsFiniteSet(rest)
    BY <1>1, <1>2, PickIn, FS_Subset
  <1>4. SumFunctionOnSet(f, T) = f[y] + SumFunctionOnSet(f, T \ {y})
    BY <1>3, SumPick
  <1>5. x # y
    BY <1>2, <1>4
  <1>6. T \ {x} \notin C /\ T \ {y} \notin C
    BY <1>1, <1>2, <1>3
  <1> HIDE DEF y
  <1>7. SumFunctionOnSet(f, T \ {x}) = f[y] + SumFunctionOnSet(f, (T \ {x}) \ {y})
    BY <1>1, <1>3, <1>5, <1>6
  <1>8. SumFunctionOnSet(f, T \ {y}) = f[x] + SumFunctionOnSet(f, (T \ {y}) \ {x})
    BY <1>1, <1>2, <1>5, <1>6
  <1>9. (T \ {x}) \ {y} = rest /\ (T \ {y}) \ {x} = rest
    OBVIOUS
  <1> HIDE DEF rest, C
  <1>10. f[x] \in Int /\ f[y] \in Int /\ SumFunctionOnSet(f, rest) \in Int
    <2>1. \A z \in rest : f[z] \in Int
      BY <1>1 DEF rest, C
    <2> QED
      BY <1>1, <1>2, <1>3, <2>1, SumInt DEF C
  <1>11. SumFunctionOnSet(f, T) = f[y] + (f[x] + SumFunctionOnSet(f, rest))
    BY <1>4, <1>8, <1>9
  <1>12. SumFunctionOnSet(f, T) = f[x] + (f[y] + SumFunctionOnSet(f, rest))
    BY <1>10, <1>11
  <1> QED
    BY <1>2, <1>7, <1>9, <1>12

LEMMA SumAdd ==
    ASSUME NEW f, NEW S, IsFiniteSet(S), NEW e, e \notin S, \A x \in S \cup {e} : f[x] \in Int
    PROVE  SumFunctionOnSet(f, S \cup {e}) = SumFunctionOnSet(f, S) + f[e]
  <1>1. IsFiniteSet(S \cup {e}) /\ (S \cup {e}) \ {e} = S
    BY FS_AddElement
  <1>2. SumFunctionOnSet(f, S) \in Int
    BY SumInt
  <1> QED
    BY <1>1, <1>2, SumRemove
LEMMA SumUnion ==
    ASSUME NEW f, NEW S, IsFiniteSet(S), NEW T, IsFiniteSet(T), S \cap T = {},
           \A x \in S \cup T : f[x] \in Int
    PROVE  SumFunctionOnSet(f, S \cup T) = SumFunctionOnSet(f, S) + SumFunctionOnSet(f, T)
  <1> DEFINE C == {A \in SUBSET T : SumFunctionOnSet(f, S \cup A)
                                       # SumFunctionOnSet(f, S) + SumFunctionOnSet(f, A)}
  <1> SUFFICES ASSUME C # {} PROVE FALSE
    OBVIOUS
  <1>1. PICK A \in C : \A B \in C : B \subseteq A => B = A
    <2>1. C \subseteq SUBSET T
      OBVIOUS
    <2> HIDE DEF C
    <2> QED
      BY <2>1, LeastSubset
  <1>2. SumFunctionOnSet(f, S) \in Int
    BY SumInt
  <1>3. A # {}
    <2>1. S \cup {} = S /\ SumFunctionOnSet(f, {}) = 0
      BY SumEmpty
    <2>2. {} \notin C
      BY <1>2, <2>1
    <2> QED
      BY <1>1, <2>2
  <1>4. PICK e \in A : TRUE
    BY <1>3
  <1> DEFINE B == A \ {e}
  <1>5. B \in SUBSET T /\ B \notin C /\ e \notin B /\ A = B \cup {e} /\ e \notin S \cup B
    BY <1>1, <1>4
  <1>6. SumFunctionOnSet(f, S \cup B) = SumFunctionOnSet(f, S) + SumFunctionOnSet(f, B)
    BY <1>5
  <1> HIDE DEF B, C
  <1>7. IsFiniteSet(B) /\ IsFiniteSet(S \cup B)
    BY <1>5, FS_Subset, FS_Union
  <1>8. /\ \A x \in B \cup {e} : f[x] \in Int
        /\ \A x \in (S \cup B) \cup {e} : f[x] \in Int
    BY <1>4, <1>5, <1>1 DEF C
  <1>9. SumFunctionOnSet(f, A) = SumFunctionOnSet(f, B) + f[e]
    BY <1>5, <1>7, <1>8, SumAdd
  <1>10. SumFunctionOnSet(f, (S \cup B) \cup {e}) = SumFunctionOnSet(f, S \cup B) + f[e]
    BY <1>5, <1>7, <1>8, SumAdd
  <1>11. SumFunctionOnSet(f, S \cup A) = SumFunctionOnSet(f, (S \cup B) \cup {e})
    <2>1. S \cup A = (S \cup B) \cup {e}
      BY <1>5
    <2> QED
      BY <2>1, Zenon
  <1>12. SumFunctionOnSet(f, B) \in Int /\ f[e] \in Int
    BY <1>7, <1>8, SumInt
  <1>13. SumFunctionOnSet(f, S \cup A) = SumFunctionOnSet(f, S) + SumFunctionOnSet(f, A)
    BY <1>2, <1>6, <1>9, <1>10, <1>11, <1>12
  <1> QED
    BY <1>1, <1>13 DEF C

LEMMA SumNat ==
    ASSUME NEW f, NEW S, IsFiniteSet(S), \A x \in S : f[x] \in Nat
    PROVE  SumFunctionOnSet(f, S) \in Nat
  <1> DEFINE C == {T \in SUBSET S : SumFunctionOnSet(f, T) \notin Nat}
  <1> SUFFICES ASSUME C # {} PROVE FALSE
    OBVIOUS
  <1>1. PICK T \in C : \A U \in C : U \subseteq T => U = T
    <2>1. C \subseteq SUBSET S
      OBVIOUS
    <2> HIDE DEF C
    <2> QED
      BY <2>1, LeastSubset
  <1>2. T # {} /\ IsFiniteSet(T)
    <2>1. SumFunctionOnSet(f, {}) \in Nat
      BY SumEmpty
    <2> QED
      BY <1>1, <2>1, FS_Subset
  <1>3. Pick(T) \in T
    BY <1>2, PickIn
  <1>4. SumFunctionOnSet(f, T \ {Pick(T)}) \in Nat
    BY <1>1, <1>3
  <1>5. SumFunctionOnSet(f, T) = f[Pick(T)] + SumFunctionOnSet(f, T \ {Pick(T)})
    BY <1>2, SumPick
  <1> QED
    BY <1>1, <1>3, <1>4, <1>5

LEMMA SumMonotone ==
    ASSUME NEW f, NEW S, IsFiniteSet(S), \A x \in S : f[x] \in Nat, NEW T \in SUBSET S
    PROVE  /\ SumFunctionOnSet(f, T) \in Nat
           /\ SumFunctionOnSet(f, T) <= SumFunctionOnSet(f, S)
  <1>1. IsFiniteSet(T) /\ IsFiniteSet(S \ T) /\ T \cap (S \ T) = {} /\ T \cup (S \ T) = S
    BY FS_Subset
  <1>2. SumFunctionOnSet(f, T) \in Nat /\ SumFunctionOnSet(f, S \ T) \in Nat
    BY <1>1, SumNat
  <1>3. SumFunctionOnSet(f, T \cup (S \ T)) = SumFunctionOnSet(f, T) + SumFunctionOnSet(f, S \ T)
    BY <1>1, SumUnion
  <1>4. SumFunctionOnSet(f, T \cup (S \ T)) = SumFunctionOnSet(f, S)
    BY <1>1, Zenon
  <1> QED
    BY <1>2, <1>3, <1>4

\* A sum of natural numbers is zero only when every one of them is.
LEMMA SumZero ==
    ASSUME NEW f, NEW S, IsFiniteSet(S), \A x \in S : f[x] \in Nat, SumFunctionOnSet(f, S) = 0
    PROVE  /\ \A x \in S : f[x] = 0
           /\ \A T \in SUBSET S : SumFunctionOnSet(f, T) = 0
  <1>1. ASSUME NEW x \in S PROVE f[x] = 0
    <2>1. SumFunctionOnSet(f, S) = f[x] + SumFunctionOnSet(f, S \ {x})
      BY SumRemove
    <2>2. SumFunctionOnSet(f, S \ {x}) \in Nat
      BY SumMonotone
    <2> QED
      BY <2>1, <2>2
  <1>2. ASSUME NEW T \in SUBSET S PROVE SumFunctionOnSet(f, T) = 0
    BY SumMonotone
  <1> QED
    BY <1>1, <1>2

\* A renaming of a finite set is finite, and no smaller when it is one to one.
LEMMA ImageFinite ==
    ASSUME NEW S, IsFiniteSet(S), NEW h
    PROVE  /\ IsFiniteSet({h[x] : x \in S})
           /\ Cardinality({h[x] : x \in S}) <= Cardinality(S)
           /\ (\A x, y \in S : h[x] = h[y] => x = y) =>
                  Cardinality({h[x] : x \in S}) = Cardinality(S)
  <1> DEFINE T == {h[x] : x \in S}
             k == [x \in S |-> h[x]]
  <1>1. k \in Surjection(S, T)
    BY DEF Surjection
  <1> HIDE DEF T
  <1>2. /\ IsFiniteSet(T) /\ Cardinality(T) <= Cardinality(S)
        /\ Cardinality(T) = Cardinality(S) <=> k \in Injection(S, T)
    BY <1>1, FS_Surjection
  <1>3. (\A x, y \in S : h[x] = h[y] => x = y) => k \in Injection(S, T)
    BY <1>1 DEF Surjection, Injection, IsInjective
  <1> QED
    BY <1>2, <1>3 DEF T

\* A sum over a set is the sum over other names for its elements.
LEMMA SumImage ==
    ASSUME NEW f, NEW S, IsFiniteSet(S), NEW g, NEW h,
           \A x, y \in S : h[x] = h[y] => x = y,
           \A x \in S : g[x] = f[h[x]] /\ g[x] \in Int
    PROVE  SumFunctionOnSet(g, S) = SumFunctionOnSet(f, {h[x] : x \in S})
  <1> DEFINE image(T) == {h[x] : x \in T}
             C == {T \in SUBSET S : SumFunctionOnSet(g, T) # SumFunctionOnSet(f, image(T))}
  <1> SUFFICES ASSUME C # {} PROVE FALSE
    OBVIOUS
  <1>1. PICK T \in C : \A U \in C : U \subseteq T => U = T
    <2>1. C \subseteq SUBSET S
      OBVIOUS
    <2> HIDE DEF C
    <2> QED
      BY <2>1, LeastSubset
  <1>2. T # {} /\ IsFiniteSet(T)
    <2>1. image({}) = {}
      OBVIOUS
    <2>2. {} \notin C
      BY <2>1, SumEmpty
    <2> QED
      BY <1>1, <2>2, FS_Subset
  <1>3. PICK e \in T : TRUE
    BY <1>2
  <1> DEFINE rest == T \ {e}
  <1>4. rest \notin C /\ rest \in SUBSET S /\ e \notin rest /\ T = rest \cup {e}
    BY <1>1, <1>3
  <1>5. image(T) = image(rest) \cup {h[e]} /\ h[e] \notin image(rest)
    BY <1>1, <1>3
  <1>6. IsFiniteSet(rest) /\ IsFiniteSet(image(rest))
    <2>1. IsFiniteSet(rest)
      BY <1>2, FS_RemoveElement
    <2> QED
      BY <2>1, ImageFinite
  <1>7. SumFunctionOnSet(g, rest) = SumFunctionOnSet(f, image(rest))
    BY <1>4
  <1>8. /\ \A x \in rest \cup {e} : g[x] \in Int
        /\ \A y \in image(rest) \cup {h[e]} : f[y] \in Int
        /\ g[e] = f[h[e]]
    BY <1>3, <1>4
  <1> HIDE DEF image, rest, C
  <1>9. SumFunctionOnSet(g, rest \cup {e}) = SumFunctionOnSet(g, rest) + g[e]
    BY <1>4, <1>6, <1>8, SumAdd
  <1>10. SumFunctionOnSet(f, image(rest) \cup {h[e]}) = SumFunctionOnSet(f, image(rest)) + f[h[e]]
    BY <1>5, <1>6, <1>8, SumAdd
  <1>11. SumFunctionOnSet(g, T) = SumFunctionOnSet(g, rest \cup {e})
    BY <1>4, Zenon
  <1>12. SumFunctionOnSet(f, image(T)) = SumFunctionOnSet(f, image(rest) \cup {h[e]})
    BY <1>5, Zenon
  <1>13. SumFunctionOnSet(g, T) = SumFunctionOnSet(f, image(T))
    BY <1>7, <1>8, <1>9, <1>10, <1>11, <1>12
  <1> QED
    BY <1>1, <1>13 DEF C

\* A sum depends on what it adds only.
LEMMA SumSame ==
    ASSUME NEW f, NEW g, NEW S, IsFiniteSet(S), \A x \in S : f[x] = g[x] /\ f[x] \in Int
    PROVE  SumFunctionOnSet(f, S) = SumFunctionOnSet(g, S)
  <1> DEFINE h == [x \in S |-> x]
  <1>1. SumFunctionOnSet(f, S) = SumFunctionOnSet(g, {h[x] : x \in S})
    <2>1. /\ \A x, y \in S : h[x] = h[y] => x = y
          /\ \A x \in S : f[x] = g[h[x]] /\ f[x] \in Int
      OBVIOUS
    <2> HIDE DEF h
    <2> QED
      BY <2>1, SumImage
  <1>2. {h[x] : x \in S} = S
    OBVIOUS
  <1> HIDE DEF h
  <1> QED
    BY <1>1, <1>2, Zenon

\* The sum of ones and zeros counts the ones.
LEMMA SumCounts ==
    ASSUME NEW f, NEW S, IsFiniteSet(S), \A x \in S : f[x] \in {0, 1}
    PROVE  SumFunctionOnSet(f, S) = Cardinality({x \in S : f[x] = 1})
  <1> DEFINE ones(T) == {x \in T : f[x] = 1}
             C == {T \in SUBSET S : SumFunctionOnSet(f, T) # Cardinality(ones(T))}
  <1> SUFFICES ASSUME C # {} PROVE FALSE
    OBVIOUS
  <1>1. PICK T \in C : \A U \in C : U \subseteq T => U = T
    <2>1. C \subseteq SUBSET S
      OBVIOUS
    <2> HIDE DEF C
    <2> QED
      BY <2>1, LeastSubset
  <1>2. T # {} /\ IsFiniteSet(T)
    <2>1. ones({}) = {}
      OBVIOUS
    <2>2. {} \notin C
      BY <2>1, SumEmpty, FS_EmptySet
    <2> QED
      BY <1>1, <2>2, FS_Subset
  <1>3. PICK e \in T : TRUE
    BY <1>2
  <1> DEFINE rest == T \ {e}
  <1>4. rest \notin C /\ rest \in SUBSET S /\ e \notin rest /\ IsFiniteSet(rest)
    BY <1>1, <1>2, <1>3, FS_RemoveElement
  <1>5. SumFunctionOnSet(f, rest) = Cardinality(ones(rest))
    BY <1>4
  <1>6. SumFunctionOnSet(f, T) = f[e] + SumFunctionOnSet(f, rest)
    <2>1. \A x \in T : f[x] \in Int
      BY <1>1
    <2> QED
      BY <1>2, <1>3, <2>1, SumRemove
  <1>7. IsFiniteSet(ones(rest)) /\ Cardinality(ones(rest)) \in Nat /\ e \notin ones(rest)
    <2>1. ones(rest) \in SUBSET rest
      OBVIOUS
    <2> QED
      BY <1>4, <2>1, FS_Subset, FS_CardinalityType
  <1>8. CASE f[e] = 1
    <2>1. ones(T) = ones(rest) \cup {e}
      BY <1>3, <1>8
    <2> HIDE DEF ones
    <2>2. Cardinality(ones(rest) \cup {e}) = Cardinality(ones(rest)) + 1
      BY <1>7, FS_AddElement
    <2>3. Cardinality(ones(T)) = Cardinality(ones(rest) \cup {e})
      BY <2>1, Zenon
    <2>4. SumFunctionOnSet(f, T) = Cardinality(ones(T))
      BY <1>5, <1>6, <1>7, <1>8, <2>2, <2>3
    <2> QED
      BY <1>1, <2>4
  <1>9. CASE f[e] = 0
    <2>1. ones(T) = ones(rest)
      BY <1>3, <1>9
    <2> HIDE DEF ones
    <2>2. SumFunctionOnSet(f, T) = Cardinality(ones(T))
      BY <1>5, <1>6, <1>7, <1>9, <2>1
    <2> QED
      BY <1>1, <2>2
  <1> QED
    BY <1>1, <1>3, <1>8, <1>9

Together(P, K) == UNION {P[k] : k \in K}

\* The sizes of disjoint sets add up to the size of all of them.
LEMMA SumDisjoint ==
    ASSUME NEW K, IsFiniteSet(K), NEW P, \A k \in K : IsFiniteSet(P[k]),
           \A j, k \in K : j # k => P[j] \cap P[k] = {},
           NEW f, \A k \in K : f[k] = Cardinality(P[k])
    PROVE  IsFiniteSet(Together(P, K)) /\ SumFunctionOnSet(f, K) = Cardinality(Together(P, K))
  <1> DEFINE C == {T \in SUBSET K : ~ (/\ IsFiniteSet(Together(P, T))
                                       /\ SumFunctionOnSet(f, T) = Cardinality(Together(P, T)))}
  <1> SUFFICES ASSUME C # {} PROVE FALSE
    OBVIOUS
  <1>1. PICK T \in C : \A U \in C : U \subseteq T => U = T
    <2>1. C \subseteq SUBSET K
      OBVIOUS
    <2> HIDE DEF C
    <2> QED
      BY <2>1, LeastSubset
  <1>2. T # {} /\ IsFiniteSet(T) /\ T \subseteq K
    <2>1. Together(P, {}) = {}
      BY DEF Together
    <2>2. {} \notin C
      BY <2>1, SumEmpty, FS_EmptySet
    <2> QED
      BY <1>1, <2>2, FS_Subset
  <1>3. PICK e \in T : TRUE
    BY <1>2
  <1> DEFINE rest == T \ {e}
             A == Together(P, rest)
  <1>4. rest \notin C /\ rest \in SUBSET K /\ e \notin rest /\ e \in K
    BY <1>1, <1>2, <1>3
  <1>5. IsFiniteSet(A) /\ SumFunctionOnSet(f, rest) = Cardinality(A)
    BY <1>4
  <1>6. SumFunctionOnSet(f, T) = f[e] + SumFunctionOnSet(f, rest)
    <2>1. \A x \in T : f[x] \in Int
      BY <1>2, FS_CardinalityType
    <2> QED
      BY <1>2, <1>3, <2>1, SumRemove
  <1>7. Together(P, T) = A \cup P[e] /\ A \cap P[e] = {}
    BY <1>2, <1>3 DEF Together
  <1>8. IsFiniteSet(A \cup P[e]) /\ Cardinality(A \cup P[e]) = Cardinality(A) + Cardinality(P[e])
    <2>1. IsFiniteSet(P[e])
      BY <1>4
    <2> HIDE DEF A
    <2>2. /\ IsFiniteSet(A \cup P[e])
          /\ Cardinality(A \cup P[e]) = Cardinality(A) + Cardinality(P[e]) - Cardinality(A \cap P[e])
      BY <1>5, <2>1, FS_Union
    <2>3. Cardinality(A \cap P[e]) = 0
      BY <1>7, FS_EmptySet
    <2>4. Cardinality(A) \in Nat /\ Cardinality(P[e]) \in Nat
      BY <1>5, <2>1, FS_CardinalityType
    <2> QED
      BY <2>2, <2>3, <2>4
  <1>9. Cardinality(A) \in Nat /\ Cardinality(P[e]) \in Nat /\ f[e] = Cardinality(P[e])
    BY <1>4, <1>5, FS_CardinalityType
  <1>10. SumFunctionOnSet(f, T) = Cardinality(A \cup P[e])
    <2> HIDE DEF A, rest
    <2> QED
      BY <1>5, <1>6, <1>8, <1>9
  <1>11. T \notin C
    <2> HIDE DEF A, rest
    <2> QED
      BY <1>7, <1>8, <1>10
  <1> QED
    BY <1>1, <1>11

LEMMA OneMore ==
    ASSUME NEW a \in Int, NEW b \in Int
    PROVE  a * (b + 1) = a + a * b /\ a * 0 = 0
  OBVIOUS

LEMMA SumConstant ==
    ASSUME NEW S, IsFiniteSet(S), NEW c \in Int, NEW f, \A x \in S : f[x] = c
    PROVE  SumFunctionOnSet(f, S) = c * Cardinality(S)
  <1> DEFINE C == {T \in SUBSET S : SumFunctionOnSet(f, T) # c * Cardinality(T)}
  <1> SUFFICES ASSUME C # {} PROVE FALSE
    OBVIOUS
  <1>1. PICK T \in C : \A U \in C : U \subseteq T => U = T
    <2>1. C \subseteq SUBSET S
      OBVIOUS
    <2> HIDE DEF C
    <2> QED
      BY <2>1, LeastSubset
  <1>2. T # {} /\ IsFiniteSet(T) /\ T \subseteq S
    <2>1. SumFunctionOnSet(f, {}) = 0 /\ Cardinality({}) = 0 /\ c * 0 = 0
      BY SumEmpty, FS_EmptySet, OneMore
    <2>2. {} \notin C
      BY <2>1
    <2> QED
      BY <1>1, <2>2, FS_Subset
  <1>3. PICK e \in T : TRUE
    BY <1>2
  <1> DEFINE rest == T \ {e}
             n == Cardinality(rest)
  <1>4. rest \notin C /\ rest \in SUBSET S /\ IsFiniteSet(rest)
    BY <1>1, <1>2, <1>3, FS_RemoveElement
  <1>5. SumFunctionOnSet(f, rest) = c * n /\ n \in Nat
    BY <1>4, FS_CardinalityType
  <1>6. SumFunctionOnSet(f, T) = f[e] + SumFunctionOnSet(f, rest)
    <2>1. \A x \in T : f[x] \in Int
      BY <1>2
    <2> QED
      BY <1>2, <1>3, <2>1, SumRemove
  <1>7. Cardinality(T) = n + 1
    <2>1. Cardinality(rest) = Cardinality(T) - 1 /\ Cardinality(T) \in Nat
      BY <1>2, <1>3, FS_RemoveElement, FS_CardinalityType
    <2> QED
      BY <2>1
  <1> HIDE DEF n, rest
  <1>8. c * (n + 1) = c + c * n
    BY <1>5, OneMore
  <1>9. f[e] = c
    BY <1>2, <1>3
  <1>10. SumFunctionOnSet(f, T) = c * Cardinality(T)
    BY <1>5, <1>6, <1>7, <1>8, <1>9
  <1> QED
    BY <1>1, <1>10

-----------------------------------------------------------------------------
(* The functions of numpy: prefix sums, sorting and searching.             *)

LEMMA CumsumFacts ==
    ASSUME NEW n \in Nat, NEW f \in [1 .. n -> Int]
    PROVE  /\ cumsum(f) \in [0 .. n -> Int] /\ cumsum(f)[0] = 0
           /\ \A k \in 1 .. n : cumsum(f)[k] = cumsum(f)[k - 1] + f[k]
  <1> DEFINE G == [k \in 1 .. n |-> [v \in Int |-> v + f[k]]]
             Eq(c) == c = [k \in 0 .. Len(f) |-> IF k = 0 THEN 0 ELSE c[k - 1] + f[k]]
  <1>1. Len(f) = n
    OBVIOUS
  <1>2. PICK g \in [0 .. n -> Int] : g[0] = 0 /\ \A k \in 1 .. n : g[k] = G[k][g[k - 1]]
    <2>1. \A v \in Int, k \in 1 .. n : G[k][v] \in Int
      OBVIOUS
    <2>2. n \in Nat /\ 0 \in Int
      OBVIOUS
    <2> HIDE DEF G
    <2>3. Leads(n, Int, 0, G)
      BY <2>1, <2>2 DEF Leads
    <2>4. PICK g : Follows(g, n, Int, 0, G)
      BY <2>3, Recursion
    <2> QED
      BY <2>4 DEF Follows
  <1>3. ASSUME NEW k \in 1 .. n PROVE g[k] = g[k - 1] + f[k]
    <2>1. k - 1 \in 0 .. n /\ f[k] \in Int
      OBVIOUS
    <2>2. g[k - 1] \in Int
      BY <2>1
    <2>3. G[k][g[k - 1]] = g[k - 1] + f[k]
      BY <2>1, <2>2
    <2> HIDE DEF G
    <2> QED
      BY <1>2, <2>3
  <1> HIDE DEF G
  <1>4. Eq(g)
    BY <1>1, <1>2, <1>3
  <1>5. cumsum(f) = CHOOSE c : Eq(c)
    BY DEF cumsum
  <1> DEFINE c == cumsum(f)
  <1>6. Eq(c)
    <2> HIDE DEF Eq
    <2> QED
      BY <1>4, <1>5
  <1> HIDE DEF c
  <1>7. DOMAIN c = 0 .. n /\ c[0] = 0 /\ \A k \in 1 .. n : c[k] = c[k - 1] + f[k]
    BY <1>1, <1>6
  <1> DEFINE T == {k \in 0 .. n : c[k] \in Int}
  <1>8. 0 .. n \subseteq T
    <2>1. 0 \in T
      BY <1>7
    <2>2. ASSUME NEW k \in 0 .. n - 1, k \in T PROVE k + 1 \in T
      <3>1. k + 1 \in 1 .. n /\ c[k + 1] = c[k] + f[k + 1]
        BY <1>7
      <3> QED
        BY <2>2, <3>1
    <2> HIDE DEF T
    <2> QED
      BY <2>1, <2>2, Upwards
  <1>9. c \in [0 .. n -> Int]
    <2>1. \A k \in 0 .. n : c[k] \in Int
      BY <1>8
    <2>2. c = [k \in DOMAIN c |-> c[k]]
      BY <1>6
    <2> QED
      BY <1>7, <2>1, <2>2
  <1> QED
    BY <1>7, <1>9 DEF c

\* The difference of two prefix sums is the sum of what lies between.
LEMMA CumsumSpan ==
    ASSUME NEW n \in Nat, NEW f \in [1 .. n -> Int], NEW k \in 0 .. n, NEW m \in 0 .. k
    PROVE  cumsum(f)[k] - cumsum(f)[m] = SumFunctionOnSet(f, m + 1 .. k)
  <1> DEFINE c == cumsum(f)
             T == {d \in 0 .. k - m : c[m + d] - c[m] = SumFunctionOnSet(f, m + 1 .. m + d)}
  <1>1. c \in [0 .. n -> Int] /\ \A j \in 1 .. n : c[j] = c[j - 1] + f[j]
    BY CumsumFacts
  <1> HIDE DEF c
  <1>2. 0 \in T
    <2>1. m + 1 .. m + 0 = {} /\ m + 0 = m /\ c[m] \in Int
      BY <1>1
    <2>2. SumFunctionOnSet(f, m + 1 .. m + 0) = 0
      BY <2>1, SumEmpty, Zenon
    <2> QED
      BY <2>1, <2>2
  <1>3. ASSUME NEW d \in 0 .. k - m - 1, d \in T PROVE d + 1 \in T
    <2> DEFINE S == m + 1 .. m + d
               e == m + d + 1
    <2>a. m \in Int /\ d \in Int /\ m + 1 \in Int /\ m + d \in Int /\ k \in Int
      OBVIOUS
    <2>b. IsFiniteSet(S)
      BY <2>a, FS_Interval
    <2>1. IsFiniteSet(S) /\ e \notin S /\ m + 1 .. m + (d + 1) = S \cup {e} /\ e \in 1 .. n
      BY <2>a, <2>b
    <2>2. \A x \in S \cup {e} : f[x] \in Int
      OBVIOUS
    <2>3. c[m + d] - c[m] = SumFunctionOnSet(f, S)
      BY <1>3
    <2> HIDE DEF S
    <2>4. SumFunctionOnSet(f, S \cup {e}) = SumFunctionOnSet(f, S) + f[e]
      BY <2>1, <2>2, SumAdd
    <2>5. SumFunctionOnSet(f, m + 1 .. m + (d + 1)) = SumFunctionOnSet(f, S \cup {e})
      BY <2>1, Zenon
    <2>6. c[m + (d + 1)] = c[m + d] + f[e] /\ c[m] \in Int /\ c[m + d] \in Int /\ f[e] \in Int
      BY <1>1, <2>1
    <2>7. c[m + (d + 1)] - c[m] = SumFunctionOnSet(f, m + 1 .. m + (d + 1))
      BY <2>3, <2>4, <2>5, <2>6
    <2> QED
      BY <2>7
  <1> HIDE DEF T
  <1>4. 0 .. k - m \subseteq T
    <2>1. k - m \in Nat
      OBVIOUS
    <2> QED
      BY <1>2, <1>3, <2>1, Upwards
  <1>5. k - m \in T /\ m + (k - m) = k
    BY <1>4
  <1> QED
    BY <1>5 DEF T, c

\* argsort is the stable sorting permutation.
LEMMA ArgsortFacts ==
    ASSUME NEW n \in Nat, NEW t \in [1 .. n -> Int]
    PROVE  /\ argsort(t) \in Bijection(1 .. n, 1 .. n)
           /\ \A j, k \in 1 .. n : j < k => t[argsort(t)[j]] <= t[argsort(t)[k]]
  <1> DEFINE before(i) == {j \in 1 .. n : t[j] < t[i] \/ (t[j] = t[i] /\ j < i)}
  <1>1. PICK p \in Bijection(1 .. n, 1 .. n) :
           \A j, k \in 1 .. n : j < k => t[p[j]] < t[p[k]] \/ (t[p[j]] = t[p[k]] /\ p[j] < p[k])
    BY Sorting
  <1>2. /\ p \in [1 .. n -> 1 .. n] /\ \A j, k \in 1 .. n : p[j] = p[k] => j = k
        /\ \A i \in 1 .. n : \E k \in 1 .. n : p[k] = i
    BY <1>1 DEF Bijection, Injection, Surjection, IsInjective
  <1>3. ASSUME NEW k \in 1 .. n PROVE Cardinality(before(p[k])) = k - 1
    <2>1. before(p[k]) = {p[j] : j \in 1 .. k - 1}
      <3>1. ASSUME NEW j \in 1 .. n PROVE p[j] \in before(p[k]) <=> j < k
        <4>1. t[p[j]] \in Int /\ t[p[k]] \in Int /\ p[j] \in Int /\ p[k] \in Int
          <5>1. p[j] \in 1 .. n /\ p[k] \in 1 .. n
            BY <1>2
          <5> QED
            BY <5>1
        <4>2. CASE j < k
          BY <1>1, <1>2, <4>2
        <4>3. CASE j = k
          BY <4>1, <4>3
        <4>4. CASE k < j
          <5>1. t[p[k]] < t[p[j]] \/ (t[p[k]] = t[p[j]] /\ p[k] < p[j])
            BY <1>1, <4>4
          <5> QED
            BY <4>1, <4>4, <5>1
        <4> QED
          BY <4>2, <4>3, <4>4
      <3>2. before(p[k]) \subseteq 1 .. n
        OBVIOUS
      <3> HIDE DEF before
      <3>3. ASSUME NEW i \in before(p[k]) PROVE i \in {p[j] : j \in 1 .. k - 1}
        <4>1. PICK j \in 1 .. n : p[j] = i
          BY <1>2, <3>2, <3>3
        <4>2. j < k
          BY <3>1, <3>3, <4>1
        <4> QED
          BY <4>1, <4>2
      <3>4. ASSUME NEW j \in 1 .. k - 1 PROVE p[j] \in before(p[k])
        BY <3>1
      <3> QED
        BY <3>3, <3>4
    <2>2. IsFiniteSet(1 .. k - 1) /\ Cardinality(1 .. k - 1) = k - 1
      BY FS_Interval
    <2> DEFINE S == 1 .. k - 1
    <2>3. \A x, y \in S : p[x] = p[y] => x = y
      <3>1. \A x \in S : x \in 1 .. n
        OBVIOUS
      <3> QED
        BY <1>2, <3>1
    <2>4. Cardinality({p[j] : j \in S}) = k - 1
      <3>1. IsFiniteSet(S) /\ Cardinality(S) = k - 1
        BY <2>2
      <3> HIDE DEF S
      <3>2. Cardinality({p[j] : j \in S}) = Cardinality(S)
        BY <2>3, <3>1, ImageFinite
      <3> QED
        BY <3>1, <3>2
    <2> HIDE DEF before
    <2> QED
      BY <2>1, <2>4, Zenon
  <1>4. ASSUME NEW k \in 1 .. n
        PROVE  (CHOOSE i \in 1 .. n : Cardinality(before(i)) = k - 1) = p[k]
    <2> HIDE DEF before
    <2>1. ASSUME NEW i \in 1 .. n, Cardinality(before(i)) = k - 1 PROVE i = p[k]
      <3>1. PICK j \in 1 .. n : p[j] = i
        BY <1>2
      <3>2. Cardinality(before(i)) = j - 1
        BY <1>3, <3>1
      <3>3. j = k
        BY <2>1, <3>2
      <3> QED
        BY <3>1, <3>3
    <2>2. p[k] \in 1 .. n /\ Cardinality(before(p[k])) = k - 1
      BY <1>2, <1>3
    <2> QED
      BY <2>1, <2>2
  <1>5. DOMAIN t = 1 .. n
    OBVIOUS
  <1>6. argsort(t) = [k \in 1 .. n |-> CHOOSE i \in 1 .. n : Cardinality(before(i)) = k - 1]
    BY <1>5 DEF argsort
  <1> HIDE DEF before
  <1>7. argsort(t) = [k \in 1 .. n |-> p[k]]
    BY <1>4, <1>6
  <1>8. argsort(t) = p
    BY <1>2, <1>7
  <1>9. ASSUME NEW j \in 1 .. n, NEW k \in 1 .. n, j < k PROVE t[p[j]] <= t[p[k]]
    <2>1. t[p[j]] < t[p[k]] \/ t[p[j]] = t[p[k]]
      BY <1>1, <1>9
    <2>2. p[j] \in 1 .. n /\ p[k] \in 1 .. n
      BY <1>2
    <2>3. t[p[j]] \in Int /\ t[p[k]] \in Int
      BY <2>2
    <2> QED
      BY <2>1, <2>3
  <1> QED
    BY <1>1, <1>8, <1>9

\* In an ascending row of numbers those below x come first.
LEMMA SearchsortedFacts ==
    ASSUME NEW n \in Nat, NEW t \in [1 .. n -> Int], NEW x \in Int,
           \A j, k \in 1 .. n : j < k => t[j] <= t[k]
    PROVE  /\ searchsorted(t, x) \in 0 .. n
           /\ \A j \in 1 .. n : t[j] < x <=> j <= searchsorted(t, x)
  <1> DEFINE C == {j \in 1 .. n + 1 : j = n + 1 \/ ~(t[j] < x)}
  <1>1. PICK c \in C : \A j \in C : c <= j
    <2>1. C \subseteq Nat /\ n + 1 \in C
      OBVIOUS
    <2> HIDE DEF C
    <2> QED
      BY <2>1, Minimum
  <1>2. c \in 1 .. n + 1
    BY <1>1
  <1>3. ASSUME NEW j \in 1 .. n PROVE t[j] < x <=> j <= c - 1
    <2>1. CASE j < c
      BY <1>1, <1>2, <2>1
    <2>2. CASE c <= j
      <3>1. c \in 1 .. n /\ ~(t[c] < x) /\ t[c] <= t[j]
        BY <1>1, <1>2, <2>2
      <3> QED
        BY <1>2, <2>2, <3>1
    <2> QED
      BY <1>2, <2>1, <2>2
  <1>4. {j \in DOMAIN t : t[j] < x} = 1 .. c - 1
    BY <1>2, <1>3
  <1>5. Cardinality(1 .. c - 1) = c - 1
    BY <1>2, FS_Interval
  <1>6. searchsorted(t, x) = c - 1
    BY <1>4, <1>5, Zenon DEF searchsorted
  <1> QED
    BY <1>2, <1>3, <1>6
=============================================================================
