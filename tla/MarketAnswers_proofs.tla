-------------------------- MODULE MarketAnswers_proofs --------------------------
(***************************************************************************)
(* Proofs about what the market pages of the API answer from what is stored *)
(* (Markets): a history's page shows the newest points of its windows, and  *)
(* a row of the items across markets says what its comparison, its listings *)
(* and its merged history say of the same item. The last parts say the same *)
(* of the rows of the legacy backend.                                       *)
(*                                                                         *)
(* The queries sum, sort, page and pick the least, so the first part is     *)
(* about finite sets: induction over one, sums over one, and one in order.  *)
(***************************************************************************)
EXTENDS Markets_proofs, Sequences, FiniteSetTheorems, WellFoundedInduction

(***************************************************************************)
(* Induction over a finite set: what holds of nothing and is kept by one    *)
(* more element holds of the set. The property is the set of the subsets    *)
(* that have it.                                                            *)
(***************************************************************************)
LEMMA FiniteInduction ==
  ASSUME NEW S, IsFiniteSet(S), NEW P, {} \in P,
         \A T \in SUBSET S : T \in P => \A x \in S \ T : T \cup {x} \in P
  PROVE  S \in P
<1> DEFINE bad == (SUBSET S) \ P
           R == StrictSubsetOrdering(S)
           F == FiniteSubsetsOf(S)
<1>1. SUFFICES ASSUME S \notin P
               PROVE  FALSE
  OBVIOUS
<1>2. bad \subseteq F /\ bad # {}
  BY <1>1, FS_Subset DEF FiniteSubsetsOf
<1>3. IsWellFoundedOn(R, F)
  BY FS_StrictSubsetOrderingWellFounded
<1>4. PICK T \in bad : \A U \in bad : <<U, T>> \notin R
  <2> HIDE DEF bad, R, F
  <2> QED
    BY <1>2, <1>3, WFMin
<1>5. PICK x : x \in T
  BY <1>4
<1>6. T \ {x} \in SUBSET S /\ x \in S \ (T \ {x}) /\ T = (T \ {x}) \cup {x}
  BY <1>4, <1>5
<1>7. <<T \ {x}, T>> \in R
  <2>1. T \ {x} \in SUBSET S /\ T \in SUBSET S /\ T \ {x} \subseteq T /\ T \ {x} # T
    BY <1>5, <1>6
  <2> QED
    BY <2>1 DEF StrictSubsetOrdering
<1>8. T \ {x} \in P
  BY <1>4, <1>6, <1>7
<1> QED
  BY <1>4, <1>6, <1>8

(***************************************************************************)
(* A finite set of numbers has a largest and a smallest.                    *)
(***************************************************************************)
LEMMA HasExtremes ==
  ASSUME NEW S, S \subseteq Int, IsFiniteSet(S), S # {}
  PROVE  (\E x \in S : \A y \in S : y <= x) /\ (\E x \in S : \A y \in S : x <= y)
<1> DEFINE Q(T) == T # {} => /\ \E x \in T : \A y \in T : y <= x
                             /\ \E x \in T : \A y \in T : x <= y
           P == {T \in SUBSET S : Q(T)}
<1>1. {} \in P
  OBVIOUS
<1>2. ASSUME NEW T \in SUBSET S, T \in P, NEW z \in S \ T
      PROVE  T \cup {z} \in P
  <2>1. CASE T = {}
    BY <2>1
  <2>2. CASE T # {}
    <3>1. PICK a \in T : \A y \in T : y <= a
      BY <1>2, <2>2
    <3>2. PICK b \in T : \A y \in T : b <= y
      BY <1>2, <2>2
    <3>3. \E x \in T \cup {z} : \A y \in T \cup {z} : y <= x
      <4>1. CASE z <= a
        BY <3>1, <4>1
      <4>2. CASE a <= z
        BY <3>1, <4>2
      <4> QED
        BY <4>1, <4>2
    <3>4. \E x \in T \cup {z} : \A y \in T \cup {z} : x <= y
      <4>1. CASE b <= z
        BY <3>2, <4>1
      <4>2. CASE z <= b
        BY <3>2, <4>2
      <4> QED
        BY <4>1, <4>2
    <3> QED
      BY <3>3, <3>4
  <2> QED
    BY <2>1, <2>2
<1>3. S \in P
  <2> HIDE DEF P
  <2> QED
    BY <1>1, <1>2, FiniteInduction
<1> QED
  BY <1>3

(***************************************************************************)
(* The image of a finite set is finite and not larger.                      *)
(***************************************************************************)
LEMMA ImageSize ==
  ASSUME NEW f, NEW S, IsFiniteSet(S)
  PROVE  /\ IsFiniteSet({f[x] : x \in S}) /\ Cardinality({f[x] : x \in S}) <= Cardinality(S)
         /\ (\A x, y \in S : f[x] = f[y] => x = y)
              => Cardinality({f[x] : x \in S}) = Cardinality(S)
<1> DEFINE T == {f[x] : x \in S}
           h == [x \in S |-> f[x]]
<1>1. h \in Surjection(S, T)
  BY DEF Surjection
<1>2. (\A x, y \in S : f[x] = f[y] => x = y) => h \in Injection(S, T)
  BY DEF Injection, IsInjective
<1> HIDE DEF h, T
<1>3. IsFiniteSet(T) /\ Cardinality(T) <= Cardinality(S)
       /\ (Cardinality(T) = Cardinality(S) <=> h \in Injection(S, T))
  BY <1>1, FS_Surjection
<1> QED
  BY <1>2, <1>3 DEF T

(***************************************************************************)
(* A smallest natural number of a set of them.                              *)
(***************************************************************************)
LEMMA HasLeast ==
  ASSUME NEW S, S \subseteq Nat, S # {}
  PROVE  \E x \in S : \A y \in S : x <= y
<1>1. PICK k \in S : TRUE
  OBVIOUS
<1> DEFINE L == {x \in S : x <= k}
<1>2. IsFiniteSet(L) /\ L \subseteq Int /\ L # {}
  <2>1. k \in Nat /\ k <= k
    OBVIOUS
  <2>2. L \subseteq Nat /\ (\A x \in L : x <= k) /\ k \in Nat /\ k \in L
    BY <2>1
  <2> HIDE DEF L
  <2> QED
    BY <2>2, FS_BoundedSetOfNaturals
<1>3. PICK x \in L : \A y \in L : x <= y
  <2> HIDE DEF L
  <2> QED
    BY <1>2, HasExtremes
<1>4. ASSUME NEW y \in S
      PROVE  x <= y
  BY <1>3
<1> QED
  BY <1>4

(***************************************************************************)
(* Induction over the numbers up to n, for a set of numbers.                *)
(***************************************************************************)
LEMMA UpTo ==
  ASSUME NEW n \in Nat, NEW P, 0 \in P, \A i \in 1..n : i - 1 \in P => i \in P
  PROVE  0..n \subseteq P
<1> DEFINE bad == 0..n \ P
<1>1. SUFFICES ASSUME bad # {}
               PROVE  FALSE
  OBVIOUS
<1>2. PICK m \in bad : \A i \in bad : m <= i
  <2>1. bad \subseteq Nat
    OBVIOUS
  <2> HIDE DEF bad
  <2> QED
    BY <1>1, <2>1, HasLeast
<1>3. m \in 1..n /\ m - 1 \in 0..n /\ ~(m <= m - 1)
  BY <1>2
<1> QED
  BY <1>2, <1>3

\* A function made by recursion over the numbers up to n.
Iterated(n, X, base, step, h) ==
  h \in [0..n -> X] /\ h[0] = base /\ \A i \in 1..n : h[i] = step[h[i - 1]]

(***************************************************************************)
(* A recursion over the numbers up to n defines a function.                 *)
(***************************************************************************)
LEMMA Recursion ==
  ASSUME NEW n \in Nat, NEW X, NEW base \in X, NEW step \in [X -> X]
  PROVE  \E h : Iterated(n, X, base, step, h)
<1> DEFINE Q(m, h) ==
             /\ h \in [0..m -> X]
             /\ \A i \in 0..m : h[i] = IF i = 0 THEN base ELSE step[h[i - 1]]
           P == {m \in 0..n : \E h : Q(m, h)}
<1>1. 0 \in P
  <2>1. Q(0, [i \in 0..0 |-> base])
    OBVIOUS
  <2> HIDE DEF Q
  <2> QED
    BY <2>1
<1>2. ASSUME NEW m \in 1..n, m - 1 \in P
      PROVE  m \in P
  <2>1. PICK h : Q(m - 1, h)
    BY <1>2
  <2> DEFINE all == [i \in 0..m |-> IF i = m THEN step[h[m - 1]] ELSE h[i]]
  <2>2. m - 1 \in 0..(m - 1) /\ h[m - 1] \in X
    BY <2>1
  <2>3. \A i \in 0..m : i # m => i \in 0..(m - 1) /\ h[i] \in X
    BY <2>1
  <2>4. all \in [0..m -> X]
    BY <2>2, <2>3
  <2>5. ASSUME NEW i \in 0..m
        PROVE  all[i] = IF i = 0 THEN base ELSE step[all[i - 1]]
    <3>1. i # 0 => i - 1 \in 0..m /\ i - 1 # m
      OBVIOUS
    <3>2. i # m => h[i] = IF i = 0 THEN base ELSE step[h[i - 1]]
      BY <2>1, <2>3
    <3> QED
      BY <3>1, <3>2
  <2>6. Q(m, all)
    BY <2>4, <2>5
  <2> HIDE DEF Q, all
  <2> QED
    BY <2>6
<1>3. n \in P
  <2>1. n \in 0..n
    OBVIOUS
  <2> HIDE DEF P
  <2> QED
    BY <1>1, <1>2, <2>1, UpTo
<1>4. PICK h : Q(n, h)
  BY <1>3
<1>5. Iterated(n, X, base, step, h)
  BY <1>4 DEF Iterated
<1> QED
  BY <1>5

--------------------------------------------------------------------------------

\* The element SumFunction's fold takes first.
Some(s) == CHOOSE x \in s : TRUE

\* The partial sums over all subsets of a set, as SumFunction makes them.
Adding(f, D, it) ==
  /\ it \in [SUBSET D -> Int] /\ it[{}] = 0
  /\ \A s \in SUBSET D : s # {} => it[s] = f[Some(s)] + it[s \ {Some(s)}]

\* It is one of the set's.
LEMMA SomeIn ==
  ASSUME NEW s, s # {}
  PROVE  Some(s) \in s
BY DEF Some

\* There are such sums: made of the smaller subsets, size by size.
LEMMA AddingExists ==
  ASSUME NEW D, IsFiniteSet(D), NEW f \in [D -> Int]
  PROVE  \E it : Adding(f, D, it)
<1> DEFINE X == [SUBSET D -> Int]
           next(h) == [s \in SUBSET D |-> IF s = {} THEN 0 ELSE f[Some(s)] + h[s \ {Some(s)}]]
           step == [h \in X |-> next(h)]
           zero == [s \in SUBSET D |-> 0]
           n == Cardinality(D)
<1>1. n \in Nat /\ n + 1 \in Nat
  BY FS_CardinalityType
<1>2. ASSUME NEW s \in SUBSET D, s # {}
      PROVE  /\ Some(s) \in D /\ s \ {Some(s)} \in SUBSET D /\ f[Some(s)] \in Int
             /\ IsFiniteSet(s) /\ Cardinality(s) \in Nat
             /\ Cardinality(s \ {Some(s)}) = Cardinality(s) - 1
  <2>1. Some(s) \in s
    BY <1>2, SomeIn
  <2>2. IsFiniteSet(s) /\ Cardinality(s) \in Nat
    BY FS_Subset, FS_CardinalityType
  <2>3. Cardinality(s \ {Some(s)}) = Cardinality(s) - 1
    BY <2>1, <2>2, FS_RemoveElement
  <2> QED
    BY <2>1, <2>2, <2>3
<1>3. zero \in X
  OBVIOUS
<1>4. step \in [X -> X]
  <2>1. ASSUME NEW h \in X
        PROVE  next(h) \in X
    <3>1. ASSUME NEW s \in SUBSET D, s # {}
          PROVE  f[Some(s)] + h[s \ {Some(s)}] \in Int
      <4>1. f[Some(s)] \in Int /\ s \ {Some(s)} \in SUBSET D
        BY <1>2, <3>1
      <4>2. h[s \ {Some(s)}] \in Int
        BY <4>1
      <4> QED
        BY <4>1, <4>2
    <3> QED
      BY <3>1
  <2> HIDE DEF next, X
  <2> QED
    BY <2>1
<1>5. PICK h : Iterated(n + 1, X, zero, step, h)
  <2> HIDE DEF X, step, zero, n
  <2> QED
    BY <1>1, <1>3, <1>4, Recursion
<1>6. /\ h[0] = zero /\ \A i \in 0..(n + 1) : h[i] \in X
      /\ \A i \in 0..n : h[i + 1] = step[h[i]]
  <2> HIDE DEF X, step, zero, n
  <2>1. \A i \in 0..n : i + 1 \in 1..(n + 1) /\ (i + 1) - 1 = i
    BY <1>1
  <2>2. h \in [0..(n + 1) -> X] /\ h[0] = zero /\ \A i \in 1..(n + 1) : h[i] = step[h[i - 1]]
    BY <1>5 DEF Iterated
  <2> QED
    BY <2>1, <2>2
<1>7. ASSUME NEW i \in 0..n, NEW s \in SUBSET D
      PROVE  /\ h[i] \in X /\ h[i][s] \in Int
             /\ h[i + 1][s] = IF s = {} THEN 0 ELSE f[Some(s)] + h[i][s \ {Some(s)}]
  <2>1. h[i] \in X
    <3>1. i \in 0..(n + 1)
      BY <1>1
    <3> HIDE DEF X
    <3> QED
      BY <1>6, <3>1
  <2>2. step[h[i]] = next(h[i])
    <3> HIDE DEF X, next
    <3> QED
      BY <2>1
  <2>3. h[i + 1] = next(h[i])
    <3> HIDE DEF next, step
    <3> QED
      BY <1>6, <2>2
  <2> HIDE DEF step
  <2> QED
    BY <2>1, <2>3
<1> DEFINE Settled(i) == \A s \in SUBSET D : Cardinality(s) <= i => h[i + 1][s] = h[i][s]
           P == {i \in 0..n : Settled(i)}
<1> HIDE DEF X, step
<1>8. 0 \in P
  <2>1. ASSUME NEW s \in SUBSET D, Cardinality(s) <= 0
        PROVE  s = {}
    <3>1. IsFiniteSet(s) /\ Cardinality(s) \in Nat
      BY FS_Subset, FS_CardinalityType
    <3> QED
      BY <2>1, <3>1, FS_EmptySet
  <2>2. 0 \in 0..n /\ {} \in SUBSET D
    BY <1>1
  <2>3. h[0 + 1][{}] = 0
    BY <1>7, <2>2
  <2>4. h[0][{}] = 0
    BY <1>6
  <2>5. Settled(0)
    BY <2>1, <2>3, <2>4
  <2> QED
    BY <2>2, <2>5
<1>9. ASSUME NEW i \in 1..n, i - 1 \in P
      PROVE  i \in P
  <2> HIDE DEF n
  <2>1. i \in 0..n /\ i - 1 \in 0..n /\ (i - 1) + 1 = i
    BY <1>1
  <2>2. ASSUME NEW s \in SUBSET D, Cardinality(s) <= i
        PROVE  h[i + 1][s] = h[i][s]
    <3>1. /\ h[i + 1][s] = IF s = {} THEN 0 ELSE f[Some(s)] + h[i][s \ {Some(s)}]
          /\ h[i][s] = IF s = {} THEN 0 ELSE f[Some(s)] + h[i - 1][s \ {Some(s)}]
      BY <1>7, <2>1
    <3>2. CASE s = {}
      BY <3>1, <3>2
    <3>3. CASE s # {}
      <4>1. s \ {Some(s)} \in SUBSET D /\ Cardinality(s \ {Some(s)}) <= i - 1
        BY <1>2, <2>2, <3>3
      <4>2. Settled(i - 1)
        BY <1>9
      <4>3. h[i][s \ {Some(s)}] = h[i - 1][s \ {Some(s)}]
        BY <2>1, <4>1, <4>2
      <4> QED
        BY <3>1, <3>3, <4>3
    <3> QED
      BY <3>2, <3>3
  <2> QED
    BY <2>1, <2>2
<1>10. n \in P
  <2>1. n \in 0..n
    BY <1>1
  <2> HIDE DEF P, n
  <2> QED
    BY <1>1, <1>8, <1>9, <2>1, UpTo
<1>11. Adding(f, D, h[n])
  <2>1. n \in 0..n
    BY <1>1
  <2>2. h[n] \in [SUBSET D -> Int]
    BY <1>7, <2>1 DEF X
  <2>3. ASSUME NEW s \in SUBSET D
        PROVE  h[n][s] = IF s = {} THEN 0 ELSE f[Some(s)] + h[n][s \ {Some(s)}]
    <3>1. Cardinality(s) <= n
      BY FS_Subset
    <3>2. h[n + 1][s] = h[n][s]
      BY <1>10, <3>1
    <3> HIDE DEF n
    <3> QED
      BY <1>7, <2>1, <3>2
  <2> HIDE DEF n
  <2> QED
    BY <2>2, <2>3 DEF Adding
<1> QED
  BY <1>11

\* Induction by the smaller subsets.
LEMMA SubsetInduction ==
  ASSUME NEW S, IsFiniteSet(S), NEW P,
         \A T \in SUBSET S : (\A U \in SUBSET T : U # T => U \in P) => T \in P
  PROVE  \A T \in SUBSET S : T \in P
<1> DEFINE bad == (SUBSET S) \ P
           R == StrictSubsetOrdering(S)
           F == FiniteSubsetsOf(S)
<1>1. SUFFICES ASSUME bad # {}
               PROVE  FALSE
  OBVIOUS
<1>2. bad \subseteq F
  BY FS_Subset DEF FiniteSubsetsOf
<1>3. IsWellFoundedOn(R, F)
  BY FS_StrictSubsetOrderingWellFounded
<1>4. PICK T \in bad : \A U \in bad : <<U, T>> \notin R
  <2> HIDE DEF bad, R, F
  <2> QED
    BY <1>1, <1>2, <1>3, WFMin
<1>5. ASSUME NEW U \in SUBSET T, U # T
      PROVE  U \in P
  <2>1. U \in SUBSET S /\ T \in SUBSET S
    BY <1>4
  <2>2. <<U, T>> \in R
    BY <1>5, <2>1 DEF StrictSubsetOrdering
  <2> QED
    BY <1>4, <2>1, <2>2
<1> QED
  BY <1>4, <1>5

\* SumFunction's own recursion.
Folded(g, T) ==
  CHOOSE it : it = [s \in SUBSET T |-> IF s = {} THEN 0 ELSE g[Some(s)] + it[s \ {Some(s)}]]

\* SumFunction is that recursion, at the whole domain.
LEMMA SumFolds ==
  ASSUME NEW g
  PROVE  SumFunction(g) = Folded(g, DOMAIN g)[DOMAIN g]
BY DEF SumFunction, SumFunctionOnSet, FoldFunctionOnSet, MapThenFoldSet, Folded, Some

\* A sum is the partial sum of the part it is over.
LEMMA SumIs ==
  ASSUME NEW D, IsFiniteSet(D), NEW f \in [D -> Int], NEW it, Adding(f, D, it),
         NEW T \in SUBSET D, NEW g, DOMAIN g = T, \A x \in T : g[x] = f[x]
  PROVE  SumFunction(g) = it[T]
<1> DEFINE body(h) == [s \in SUBSET T |-> IF s = {} THEN 0 ELSE g[Some(s)] + h[s \ {Some(s)}]]
           r == [s \in SUBSET T |-> it[s]]
<1>1. ASSUME NEW s \in SUBSET T, s # {}
      PROVE  Some(s) \in T /\ s \ {Some(s)} \in SUBSET T /\ s \ {Some(s)} # s
             /\ g[Some(s)] = f[Some(s)] /\ s \in SUBSET D
  <2>1. Some(s) \in s
    BY <1>1, SomeIn
  <2> QED
    BY <2>1
<1>2. r = body(r)
  <2>1. ASSUME NEW s \in SUBSET T
        PROVE  it[s] = IF s = {} THEN 0 ELSE g[Some(s)] + r[s \ {Some(s)}]
    <3>1. CASE s = {}
      BY <3>1 DEF Adding
    <3>2. CASE s # {}
      <4>1. r[s \ {Some(s)}] = it[s \ {Some(s)}]
        BY <1>1, <3>2
      <4>2. it[s] = f[Some(s)] + it[s \ {Some(s)}]
        BY <1>1, <3>2 DEF Adding
      <4> HIDE DEF r
      <4> QED
        BY <1>1, <3>2, <4>1, <4>2
    <3> QED
      BY <3>1, <3>2
  <2>2. \A s \in SUBSET T : r[s] = it[s]
    OBVIOUS
  <2>3. r = [s \in SUBSET T |-> r[s]]
    OBVIOUS
  <2> HIDE DEF r
  <2> QED
    BY <2>1, <2>2, <2>3, Zenon
<1> DEFINE h == Folded(g, T)
<1>3. h = body(h)
  BY <1>2, Zenon DEF Folded
<1> DEFINE P == {s \in SUBSET T : h[s] = it[s]}
<1>4. ASSUME NEW s \in SUBSET T, \A u \in SUBSET s : u # s => u \in P
      PROVE  s \in P
  <2>1. h[s] = IF s = {} THEN 0 ELSE g[Some(s)] + h[s \ {Some(s)}]
    <3> HIDE DEF h
    <3> QED
      BY <1>3
  <2>2. CASE s = {}
    BY <2>1, <2>2 DEF Adding
  <2>3. CASE s # {}
    <3>1. s \ {Some(s)} \in P
      BY <1>1, <1>4, <2>3
    <3>2. h[s \ {Some(s)}] = it[s \ {Some(s)}]
      BY <3>1
    <3>3. it[s] = f[Some(s)] + it[s \ {Some(s)}]
      BY <1>1, <2>3 DEF Adding
    <3> HIDE DEF h
    <3>4. h[s] = it[s]
      BY <1>1, <2>1, <2>3, <3>2, <3>3
    <3> QED
      BY <3>4
  <2> QED
    BY <2>2, <2>3
<1>5. T \in P
  <2>1. IsFiniteSet(T)
    BY FS_Subset
  <2> HIDE DEF P
  <2>2. \A s \in SUBSET T : (\A u \in SUBSET s : u # s => u \in P) => s \in P
    BY <1>4
  <2>3. T \in P
    BY <2>1, <2>2, SubsetInduction
  <2> QED
    BY <2>3
<1> QED
  BY <1>5, SumFolds

\* Any element may be taken last.
LEMMA AddingAny ==
  ASSUME NEW D, IsFiniteSet(D), NEW f \in [D -> Int], NEW it, Adding(f, D, it),
         NEW s \in SUBSET D, NEW x \in s
  PROVE  it[s] = it[s \ {x}] + f[x]
<1> DEFINE Splits(t) == \A y \in t : it[t] = it[t \ {y}] + f[y]
           P == {t \in SUBSET D : Splits(t)}
<1>1. ASSUME NEW t \in SUBSET D, \A u \in SUBSET t : u # t => u \in P, NEW y \in t
      PROVE  it[t] = it[t \ {y}] + f[y]
  <2>1. PICK c \in t : c = Some(t)
    BY SomeIn
  <2>2. it[t] = f[c] + it[t \ {c}]
    BY <2>1 DEF Adding
  <2>3. /\ f[c] \in Int /\ f[y] \in Int
        /\ it[t \ {c}] \in Int /\ it[t \ {y}] \in Int /\ it[(t \ {c}) \ {y}] \in Int
    BY DEF Adding
  <2>4. CASE y = c
    BY <2>2, <2>3, <2>4
  <2>5. CASE y # c
    <3>1. t \ {c} \in P /\ y \in t \ {c}
      BY <1>1, <2>5
    <3>2. t \ {y} \in P /\ c \in t \ {y}
      BY <1>1, <2>5
    <3>3. it[t \ {c}] = it[(t \ {c}) \ {y}] + f[y]
      BY <3>1
    <3>4. (t \ {y}) \ {c} = (t \ {c}) \ {y}
      OBVIOUS
    <3>5. it[t \ {y}] = it[(t \ {c}) \ {y}] + f[c]
      BY <3>2, <3>4
    <3>6. PICK a \in Int : a = it[(t \ {c}) \ {y}]
      BY <2>3
    <3>7. it[t] = f[c] + (a + f[y]) /\ it[t \ {y}] = a + f[c]
      BY <2>2, <3>3, <3>5, <3>6
    <3> QED
      BY <2>3, <3>6, <3>7
  <2> QED
    BY <2>4, <2>5
<1>2. ASSUME NEW t \in SUBSET D, \A u \in SUBSET t : u # t => u \in P
      PROVE  t \in P
  <2>1. Splits(t)
    BY <1>1, <1>2
  <2> QED
    BY <2>1
<1> HIDE DEF P
<1>3. s \in P
  BY <1>2, SubsetInduction
<1> QED
  BY <1>3 DEF P

(***************************************************************************)
(* A sum is a number: nothing for nothing, and with any entry taken out the *)
(* rest and that entry.                                                     *)
(***************************************************************************)
LEMMA SumSplits ==
  ASSUME NEW D, IsFiniteSet(D), NEW g \in [D -> Int]
  PROVE  /\ SumFunction(g) \in Int
         /\ D = {} => SumFunction(g) = 0
         /\ \A x \in D : SumFunction(g) = SumFunction([y \in D \ {x} |-> g[y]]) + g[x]
<1>1. PICK it : Adding(g, D, it)
  BY AddingExists
<1>2. SumFunction(g) = it[D] /\ it[D] \in Int
  <2>1. D \in SUBSET D /\ DOMAIN g = D /\ \A x \in D : g[x] = g[x]
    OBVIOUS
  <2>2. SumFunction(g) = it[D]
    BY <1>1, <2>1, SumIs
  <2> QED
    BY <1>1, <2>2 DEF Adding
<1>3. D = {} => it[D] = 0
  BY <1>1 DEF Adding
<1>4. ASSUME NEW x \in D
      PROVE  SumFunction(g) = SumFunction([y \in D \ {x} |-> g[y]]) + g[x]
  <2>1. PICK r : r = [y \in D \ {x} |-> g[y]]
    OBVIOUS
  <2>2. DOMAIN r = D \ {x} /\ D \ {x} \in SUBSET D /\ \A y \in D \ {x} : r[y] = g[y]
    BY <2>1
  <2>3. SumFunction(r) = it[D \ {x}]
    BY <1>1, <2>2, SumIs
  <2>4. it[D] = it[D \ {x}] + g[x]
    BY <1>1, AddingAny
  <2> QED
    BY <1>2, <2>1, <2>3, <2>4
<1> QED
  BY <1>2, <1>3, <1>4

(***************************************************************************)
(* Things counted by kind: the kinds' numbers add up to that of the things. *)
(***************************************************************************)
LEMMA SumOfCounts ==
  ASSUME NEW Q, IsFiniteSet(Q), NEW K, IsFiniteSet(K), NEW kind, \A q \in Q : kind[q] \in K,
         NEW n, n = [k \in K |-> Cardinality({q \in Q : kind[q] = k})]
  PROVE  SumFunction(n) = Cardinality(Q)
<1> DEFINE of(T) == {q \in Q : kind[q] \in T}
           only(k) == {q \in Q : kind[q] = k}
           part(T) == [k \in T |-> n[k]]
           P == {T \in SUBSET K : SumFunction(part(T)) = Cardinality(of(T))}
<1>1. ASSUME NEW T
      PROVE  IsFiniteSet(of(T)) /\ Cardinality(of(T)) \in Int
  <2>1. of(T) \in SUBSET Q
    OBVIOUS
  <2> HIDE DEF of
  <2> QED
    BY <2>1, FS_Subset, FS_CardinalityType
<1>2. ASSUME NEW k
      PROVE  IsFiniteSet(only(k)) /\ Cardinality(only(k)) \in Int
  <2>1. only(k) \in SUBSET Q
    OBVIOUS
  <2> HIDE DEF only
  <2> QED
    BY <2>1, FS_Subset, FS_CardinalityType
<1>3. \A k \in K : n[k] = Cardinality(only(k))
  OBVIOUS
<1>4. {} \in P
  <2>1. SumFunction(part({})) = 0
    <3>1. part({}) \in [{} -> Int] /\ IsFiniteSet({})
      BY FS_EmptySet
    <3> HIDE DEF part
    <3> QED
      BY <3>1, SumSplits
  <2>2. of({}) = {}
    OBVIOUS
  <2> HIDE DEF part, of
  <2> QED
    BY <2>1, <2>2, FS_EmptySet
<1>5. ASSUME NEW T \in SUBSET K, T \in P, NEW k \in K \ T
      PROVE  T \cup {k} \in P
  <2>1. PICK E : E = T \cup {k}
    OBVIOUS
  <2>2. E \in SUBSET K /\ k \in E /\ E \ {k} = T /\ IsFiniteSet(E)
    BY <1>5, <2>1, FS_Subset
  <2>3. PICK h : h = part(E)
    OBVIOUS
  <2>4. h \in [E -> Int] /\ \A y \in E : h[y] = n[y]
    <3>1. \A y \in E : n[y] \in Int
      <4> HIDE DEF only
      <4> QED
        BY <1>2, <1>3, <2>2
    <3> QED
      BY <2>3, <3>1
  <2>5. SumFunction(h) = SumFunction([y \in E \ {k} |-> h[y]]) + h[k]
    BY <2>2, <2>4, SumSplits
  <2>6. [y \in E \ {k} |-> h[y]] = part(T)
    BY <2>2, <2>4
  <2>7. of(E) = of(T) \cup only(k) /\ of(T) \cap only(k) = {}
    BY <1>5, <2>1
  <2>8. Cardinality(of(E)) = Cardinality(of(T)) + Cardinality(only(k))
    <3> HIDE DEF of, only
    <3>1. /\ IsFiniteSet(of(T)) /\ IsFiniteSet(only(k))
          /\ Cardinality(of(T)) \in Int /\ Cardinality(only(k)) \in Int
      BY <1>1, <1>2
    <3>2. Cardinality(of(T) \cup only(k))
            = Cardinality(of(T)) + Cardinality(only(k)) - Cardinality(of(T) \cap only(k))
      BY <3>1, FS_Union
    <3>3. Cardinality(of(T) \cap only(k)) = 0
      BY <2>7, FS_EmptySet
    <3> QED
      BY <2>7, <3>1, <3>2, <3>3
  <2>9. SumFunction(part(T)) = Cardinality(of(T))
    BY <1>5
  <2> HIDE DEF of, only, part
  <2>10. SumFunction(part(E)) = Cardinality(of(E))
    BY <1>3, <2>2, <2>3, <2>4, <2>5, <2>6, <2>8, <2>9
  <2> QED
    BY <2>1, <2>2, <2>10
<1>6. K \in P
  <2>1. \A T \in SUBSET K : T \in P => \A k \in K \ T : T \cup {k} \in P
    BY <1>5
  <2> HIDE DEF P
  <2> QED
    BY <1>4, <2>1, FiniteInduction
<1>7. part(K) = n /\ of(K) = Q
  OBVIOUS
<1> QED
  BY <1>6, <1>7

--------------------------------------------------------------------------------

\* A relation orders a set: each element before or after each other one.
StrictOrder(R, S) ==
  /\ \A x \in S : <<x, x>> \notin R
  /\ \A x, y \in S : x = y \/ <<x, y>> \in R \/ <<y, x>> \in R
  /\ \A x, y, z \in S : <<x, y>> \in R /\ <<y, z>> \in R => <<x, z>> \in R

(***************************************************************************)
(* ORDER BY: a sequence of the elements of the set, each once, in order.    *)
(***************************************************************************)
LEMMA SortedIs ==
  ASSUME NEW S, IsFiniteSet(S), NEW R, StrictOrder(R, S), NEW q, q = Sorted(S, R)
  PROVE  /\ q \in Seq(S) /\ Len(q) = Cardinality(S) /\ Cardinality(S) \in Nat
         /\ \A x \in S : \E n \in 1..Len(q) : q[n] = x
         /\ \A m, n \in 1..Len(q) : m < n => <<q[m], q[n]>> \in R
<1> DEFINE Low(x) == {y \in S : <<y, x>> \in R}
           n == Cardinality(S)
           r == [x \in S |-> Cardinality(Low(x)) + 1]
<1>1. n \in Nat
  BY FS_CardinalityType
<1>2. ASSUME NEW x \in S
      PROVE  IsFiniteSet(Low(x)) /\ Cardinality(Low(x)) \in 0..(n - 1)
  <2>1. IsFiniteSet(S \ {x}) /\ Cardinality(S \ {x}) = n - 1
    BY FS_RemoveElement
  <2>2. Low(x) \in SUBSET (S \ {x})
    BY DEF StrictOrder
  <2> HIDE DEF Low, n
  <2>3. IsFiniteSet(Low(x)) /\ Cardinality(Low(x)) <= n - 1
    BY <2>1, <2>2, FS_Subset
  <2> QED
    BY <1>1, <2>3, FS_CardinalityType
<1>3. ASSUME NEW x \in S, NEW y \in S, <<x, y>> \in R
      PROVE  Cardinality(Low(x)) < Cardinality(Low(y))
  <2>1. Low(x) \in SUBSET Low(y) /\ x \in Low(y) /\ x \notin Low(x)
    BY <1>3 DEF StrictOrder
  <2>2. IsFiniteSet(Low(y)) /\ Cardinality(Low(x)) \in Int /\ Cardinality(Low(y)) \in Int
    <3> HIDE DEF Low, n
    <3> QED
      BY <1>1, <1>2
  <2> HIDE DEF Low
  <2>3. Cardinality(Low(x)) <= Cardinality(Low(y)) /\ Cardinality(Low(x)) # Cardinality(Low(y))
    BY <2>1, <2>2, FS_Subset
  <2> QED
    BY <2>2, <2>3
<1>4. \A x \in S : r[x] \in 1..n /\ r[x] = Cardinality(Low(x)) + 1
  <2>1. \A x \in S : Cardinality(Low(x)) + 1 \in 1..n
    <3> HIDE DEF Low, n
    <3> QED
      BY <1>1, <1>2
  <2> HIDE DEF Low, n
  <2> QED
    BY <2>1
<1>5. \A x, y \in S : r[x] = r[y] => x = y
  <2> SUFFICES ASSUME NEW x \in S, NEW y \in S, r[x] = r[y], x # y
               PROVE  FALSE
    OBVIOUS
  <2>1. <<x, y>> \in R \/ <<y, x>> \in R
    BY DEF StrictOrder
  <2>2. Cardinality(Low(x)) = Cardinality(Low(y)) /\ Cardinality(Low(x)) \in Int
    <3> HIDE DEF Low, n, r
    <3> QED
      BY <1>1, <1>2, <1>4
  <2> HIDE DEF Low, r
  <2>3. ~(Cardinality(Low(x)) < Cardinality(Low(y))) /\ ~(Cardinality(Low(y)) < Cardinality(Low(x)))
    BY <2>2
  <2> QED
    BY <1>3, <2>1, <2>3
<1>6. r \in Surjection(S, 1..n)
  <2>1. IsFiniteSet(1..n) /\ Cardinality(1..n) = n
    BY <1>1, FS_Interval
  <2>2. r \in Injection(S, 1..n)
    <3>1. r \in [S -> 1..n]
      <4>1. r = [x \in S |-> r[x]]
        OBVIOUS
      <4> HIDE DEF r, n
      <4> QED
        BY <1>4, <4>1
    <3> HIDE DEF r, n
    <3> QED
      BY <1>5, <3>1 DEF Injection, IsInjective
  <2> HIDE DEF r
  <2> QED
    BY <2>1, <2>2, FS_Injection
<1>7. \A i \in 1..n : \E x \in S : r[x] = i
  <2> HIDE DEF r, n
  <2> QED
    BY <1>6 DEF Surjection
<1>8. ASSUME NEW i \in 1..n
      PROVE  q[i] \in S /\ r[q[i]] = i
  <2>1. q[i] = CHOOSE x \in S : Cardinality(Low(x)) = i - 1
    BY DEF Sorted
  <2>2. \E x \in S : Cardinality(Low(x)) = i - 1
    <3>1. PICK x \in S : r[x] = i
      BY <1>7
    <3>2. Cardinality(Low(x)) \in Int /\ r[x] = Cardinality(Low(x)) + 1
      <4> HIDE DEF Low, r, n
      <4> QED
        BY <1>1, <1>2, <1>4
    <3> HIDE DEF Low, r
    <3>3. Cardinality(Low(x)) = i - 1
      BY <3>1, <3>2
    <3> QED
      BY <3>3
  <2>3. q[i] \in S /\ Cardinality(Low(q[i])) = i - 1
    BY <2>1, <2>2
  <2> HIDE DEF Low, r, n
  <2> QED
    BY <1>1, <1>4, <2>3
<1>9. q = [i \in 1..n |-> q[i]]
  <2> DEFINE at(i) == CHOOSE x \in S : Cardinality(Low(x)) = i - 1
  <2>1. PICK f : f = [i \in 1..n |-> at(i)]
    OBVIOUS
  <2>2. f = [i \in 1..n |-> f[i]]
    <3> HIDE DEF at, n
    <3> QED
      BY <2>1
  <2>3. q = f
    BY <2>1 DEF Sorted
  <2> QED
    BY <2>2, <2>3
<1>10. q \in Seq(S) /\ Len(q) = n
  <2>1. \A i \in 1..n : q[i] \in S
    BY <1>8
  <2> HIDE DEF n
  <2> QED
    BY <1>1, <1>9, <2>1
<1>11. \A x \in S : \E i \in 1..n : q[i] = x
  <2> TAKE x \in S
  <2>1. r[x] \in 1..n
    BY <1>4
  <2>2. q[r[x]] \in S /\ r[q[r[x]]] = r[x]
    BY <1>8, <2>1
  <2> HIDE DEF r, n
  <2>3. q[r[x]] = x
    BY <1>5, <2>2
  <2> QED
    BY <2>1, <2>3
<1>12. ASSUME NEW i \in 1..n, NEW j \in 1..n, i < j
       PROVE  <<q[i], q[j]>> \in R
  <2>1. /\ q[i] \in S /\ q[j] \in S /\ r[q[i]] = i /\ r[q[j]] = j
    BY <1>8
  <2>2. /\ Cardinality(Low(q[i])) \in Int /\ Cardinality(Low(q[j])) \in Int
        /\ r[q[i]] = Cardinality(Low(q[i])) + 1 /\ r[q[j]] = Cardinality(Low(q[j])) + 1
    <3> HIDE DEF Low, r, n
    <3> QED
      BY <1>1, <1>2, <1>4, <2>1
  <2> HIDE DEF Low, r, n
  <2>3. Cardinality(Low(q[i])) < Cardinality(Low(q[j]))
    BY <1>1, <1>12, <2>1, <2>2
  <2>4. q[i] # q[j] /\ <<q[j], q[i]>> \notin R
    BY <1>3, <2>1, <2>2, <2>3
  <2> QED
    BY <2>1, <2>4 DEF StrictOrder
<1> HIDE DEF n
<1> QED
  BY <1>1, <1>10, <1>11, <1>12 DEF n

--------------------------------------------------------------------------------
(***************************************************************************)
(* Histories: a page's points are the newest of its windows (unified.py     *)
(* history).                                                                *)
(***************************************************************************)

\* Among finitely many views one is the newest (observed_at, then scan id).
LEMMA FiniteHasNewest ==
  ASSUME NEW scans, Numbered(scans), NEW S \in SUBSET Views(scans), IsFiniteSet(S)
  PROVE  HasNewest(scans, S)
<1> DEFINE P == {T \in SUBSET S : HasNewest(scans, T)}
<1>1. {} \in P
  BY DEF HasNewest
<1>2. \A T \in SUBSET S : T \in P => \A x \in S \ T : T \cup {x} \in P
  BY NewestOfMore
<1> HIDE DEF P
<1>3. S \in P
  BY <1>1, <1>2, FiniteInduction
<1> QED
  BY <1>3 DEF P

\* What the unified store holds is what was loaded from the scans on disk, and finite.
LEMMA LoadedFinite ==
  ASSUME UnifiedInv
  PROVE  /\ store.scans = stock /\ store.market = Market(stock) /\ Numbered(stock)
         /\ DOMAIN store.market = Views(stock)
         /\ IsFiniteSet(DOMAIN stock) /\ IsFiniteSet(Views(stock))
<1>1. /\ store.scans = stock /\ store.market = Market(stock) /\ Numbered(stock)
      /\ DOMAIN store.market = Views(stock)
  BY DEF UnifiedInv, Loaded, Market
<1>2. DOMAIN stock \subseteq Nat /\ nextId \in Nat /\ \A i \in DOMAIN stock : i < nextId
  BY DEF UnifiedInv, UnifiedTypeOK, Numbered
<1>3. IsFiniteSet(DOMAIN stock)
  <2>1. \A i \in DOMAIN stock : i <= nextId
    BY <1>2
  <2> QED
    BY <1>2, <2>1, FS_BoundedSetOfNaturals
<1>4. IsFiniteSet(Views(stock))
  <2>1. Views(stock) \subseteq Nat /\ \A v \in Views(stock) : v <= 2 * nextId + 1
    BY <1>2 DEF Views
  <2>2. 2 * nextId + 1 \in Nat
    BY <1>2
  <2> QED
    BY <2>1, <2>2, FS_BoundedSetOfNaturals
<1> QED
  BY <1>1, <1>3, <1>4

\* The newest view each window still has, without those that were taken.
Heads(scans, W, had) == {Newest(scans, w) : w \in {x \ had : x \in W} \ {{}}}

\* Windows over the views of some scans.
Windows(scans, W, O) ==
  O = UNION W /\ O \subseteq Views(scans) /\ Numbered(scans) /\ IsFiniteSet(O)

\* The windows' heads: none if all views were taken, and the newest of them is the newest
\* view left in any window.
LEMMA HeadsAre ==
  ASSUME NEW scans, NEW W, NEW O, Windows(scans, W, O), NEW had \in SUBSET O
  PROVE  /\ Heads(scans, W, had) \subseteq O \ had
         /\ Heads(scans, W, had) = {} <=> O \subseteq had
         /\ O \subseteq had \/ IsNewest(scans, O \ had, Newest(scans, Heads(scans, W, had)))
<1> USE DEF Windows
<1> DEFINE H == Heads(scans, W, had)
           left == {x \ had : x \in W} \ {{}}
<1>1. ASSUME NEW w \in left
      PROVE  /\ Newest(scans, w) \in w /\ w \subseteq O \ had
             /\ \A v \in w : v = Newest(scans, w) \/ Newer(scans, Newest(scans, w), v)
  <2>1. w # {} /\ w \subseteq O \ had
    OBVIOUS
  <2>2. HasNewest(scans, w)
    BY <2>1, FiniteHasNewest, FS_Subset
  <2> HIDE DEF left
  <2> QED
    BY <2>1, <2>2, NewestChosen DEF IsNewest
<1>2. H \subseteq O \ had
  BY <1>1 DEF Heads
<1>3. ASSUME NEW v \in O \ had
      PROVE  \E h \in H : v = h \/ Newer(scans, h, v)
  <2>1. PICK x \in W : v \in x \ had
    OBVIOUS
  <2>2. x \ had \in left
    BY <2>1
  <2>3. Newest(scans, x \ had) \in H
    BY <2>2 DEF Heads
  <2> HIDE DEF left, H
  <2> QED
    BY <2>1, <2>2, <2>3, <1>1
<1>4. CASE O \subseteq had
  BY <1>2, <1>4
<1>5. CASE ~(O \subseteq had)
  <2>1. H # {}
    BY <1>3, <1>5
  <2>2. HasNewest(scans, H)
    <3> HIDE DEF H
    <3> QED
      BY <1>2, FiniteHasNewest, FS_Subset
  <2>3. /\ Newest(scans, H) \in H
        /\ \A h \in H : h = Newest(scans, H) \/ Newer(scans, Newest(scans, H), h)
    <3> HIDE DEF H
    <3> QED
      BY <2>1, <2>2, NewestChosen DEF IsNewest
  <2>4. ASSUME NEW v \in O \ had
        PROVE  v = Newest(scans, H) \/ Newer(scans, Newest(scans, H), v)
    <3>1. PICK h \in H : v = h \/ Newer(scans, h, v)
      BY <1>3
    <3>2. v \in Views(scans) /\ h \in Views(scans) /\ Newest(scans, H) \in Views(scans)
      BY <1>2, <2>3
    <3> HIDE DEF H
    <3> QED
      BY <3>1, <3>2, <2>3, NewerOrders
  <2> HIDE DEF H
  <2>5. Heads(scans, W, had) = H
    BY DEF H
  <2> QED
    BY <1>2, <1>5, <2>1, <2>3, <2>4, <2>5 DEF IsNewest
<1> QED
  BY <1>4, <1>5

\* With the next point taken.
More(scans, W, had) ==
  IF Heads(scans, W, had) = {} THEN had ELSE had \cup {Newest(scans, Heads(scans, W, had))}

\* A round takes a view of the windows.
LEMMA MoreWithin ==
  ASSUME NEW scans, NEW W, NEW O, Windows(scans, W, O), NEW had \in SUBSET O
  PROVE  More(scans, W, had) \in SUBSET O
<1>1. /\ Heads(scans, W, had) = {} <=> O \subseteq had
      /\ O \subseteq had \/ IsNewest(scans, O \ had, Newest(scans, Heads(scans, W, had)))
  BY HeadsAre
<1> QED
  BY <1>1 DEF More, IsNewest

\* The points after each round.
Filling(scans, W, O, first, n, h) ==
  h \in [0..n -> SUBSET O] /\ h[0] = first /\ \A i \in 1..n : h[i] = More(scans, W, h[i - 1])

\* Fill makes as many rounds as there is room for: it is the recursion over the rounds.
LEMMA FillIs ==
  ASSUME NEW scans, scans = store.scans, NEW W, NEW O, Windows(scans, W, O),
         NEW first, first \subseteq O,
         NEW limit \in Nat, Cardinality(first) <= limit
  PROVE  \E h : /\ Filling(scans, W, O, first, limit - Cardinality(first), h)
                /\ Fill(W, first, limit) = h[limit - Cardinality(first)]
<1> DEFINE n == limit - Cardinality(first)
           X == SUBSET O
           step == [had \in X |-> More(scans, W, had)]
           F(f) == [i \in 0..n |-> IF i = 0 THEN first ELSE More(scans, W, f[i - 1])]
<1>1. IsFiniteSet(first) /\ Cardinality(first) \in Nat
  BY FS_Subset, FS_CardinalityType DEF Windows
<1>2. n \in Nat
  BY <1>1
<1>3. Max({0, n}) = n
  BY <1>2 DEF Max
<1>4. step \in [X -> X]
  <2>1. ASSUME NEW had \in SUBSET O
        PROVE  More(scans, W, had) \in SUBSET O
    BY MoreWithin
  <2> QED
    BY <2>1
<1>5. PICK h : Iterated(n, X, first, step, h)
  <2>1. first \in X
    OBVIOUS
  <2> HIDE DEF step, X, n
  <2> QED
    BY <1>2, <1>4, <2>1, Recursion
<1>6. h \in [0..n -> X] /\ h[0] = first /\ \A i \in 1..n : h[i] = step[h[i - 1]]
  <2> HIDE DEF step, X, n
  <2> QED
    BY <1>5 DEF Iterated
<1>7. \A i \in 0..n : h[i] = IF i = 0 THEN first ELSE More(scans, W, h[i - 1])
  <2>1. \A i \in 0..n : i # 0 => i - 1 \in 0..n
    <3> HIDE DEF n
    <3> QED
      BY <1>2
  <2>2. \A i \in 0..n : i # 0 => h[i - 1] \in X
    <3> HIDE DEF n, X
    <3> QED
      BY <1>6, <2>1
  <2>3. \A had \in X : step[had] = More(scans, W, had)
    OBVIOUS
  <2>4. ASSUME NEW i \in 0..n
        PROVE  h[i] = IF i = 0 THEN first ELSE step[h[i - 1]]
    <3> HIDE DEF step
    <3> QED
      BY <1>6
  <2> HIDE DEF step, n
  <2> QED
    BY <2>2, <2>3, <2>4
<1>8. h = F(h)
  <2>1. h = [i \in 0..n |-> h[i]]
    BY <1>6
  <2> HIDE DEF n
  <2> QED
    BY <1>7, <2>1, Zenon
<1> DEFINE g == CHOOSE f : f = F(f)
<1>9. g = F(g)
  BY <1>8, Zenon
<1>10. \A i \in 0..n : g[i] = h[i]
  <2> DEFINE P == {i \in 0..n : g[i] = h[i]}
  <2> HIDE DEF g
  <2>1. \A i \in 0..n : g[i] = IF i = 0 THEN first ELSE More(scans, W, g[i - 1])
    <3> HIDE DEF n
    <3> QED
      BY <1>9
  <2> HIDE DEF n
  <2>2. 0 \in P
    BY <1>2, <1>7, <2>1
  <2>3. \A i \in 1..n : i - 1 \in P => i \in P
    BY <1>2, <1>7, <2>1
  <2>4. 0..n \subseteq P
    <3> HIDE DEF P
    <3> QED
      BY <1>2, <2>2, <2>3, UpTo
  <2> QED
    BY <2>4
<1>11. Fill(W, first, limit) = g[n]
  <2>1. g = CHOOSE f : f = [i \in 0..n |->
              IF i = 0 THEN first
              ELSE LET had == f[i - 1]
                       heads == {Newest(store.scans, w) : w \in {x \ had : x \in W} \ {{}}}
                   IN  IF heads = {} THEN had ELSE had \cup {Newest(store.scans, heads)}]
    BY DEF Heads, More
  <2>2. Fill(W, first, limit) = (CHOOSE f : f = [i \in 0..n |->
              IF i = 0 THEN first
              ELSE LET had == f[i - 1]
                       heads == {Newest(store.scans, w) : w \in {x \ had : x \in W} \ {{}}}
                   IN  IF heads = {} THEN had ELSE had \cup {Newest(store.scans, heads)}])[n]
    BY <1>3 DEF Fill, LatestOf
  <2> QED
    BY <2>1, <2>2
<1> HIDE DEF g
<1>12. n \in 0..n /\ 0 \in 0..n /\ \A i \in 1..n : i \in 0..n /\ i # 0
  BY <1>2
<1>13. /\ Fill(W, first, limit) = h[n] /\ h[0] = first
       /\ \A i \in 1..n : h[i] = More(scans, W, h[i - 1])
  <2> HIDE DEF n
  <2> QED
    BY <1>7, <1>10, <1>11, <1>12
<1>14. Filling(scans, W, O, first, n, h)
  BY <1>6, <1>13 DEF Filling
<1> QED
  BY <1>13, <1>14

\* What a selection of some size keeps true.
Best(scans, O, first, size, had) ==
  /\ first \subseteq had /\ had \subseteq O
  /\ Cardinality(had) = IF Cardinality(O) < size THEN Cardinality(O) ELSE size
  /\ \A w \in O \ had, x \in had \ first : Newer(scans, x, w)

\* A round keeps the selection the best of its size.
LEMMA MoreBest ==
  ASSUME NEW scans, NEW W, NEW O, Windows(scans, W, O), NEW first, NEW size \in Nat,
         NEW had \in SUBSET O, Best(scans, O, first, size, had)
  PROVE  Best(scans, O, first, size + 1, More(scans, W, had))
<1> DEFINE x == Newest(scans, Heads(scans, W, had))
<1>1. /\ Heads(scans, W, had) = {} <=> O \subseteq had
      /\ O \subseteq had \/ IsNewest(scans, O \ had, x)
  BY HeadsAre
<1>2. /\ IsFiniteSet(O) /\ IsFiniteSet(had) /\ Cardinality(O) \in Nat /\ Cardinality(had) \in Nat
      /\ Cardinality(had) <= Cardinality(O)
      /\ Cardinality(had) = Cardinality(O) => had = O
  BY FS_Subset, FS_CardinalityType DEF Windows
<1>3. CASE O \subseteq had
  <2>1. had = O /\ More(scans, W, had) = had
    BY <1>1, <1>3 DEF More
  <2> QED
    BY <1>2, <2>1 DEF Best
<1>4. CASE ~(O \subseteq had)
  <2>1. x \in O /\ x \notin had /\ \A w \in O \ had : x = w \/ Newer(scans, x, w)
    BY <1>1, <1>4 DEF IsNewest
  <2>2. More(scans, W, had) = had \cup {x}
    BY <1>1, <1>4 DEF More
  <2> HIDE DEF x
  <2>3. Cardinality(had \cup {x}) = Cardinality(had) + 1
    BY <1>2, <2>1, FS_AddElement
  <2>4. Cardinality(had) # Cardinality(O)
    BY <1>2, <2>1
  <2>5. Cardinality(had \cup {x}) = IF Cardinality(O) < size + 1 THEN Cardinality(O) ELSE size + 1
    <3>1. Cardinality(had) = IF Cardinality(O) < size THEN Cardinality(O) ELSE size
      BY DEF Best
    <3> QED
      BY <1>2, <2>3, <2>4, <3>1
  <2>6. \A w \in O \ (had \cup {x}), y \in (had \cup {x}) \ first : Newer(scans, y, w)
    BY <2>1 DEF Best
  <2>7. first \subseteq had \cup {x} /\ had \cup {x} \subseteq O
    BY <2>1 DEF Best
  <2> QED
    BY <2>2, <2>5, <2>6, <2>7 DEF Best
<1> QED
  BY <1>3, <1>4

\* So what Fill ends with is the best selection of the page's size.
LEMMA FillBest ==
  ASSUME NEW scans, scans = store.scans, NEW W, NEW O, Windows(scans, W, O),
         NEW first, first \subseteq O,
         NEW limit \in Nat, Cardinality(first) <= limit
  PROVE  Best(scans, O, first, limit, Fill(W, first, limit))
<1>1. /\ IsFiniteSet(first) /\ Cardinality(first) \in Nat /\ Cardinality(O) \in Nat
      /\ Cardinality(first) <= Cardinality(O)
  BY FS_Subset, FS_CardinalityType DEF Windows
<1>2. PICK n \in Nat : n = limit - Cardinality(first)
  BY <1>1
<1>3. PICK h : Filling(scans, W, O, first, n, h) /\ Fill(W, first, limit) = h[n]
  BY <1>2, FillIs
<1> DEFINE P == {i \in 0..n : Best(scans, O, first, Cardinality(first) + i, h[i])}
<1>4. 0 \in P
  <2>1. h[0] = first
    BY <1>3 DEF Filling
  <2> QED
    BY <1>1, <1>2, <2>1 DEF Best
<1>5. ASSUME NEW i \in 1..n, i - 1 \in P
      PROVE  i \in P
  <2>1. h[i] = More(scans, W, h[i - 1]) /\ h[i - 1] \in SUBSET O
    BY <1>3, <1>5 DEF Filling
  <2>2. /\ Cardinality(first) + (i - 1) \in Nat
        /\ Cardinality(first) + (i - 1) + 1 = Cardinality(first) + i
    BY <1>1
  <2>3. Best(scans, O, first, Cardinality(first) + (i - 1), h[i - 1])
    BY <1>5
  <2>4. Best(scans, O, first, Cardinality(first) + (i - 1) + 1, h[i])
    BY <2>1, <2>2, <2>3, MoreBest
  <2> QED
    BY <2>2, <2>4
<1>6. n \in P
  <2>1. n \in 0..n
    OBVIOUS
  <2> HIDE DEF P
  <2> QED
    BY <1>4, <1>5, <2>1, UpTo
<1> QED
  BY <1>1, <1>2, <1>3, <1>6

\* The rows of a page: the numbers from its first to its last.
LEMMA InPage ==
  ASSUME NEW limit \in Nat \ {0}, NEW page \in Nat, NEW i \in Nat \ {0},
         (i + limit - 1) \div limit = page
  PROVE  limit * page \in Int /\ limit * page - limit < i /\ i <= limit * page
<1>1. PICK a : a = i + limit - 1
  OBVIOUS
<1>2. a \in Nat /\ a \div limit = page
  BY <1>1
<1>3. limit * page <= a /\ a < limit * page + limit
  BY <1>2
<1>4. PICK b : b = limit * page
  OBVIOUS
<1>5. b \in Int
  BY <1>4
<1> QED
  BY <1>1, <1>3, <1>4, <1>5

\* A page has at most as many rows as the limit (unified.py LIMIT ? OFFSET ?).
LEMMA PageSize ==
  ASSUME NEW S, IsFiniteSet(S), NEW limit \in Nat \ {0}, NEW page \in Nat
  PROVE  IsFiniteSet(OfPage(S, limit, page)) /\ Cardinality(OfPage(S, limit, page)) <= limit
<1>1. PICK order : order = Sorted(S, {p \in S \X S : p[1] # p[2]
                     /\ Min(store.market[p[1]].realms) < Min(store.market[p[2]].realms)})
  OBVIOUS
<1> DEFINE D == {i \in DOMAIN order : (i + limit - 1) \div limit = page}
<1>2. Cardinality(S) \in Nat
  BY FS_CardinalityType
<1>3. DOMAIN order = 1..Cardinality(S)
  BY <1>1 DEF Sorted
<1>4. PICK last : last = limit * page
  OBVIOUS
<1>5. last \in Int /\ D \subseteq (last - limit + 1)..last
  <2>1. ASSUME NEW i \in D
        PROVE  last \in Int /\ i \in (last - limit + 1)..last
    <3>1. i \in Nat \ {0} /\ (i + limit - 1) \div limit = page
      BY <1>2, <1>3
    <3>2. last \in Int /\ last - limit < i /\ i <= last
      BY <1>4, <3>1, InPage
    <3> QED
      BY <3>1, <3>2
  <2>2. last \in Int
    BY <1>4
  <2> QED
    BY <2>1, <2>2
<1>6. IsFiniteSet(D) /\ Cardinality(D) <= limit
  <2>1. IsFiniteSet((last - limit + 1)..last) /\ Cardinality((last - limit + 1)..last) = limit
    <3>1. last - limit + 1 \in Int /\ last \in Int /\ last - (last - limit + 1) + 1 = limit
          /\ ~(last - limit + 1 > last)
      BY <1>5
    <3> QED
      BY <3>1, FS_Interval
  <2> HIDE DEF D
  <2> QED
    BY <1>5, <2>1, FS_Subset
<1>7. OfPage(S, limit, page) = {order[i] : i \in D}
  BY <1>1 DEF OfPage
<1>8. /\ IsFiniteSet({order[i] : i \in D})
      /\ Cardinality({order[i] : i \in D}) <= Cardinality(D)
      /\ Cardinality({order[i] : i \in D}) \in Nat /\ Cardinality(D) \in Nat
  <2> HIDE DEF D
  <2> QED
    BY <1>6, ImageSize, FS_CardinalityType
<1> HIDE DEF D
<1> QED
  BY <1>6, <1>7, <1>8

\* A window has stored views only.
LEMMA WindowWithin ==
  ASSUME NEW m, NEW key, NEW start, NEW cutoff
  PROVE  Window(m, key, start, cutoff) \subseteq DOMAIN store.market
BY DEF Window

\* The newest of each window.
Firsts(scans, W) == {Newest(scans, w) : w \in W}
\* The windows of a page.
PageWindows(related, key, start, cutoff, limit, number) ==
  {Window(store.market[w], key, start, cutoff) : w \in OfPage(related, limit, number)} \ {{}}

\* A page of a history selects the best of its windows, after each window's newest.
LEMMA PageFilled ==
  ASSUME UnifiedInv, NEW related, IsFiniteSet(related), NEW key, NEW start, NEW cutoff,
         NEW limit \in Nat \ {0}, NEW number \in Nat, NEW W,
         W = PageWindows(related, key, start, cutoff, limit, number)
  PROVE  Best(stock, UNION W, Firsts(stock, W), limit, Select(W, limit))
<1> DEFINE first == Firsts(stock, W)
           page == OfPage(related, limit, number)
           wide == {Window(store.market[w], key, start, cutoff) : w \in page}
<1>1. IsFiniteSet(page) /\ Cardinality(page) <= limit /\ Cardinality(page) \in Nat
  BY PageSize, FS_CardinalityType
<1>2. IsFiniteSet(wide) /\ Cardinality(wide) <= Cardinality(page)
  <2>1. PICK f : f = [w \in page |-> Window(store.market[w], key, start, cutoff)]
    OBVIOUS
  <2>2. {f[w] : w \in page} = wide
    BY <2>1
  <2> HIDE DEF page, wide
  <2> QED
    BY <1>1, <2>2, ImageSize
<1>3. IsFiniteSet(W) /\ Cardinality(W) <= Cardinality(wide)
  <2>1. W \in SUBSET wide
    BY DEF PageWindows
  <2> HIDE DEF wide
  <2> QED
    BY <1>2, <2>1, FS_Subset
<1>4. IsFiniteSet(first) /\ Cardinality(first) <= Cardinality(W)
  <2>1. PICK f : f = [w \in W |-> Newest(stock, w)]
    OBVIOUS
  <2>2. {f[w] : w \in W} = first
    BY <2>1 DEF Firsts
  <2>3. IsFiniteSet(W)
    BY <1>3
  <2> HIDE DEF first, wide, page
  <2> QED
    BY <2>2, <2>3, ImageSize
<1>5. Cardinality(first) <= limit
  <2>1. Cardinality(first) \in Nat /\ Cardinality(W) \in Nat /\ Cardinality(wide) \in Nat
    <3> HIDE DEF first, wide
    <3> QED
      BY <1>2, <1>3, <1>4, FS_CardinalityType
  <2> HIDE DEF first, wide, page
  <2> QED
    BY <1>1, <1>2, <1>3, <1>4, <2>1
<1>6. /\ store.scans = stock /\ Numbered(stock) /\ DOMAIN store.market = Views(stock)
      /\ IsFiniteSet(Views(stock))
  BY LoadedFinite
<1>7. PICK scans : scans = stock
  OBVIOUS
<1>8. \A w \in W : w \subseteq Views(scans) /\ w # {}
  BY <1>6, <1>7, WindowWithin DEF PageWindows
<1>9. Windows(scans, W, UNION W)
  <2>1. UNION W \in SUBSET Views(scans)
    BY <1>8
  <2> QED
    BY <1>6, <1>7, <2>1, FS_Subset DEF Windows
<1>10. first \subseteq UNION W
  <2>1. ASSUME NEW w \in W
        PROVE  Newest(scans, w) \in w
    <3>1. HasNewest(scans, w)
      <4>1. w \in SUBSET Views(scans) /\ IsFiniteSet(w)
        BY <1>6, <1>7, <1>8, FS_Subset
      <4> QED
        BY <1>6, <1>7, <4>1, FiniteHasNewest
    <3>2. IsNewest(scans, w, Newest(scans, w))
      BY <1>8, <3>1, NewestChosen
    <3> QED
      BY <3>2 DEF IsNewest
  <2> QED
    BY <1>7, <2>1 DEF Firsts
<1>11. Best(scans, UNION W, first, limit, Fill(W, first, limit))
  <2> HIDE DEF first
  <2> QED
    BY <1>5, <1>6, <1>7, <1>9, <1>10, FillBest
<1> QED
  BY <1>6, <1>7, <1>11 DEF Select, Firsts, LatestOf

\* The scans of a history's points.
ScansOf(points) == {p.scan : p \in points}

\* The points of some views are of these views.
LEMMA ObservedScans ==
  ASSUME NEW S, NEW key, NEW f
  PROVE  ScansOf({Observed(w, key, f) : w \in S}) = S
<1>1. PICK t : t = [w \in S |-> Total(Matching(w, key, f))]
  OBVIOUS
<1>2. \A w \in S : Observed(w, key, f) = [scan |-> w, key |-> key, total |-> t[w]]
  BY <1>1 DEF Observed
<1>3. {Observed(w, key, f) : w \in S} = {[scan |-> w, key |-> key, total |-> t[w]] : w \in S}
  BY <1>2
<1> DEFINE R == {[scan |-> w, key |-> key, total |-> t[w]] : w \in S}
<1>4. \A p \in R : p.scan \in S
  OBVIOUS
<1>5. \A w \in S : \E p \in R : p.scan = w
  <2>1. ASSUME NEW w \in S
        PROVE  [scan |-> w, key |-> key, total |-> t[w]] \in R
    OBVIOUS
  <2>2. \A w : [scan |-> w, key |-> key, total |-> t[w]].scan = w
    OBVIOUS
  <2> HIDE DEF R
  <2> QED
    BY <2>1, <2>2
<1>6. {p.scan : p \in R} = S
  <2> HIDE DEF R
  <2> QED
    BY <1>4, <1>5
<1> QED
  BY <1>3, <1>6 DEF ScansOf

(***************************************************************************)
(* What a history answers is, after the last point of each window, the      *)
(* newest points there are, up to the limit: no point is left out for an    *)
(* older one (unified.py history, the ROW_NUMBER and the LIMIT of its       *)
(* query).                                                                  *)
(***************************************************************************)
THEOREM HistoryAlwaysNewest == Spec => []HistoryIsNewest
<1>1. UnifiedInv => HistoryIsNewest
  <2> SUFFICES ASSUME UnifiedInv, NEW v \in DOMAIN store.market,
                      NEW key, NEW all \in BOOLEAN, NEW limit \in HistoryLimits
               PROVE  LET history == PublicHistory(v, key, all, None, 0, limit, 1)
                          chosen == {p.scan : p \in history.points}
                          first == {LatestOf(w) : w \in history.windows}
                          observations == UNION history.windows
                      IN  /\ first \subseteq chosen /\ chosen \subseteq observations
                          /\ Cardinality(chosen) = IF Cardinality(observations) < limit
                                                   THEN Cardinality(observations) ELSE limit
                          /\ \A w \in observations \ chosen, x \in chosen \ first : After(x, w)
    BY DEF HistoryIsNewest
  <2>1. /\ store.scans = stock /\ DOMAIN store.market = Views(stock)
        /\ IsFiniteSet(Views(stock)) /\ store.latest \subseteq DOMAIN store.market
    BY LoadedFinite DEF UnifiedInv, UnifiedTypeOK
  <2>2. limit \in Nat \ {0} /\ 1 \in Nat
    BY MarketsConstants
  <2>3. PICK related : related = Related(v, key, all)
    OBVIOUS
  <2>4. IsFiniteSet(related)
    <3>1. related \in SUBSET Views(stock)
      BY <2>1, <2>3 DEF Related, LatestRealms
    <3> QED
      BY <2>1, <3>1, FS_Subset
  <2>5. PICK cutoff : cutoff = Max({Time(w) : w \in related})
    OBVIOUS
  <2>6. PICK W : W = PageWindows(related, key, 0, cutoff, limit, 1)
    OBVIOUS
  <2>7. Best(stock, UNION W, Firsts(stock, W), limit, Select(W, limit))
    BY <2>2, <2>4, <2>6, PageFilled
  <2>8. PublicHistory(v, key, all, None, 0, limit, 1)
          = [points |-> {Observed(w, key, None) : w \in Select(W, limit)}, windows |-> W]
    BY <2>3, <2>5, <2>6 DEF PublicHistory, PageWindows
  <2>9. PICK chosen : chosen = Select(W, limit)
    OBVIOUS
  <2>10. ScansOf({Observed(w, key, None) : w \in chosen}) = chosen
    BY ObservedScans
  <2>11. PICK points : points = {Observed(w, key, None) : w \in chosen}
    OBVIOUS
  <2>12. {p.scan : p \in points} = chosen
    BY <2>10, <2>11 DEF ScansOf
  <2>13. PICK first : first = {LatestOf(w) : w \in W}
    OBVIOUS
  <2>14. first = Firsts(stock, W)
    BY <2>1, <2>13 DEF Firsts, LatestOf
  <2>15. \A x, w : After(x, w) <=> Newer(stock, x, w)
    BY <2>1 DEF After
  <2>16. /\ first \subseteq chosen /\ chosen \subseteq UNION W
         /\ Cardinality(chosen) = IF Cardinality(UNION W) < limit
                                  THEN Cardinality(UNION W) ELSE limit
         /\ \A w \in (UNION W) \ chosen, x \in chosen \ first : After(x, w)
    BY <2>7, <2>9, <2>14, <2>15 DEF Best
  <2>17. PublicHistory(v, key, all, None, 0, limit, 1) = [points |-> points, windows |-> W]
    BY <2>8, <2>9, <2>11
  <2>18. PICK history : history = PublicHistory(v, key, all, None, 0, limit, 1)
    OBVIOUS
  <2>19. history.points = points /\ history.windows = W
    BY <2>17, <2>18
  <2>20. /\ {LatestOf(w) : w \in history.windows} = first
         /\ {p.scan : p \in history.points} = chosen /\ UNION history.windows = UNION W
    BY <2>12, <2>13, <2>19
  <2> QED
    BY <2>16, <2>18, <2>20
<1>2. UnifiedInv => HistoryIsNewest
  BY <1>1
<1> QED
  BY <1>2, MarketsInvariant, PTL DEF MarketsInv

--------------------------------------------------------------------------------
(***************************************************************************)
(* Rows across markets: what the listing of all items counts and prices.    *)
(***************************************************************************)

\* The rows of an item in a view, of all difficulties or of one.
Of(Q, v, key, f) == {r \in Q[v] : KeyOf(r) = key /\ (f = None \/ r.link \in f)}
\* An item in a view: what the query sums up.
Seeing(Q, v, key, f) == [scan |-> v, key |-> key, total |-> Total(Of(Q, v, key, f))]
\* The items a view has.
KeysOf(Q, v) == {KeyOf(r) : r \in Q[v]}
\* The rows the listing of items starts from: one for each latest view and item.
Listed(Q, L, raid, f) ==
  {x \in UNION {{Seeing(Q, v, key, f) : key \in {k \in KeysOf(Q, v) : raid => k[1] \in RaidItems}} :
                  v \in L} : f # None => x.total.listings > 0}

\* A stored row.
Stored(r) ==
  r.index \in Int /\ r.price \in Nat \cup {None} /\ r.quantity \in Nat \ {0}

\* What a capture says of an item's scope, and that a view's items are those of its kind.
Scoped(c, r, regional) ==
  /\ ScopeOf[c][r.item] \in {"region", "realm", "unknown"}
  /\ ScopeOf[c][r.item] = "region" <=> regional
ScopeIn(scans, v, key) == ScopeOf[scans[v \div 2]][key[1]]

\* What a load's quotes and latest views are like.
Quoted(scans, Q, L, M) ==
  /\ Numbered(scans) /\ L \subseteq Views(scans) /\ IsFiniteSet(L)
  /\ \A v \in L : /\ IsFiniteSet(Q[v])
                  /\ \A r \in Q[v] : Stored(r) /\ Scoped(scans[v \div 2], r, Regional(v))
                  /\ \A r, s \in Q[v] : r.index = s.index => r = s
  /\ \A v, w \in L : M[v] = M[w] => v = w
  /\ \A v, w \in L : Regional(v) /\ Regional(w) => v = w

\* A unit price is a number: the buyout by the quantity, rounded up.
LEMMA Quotient ==
  ASSUME NEW b \in Nat \ {0}, NEW q \in Nat \ {0}
  PROVE  (b + q - 1) \div q \in Nat
<1>1. PICK a : a = b + q - 1
  OBVIOUS
<1>2. a \in Nat
  BY <1>1
<1>3. a \div q \in Int /\ a \div q >= 0
  BY <1>2
<1> QED
  BY <1>1, <1>3

\* The rows of a valid scan that are stored are of the scope they are stored under, each with
\* an index of its own.
LEMMA QuotesStored ==
  ASSUME NEW c \in Captures, Valid(c), NEW regional \in BOOLEAN
  PROVE  /\ IsFiniteSet(Quotes(c, regional))
         /\ \A r \in Quotes(c, regional) : Stored(r) /\ Scoped(c, r, regional)
         /\ \A r, s \in Quotes(c, regional) : r.index = s.index => r = s
<1> DEFINE rows == {q \in Rows[c] : (ScopeOf[c][q.item] = "region") = regional}
<1>1. PICK f : f = [r \in rows |-> ListingMapping(r)]
  OBVIOUS
<1>2. Quotes(c, regional) = {f[r] : r \in rows}
  BY <1>1 DEF Quotes
<1>3. IsFiniteSet(rows)
  <2>1. rows \in SUBSET Rows[c]
    OBVIOUS
  <2> HIDE DEF rows
  <2> QED
    BY <2>1, ObservationConstants, FS_Subset
<1>4. ASSUME NEW r \in rows
      PROVE  Stored(f[r]) /\ f[r].index = r.index /\ f[r].item = r.item
  <2>1. r.index \in Int /\ r.quantity \in Nat \ {0} /\ r.buyout \in Nat
    BY ObservationConstants DEF Valid, Legal
  <2>2. f[r] = ListingMapping(r)
    BY <1>1
  <2>3. f[r].index = r.index /\ f[r].item = r.item /\ f[r].quantity = r.quantity
        /\ f[r].price = IF r.buyout > 0 THEN (r.buyout + r.quantity - 1) \div r.quantity ELSE None
    BY <2>2 DEF ListingMapping, PerPiece
  <2>4. f[r].price \in Nat \cup {None}
    <3>1. CASE r.buyout > 0
      <4>1. (r.buyout + r.quantity - 1) \div r.quantity \in Nat
        BY <2>1, <3>1, Quotient
      <4> QED
        BY <2>3, <3>1, <4>1
    <3> QED
      BY <2>3, <3>1
  <2> QED
    BY <2>1, <2>3, <2>4 DEF Stored
<1>5. \A r \in rows : Scoped(c, r, regional) /\ Scoped(c, f[r], regional)
  BY <1>4, ObservationConstants DEF Scoped
<1>6. IsFiniteSet({f[r] : r \in rows})
  <2> HIDE DEF rows
  <2> QED
    BY <1>3, ImageSize
<1>7. \A r, s \in rows : r.index = s.index => r = s
  BY ObservationConstants
<1> HIDE DEF rows
<1> QED
  BY <1>2, <1>4, <1>5, <1>6, <1>7

\* What is loaded is of that kind.
LEMMA LoadQuoted ==
  ASSUME UnifiedInv
  PROVE  Quoted(stock, store.quotes, store.latest, store.market)
<1>1. PICK scans : scans = stock
  OBVIOUS
<1>2. PICK Q : Q = store.quotes
  OBVIOUS
<1>3. PICK L : L = store.latest
  OBVIOUS
<1>4. PICK M : M = store.market
  OBVIOUS
<1>5. PICK now : now = store.now
  OBVIOUS
<1>6. /\ Numbered(scans) /\ Checked(scans) /\ Dated(scans) /\ IsFiniteSet(Views(scans))
      /\ M = Market(scans) /\ Q = Quoting(scans) /\ L = Latest(scans, Market(scans), now)
  BY <1>1, <1>2, <1>3, <1>4, <1>5, LoadedFinite DEF UnifiedInv, Loaded
<1>7. L \in SUBSET Views(scans)
  BY <1>6, NewestOfMarket DEF Latest
<1>8. ASSUME NEW v \in L
      PROVE  /\ IsFiniteSet(Q[v])
             /\ \A r \in Q[v] : Stored(r) /\ Scoped(scans[v \div 2], r, Regional(v))
             /\ \A r, s \in Q[v] : r.index = s.index => r = s
  <2>1. v \in Views(scans) /\ v \div 2 \in DOMAIN scans
    BY <1>6, <1>7, ViewsOfScans DEF Numbered
  <2>2. Q[v] = Quotes(scans[v \div 2], Regional(v))
    BY <1>6, <2>1 DEF Quoting
  <2>3. scans[v \div 2] \in Captures /\ Valid(scans[v \div 2]) /\ Regional(v) \in BOOLEAN
    BY <1>6, <2>1 DEF Numbered, Checked, Regional
  <2> QED
    BY <2>2, <2>3, QuotesStored
<1>9. ASSUME NEW v \in L, NEW w \in L, M[v] = M[w]
      PROVE  v = w
  <2> DEFINE newest(m) == Newest(scans, {u \in DOMAIN Market(scans) : Market(scans)[u] = m})
  <2>1. \A u \in L : \E m \in Range(Market(scans)) : u = newest(m)
    BY <1>6 DEF Latest
  <2>2. \A m \in Range(Market(scans)) : Market(scans)[newest(m)] = m
    BY <1>6, NewestOfMarket
  <2> HIDE DEF newest
  <2> QED
    BY <1>6, <1>9, <2>1, <2>2
<1>10. \A v, w \in L : Regional(v) /\ Regional(w) => M[v] = M[w]
  BY <1>6, <1>7 DEF Market, MarketAt
<1>11. IsFiniteSet(L)
  BY <1>6, <1>7, FS_Subset
<1>12. \A v, w \in L : Regional(v) /\ Regional(w) => v = w
  BY <1>9, <1>10
<1>13. Quoted(scans, Q, L, M)
  BY <1>6, <1>7, <1>8, <1>9, <1>11, <1>12 DEF Quoted
<1> QED
  BY <1>1, <1>2, <1>3, <1>4, <1>13

\* A listed row is an item of a latest view that has listings, and each such item is listed.
LEMMA ListedIs ==
  ASSUME NEW scans, NEW Q, NEW L, NEW M, Quoted(scans, Q, L, M), NEW raid \in BOOLEAN, NEW f
  PROVE  /\ \A x \in Listed(Q, L, raid, f) :
              /\ x.scan \in L /\ x = Seeing(Q, x.scan, x.key, f)
              /\ Of(Q, x.scan, x.key, f) # {} /\ (raid => x.key[1] \in RaidItems)
         /\ \A v \in L : \A key : Of(Q, v, key, f) # {} /\ (raid => key[1] \in RaidItems)
              => Seeing(Q, v, key, f) \in Listed(Q, L, raid, f)
<1>1. ASSUME NEW v \in L, NEW key
      PROVE  /\ IsFiniteSet(Of(Q, v, key, f))
             /\ Seeing(Q, v, key, f).total.listings = Cardinality(Of(Q, v, key, f))
             /\ Seeing(Q, v, key, f).scan = v /\ Seeing(Q, v, key, f).key = key
             /\ Of(Q, v, key, f) = {} <=> ~(Cardinality(Of(Q, v, key, f)) > 0)
             /\ f = None /\ key \in KeysOf(Q, v) => Of(Q, v, key, f) # {}
             /\ Of(Q, v, key, f) # {} => key \in KeysOf(Q, v)
  <2>1. IsFiniteSet(Of(Q, v, key, f))
    <3>1. Of(Q, v, key, f) \in SUBSET Q[v] /\ IsFiniteSet(Q[v])
      BY DEF Of, Quoted
    <3> QED
      BY <3>1, FS_Subset
  <2>2. Seeing(Q, v, key, f).total.listings = Cardinality(Of(Q, v, key, f))
    BY DEF Seeing, Total
  <2>3. Seeing(Q, v, key, f).scan = v /\ Seeing(Q, v, key, f).key = key
    BY DEF Seeing
  <2>4. Of(Q, v, key, f) = {} <=> ~(Cardinality(Of(Q, v, key, f)) > 0)
    <3>1. /\ Cardinality(Of(Q, v, key, f)) \in Nat
          /\ Of(Q, v, key, f) = {} <=> Cardinality(Of(Q, v, key, f)) = 0
      BY <2>1, FS_CardinalityType, FS_EmptySet
    <3> QED
      BY <3>1
  <2>5. f = None /\ key \in KeysOf(Q, v) => Of(Q, v, key, f) # {}
    BY DEF Of, KeysOf
  <2>6. Of(Q, v, key, f) # {} => key \in KeysOf(Q, v)
    BY DEF Of, KeysOf
  <2> QED
    BY <2>1, <2>2, <2>3, <2>4, <2>5, <2>6
<1>2. ASSUME NEW x \in Listed(Q, L, raid, f)
      PROVE  /\ x.scan \in L /\ x = Seeing(Q, x.scan, x.key, f)
             /\ Of(Q, x.scan, x.key, f) # {} /\ (raid => x.key[1] \in RaidItems)
  <2>1. /\ f # None => x.total.listings > 0
        /\ \E v \in L : \E key \in KeysOf(Q, v) :
             (raid => key[1] \in RaidItems) /\ x = Seeing(Q, v, key, f)
    BY DEF Listed
  <2>2. PICK v \in L : \E key \in KeysOf(Q, v) :
          (raid => key[1] \in RaidItems) /\ x = Seeing(Q, v, key, f)
    BY <2>1
  <2>3. PICK key \in KeysOf(Q, v) :
           (raid => key[1] \in RaidItems) /\ x = Seeing(Q, v, key, f)
    BY <2>2
  <2>4. x.scan = v /\ x.key = key
    BY <1>1, <2>3
  <2>5. Of(Q, v, key, f) # {}
    BY <1>1, <2>1, <2>3
  <2> QED
    BY <2>3, <2>4, <2>5
<1>3. ASSUME NEW v \in L, NEW key, Of(Q, v, key, f) # {}, raid => key[1] \in RaidItems
      PROVE  Seeing(Q, v, key, f) \in Listed(Q, L, raid, f)
  <2>1. key \in KeysOf(Q, v) /\ Seeing(Q, v, key, f).total.listings > 0
    BY <1>1, <1>3
  <2> QED
    BY <1>3, <2>1 DEF Listed
<1> QED
  BY <1>2, <1>3

\* Marking rows with their view neither loses one nor makes one up.
LEMMA TaggedCounted ==
  ASSUME NEW v, NEW S, IsFiniteSet(S)
  PROVE  /\ IsFiniteSet({[scan |-> v, row |-> r] : r \in S})
         /\ Cardinality({[scan |-> v, row |-> r] : r \in S}) = Cardinality(S)
<1>1. PICK g : g = [r \in S |-> [scan |-> v, row |-> r]]
  OBVIOUS
<1>2. \A r, s \in S : g[r] = g[s] => r = s
  <2>1. \A r \in S : g[r].row = r
    BY <1>1
  <2> QED
    BY <2>1
<1>3. /\ IsFiniteSet({g[r] : r \in S})
      /\ Cardinality({g[r] : r \in S}) = Cardinality(S)
  BY <1>2, ImageSize
<1> QED
  BY <1>1, <1>3

\* The listings behind a row.
Records(Q, v, key, f) == {[scan |-> v, row |-> r] : r \in Of(Q, v, key, f)}
\* The listings behind several rows.
Behind(Q, B, f) == UNION {Records(Q, x.scan, x.key, f) : x \in B}

\* A row has as many listings as it counts, and finitely many.
LEMMA RecordsCounted ==
  ASSUME NEW Q, NEW v, IsFiniteSet(Q[v]), NEW key, NEW f
  PROVE  /\ IsFiniteSet(Records(Q, v, key, f)) /\ IsFiniteSet(Of(Q, v, key, f))
         /\ Cardinality(Records(Q, v, key, f)) = Cardinality(Of(Q, v, key, f))
<1>1. IsFiniteSet(Of(Q, v, key, f))
  <2>1. Of(Q, v, key, f) \in SUBSET Q[v]
    BY DEF Of
  <2> QED
    BY <2>1, FS_Subset
<1>2. PICK S : S = Of(Q, v, key, f)
  OBVIOUS
<1>3. PICK g : g = [r \in S |-> [scan |-> v, row |-> r]]
  OBVIOUS
<1>4. PICK R : R = Records(Q, v, key, f)
  OBVIOUS
<1>5. {g[r] : r \in S} = R
  BY <1>2, <1>3, <1>4 DEF Records
<1>6. PICK h : h = [q \in R |-> q.row]
  OBVIOUS
<1>7. {h[q] : q \in R} = S
  <2>1. \A r \in S : g[r] \in R /\ h[g[r]] = r
    BY <1>3, <1>5, <1>6
  <2>2. \A q \in R : \E r \in S : q = g[r]
    BY <1>5
  <2> QED
    BY <2>1, <2>2
<1>8. IsFiniteSet(R) /\ Cardinality(R) <= Cardinality(S)
  BY <1>1, <1>2, <1>5, ImageSize
<1>9. Cardinality(S) <= Cardinality(R)
  BY <1>7, <1>8, ImageSize
<1>10. Cardinality(S) \in Nat /\ Cardinality(R) \in Nat
  BY <1>1, <1>2, <1>8, FS_CardinalityType
<1> QED
  BY <1>1, <1>2, <1>4, <1>8, <1>9, <1>10

\* A listing behind a row is one of the row's item in its view, and all of these are behind
\* it.
LEMMA BehindIs ==
  ASSUME NEW scans, NEW Q, NEW L, NEW M, Quoted(scans, Q, L, M), NEW raid \in BOOLEAN, NEW f,
         NEW B \in SUBSET Listed(Q, L, raid, f)
  PROVE  /\ \A q \in Behind(Q, B, f) :
              /\ q = [scan |-> q.scan, row |-> q.row] /\ q.scan \in L
              /\ Seeing(Q, q.scan, KeyOf(q.row), f) \in B
              /\ q.row \in Of(Q, q.scan, KeyOf(q.row), f)
         /\ \A x \in B : \A r \in Of(Q, x.scan, x.key, f) :
              [scan |-> x.scan, row |-> r] \in Behind(Q, B, f)
<1>1. \A x \in B : x.scan \in L /\ x = Seeing(Q, x.scan, x.key, f)
  BY ListedIs
<1>2. ASSUME NEW q \in Behind(Q, B, f)
      PROVE  /\ q = [scan |-> q.scan, row |-> q.row] /\ q.scan \in L
             /\ Seeing(Q, q.scan, KeyOf(q.row), f) \in B
             /\ q.row \in Of(Q, q.scan, KeyOf(q.row), f)
  <2>1. PICK x \in B : q \in Records(Q, x.scan, x.key, f)
    BY DEF Behind
  <2>2. PICK r \in Of(Q, x.scan, x.key, f) : q = [scan |-> x.scan, row |-> r]
    BY <2>1 DEF Records
  <2>3. KeyOf(r) = x.key
    BY <2>2 DEF Of
  <2>4. q.scan = x.scan /\ q.row = r
    BY <2>2
  <2> QED
    BY <1>1, <2>2, <2>3, <2>4
<1>3. ASSUME NEW x \in B, NEW r \in Of(Q, x.scan, x.key, f)
      PROVE  [scan |-> x.scan, row |-> r] \in Behind(Q, B, f)
  BY DEF Behind, Records
<1> QED
  BY <1>2, <1>3

\* There are finitely many rows and listings behind them.
LEMMA BehindFinite ==
  ASSUME NEW scans, NEW Q, NEW L, NEW M, Quoted(scans, Q, L, M), NEW raid \in BOOLEAN, NEW f,
         NEW B \in SUBSET Listed(Q, L, raid, f)
  PROVE  IsFiniteSet(Behind(Q, B, f)) /\ IsFiniteSet(B)
<1>1. \A x \in B : x.scan \in L /\ x = Seeing(Q, x.scan, x.key, f)
  BY ListedIs
<1>2. PICK k : k = [v \in L |-> KeysOf(Q, v)]
  OBVIOUS
<1>3. ASSUME NEW v \in L
      PROVE  IsFiniteSet(k[v])
  <2>1. IsFiniteSet(Q[v])
    BY DEF Quoted
  <2>2. PICK g : g = [r \in Q[v] |-> KeyOf(r)]
    OBVIOUS
  <2>3. {g[r] : r \in Q[v]} = KeysOf(Q, v)
    BY <2>2 DEF KeysOf
  <2>4. IsFiniteSet({g[r] : r \in Q[v]})
    BY <2>1, ImageSize
  <2> QED
    BY <1>2, <2>3, <2>4
<1>4. PICK s : s = [v \in L |-> {Seeing(Q, v, key, f) : key \in KeysOf(Q, v)}]
  OBVIOUS
<1>5. ASSUME NEW v \in L
      PROVE  IsFiniteSet(s[v])
  <2>1. PICK g : g = [key \in k[v] |-> Seeing(Q, v, key, f)]
    OBVIOUS
  <2>2. {g[key] : key \in k[v]} = s[v]
    BY <1>2, <1>4, <2>1
  <2> QED
    BY <1>3, <2>2, ImageSize
<1>6. IsFiniteSet(L)
  BY DEF Quoted
<1>7. IsFiniteSet({s[v] : v \in L})
  BY <1>6, ImageSize
<1>8. IsFiniteSet(UNION {s[v] : v \in L})
  BY <1>5, <1>7, FS_UNION
<1>9. B \subseteq UNION {s[v] : v \in L}
  <2>1. ASSUME NEW x \in B
        PROVE  x.scan \in L /\ x \in s[x.scan]
    <3>1. x.key \in KeysOf(Q, x.scan)
      <4>1. Of(Q, x.scan, x.key, f) # {}
        BY ListedIs
      <4> QED
        BY <4>1 DEF Of, KeysOf
    <3> QED
      BY <1>1, <1>4, <3>1
  <2> QED
    BY <2>1
<1>10. IsFiniteSet(B)
  BY <1>8, <1>9, FS_Subset
<1>11. PICK t : t = [x \in B |-> Records(Q, x.scan, x.key, f)]
  OBVIOUS
<1>12. \A x \in B : IsFiniteSet(t[x])
  <2>1. ASSUME NEW x \in B
        PROVE  IsFiniteSet(t[x])
    <3>1. x.scan \in L
      BY <1>1
    <3>2. IsFiniteSet(Q[x.scan])
      BY <3>1 DEF Quoted
    <3>3. IsFiniteSet(Records(Q, x.scan, x.key, f))
      BY <3>2, RecordsCounted
    <3> QED
      BY <1>11, <3>3
  <2> QED
    BY <2>1
<1>13. Behind(Q, B, f) = UNION {t[x] : x \in B}
  BY <1>11 DEF Behind
<1>14. IsFiniteSet({t[x] : x \in B})
  BY <1>10, ImageSize
<1> QED
  BY <1>10, <1>12, <1>13, <1>14, FS_UNION

\* The rows' numbers of listings add up to the listings behind them: no listing is behind two
\* rows.
LEMMA ListingsAddUp ==
  ASSUME NEW scans, NEW Q, NEW L, NEW M, Quoted(scans, Q, L, M), NEW raid \in BOOLEAN, NEW f,
         NEW B \in SUBSET Listed(Q, L, raid, f)
  PROVE  SumFunction([x \in B |-> x.total.listings]) = Cardinality(Behind(Q, B, f))
<1>1. PICK R : R = Behind(Q, B, f)
  OBVIOUS
<1>2. IsFiniteSet(R) /\ IsFiniteSet(B)
  BY <1>1, BehindFinite
<1>3. PICK kind : kind = [q \in R |-> Seeing(Q, q.scan, KeyOf(q.row), f)]
  OBVIOUS
<1>4. \A q \in R : kind[q] \in B
  BY <1>1, <1>3, BehindIs
<1>5. ASSUME NEW x \in B
      PROVE  Cardinality({q \in R : kind[q] = x}) = x.total.listings
  <2>1. x.scan \in L /\ x = Seeing(Q, x.scan, x.key, f)
    BY ListedIs
  <2>2. IsFiniteSet(Q[x.scan])
    BY <2>1 DEF Quoted
  <2>3. x.total.listings = Cardinality(Of(Q, x.scan, x.key, f))
    <3>1. Seeing(Q, x.scan, x.key, f).total.listings = Cardinality(Of(Q, x.scan, x.key, f))
      BY DEF Seeing, Total
    <3> QED
      BY <2>1, <3>1
  <2>4. PICK S : S = Records(Q, x.scan, x.key, f)
    OBVIOUS
  <2>5. ASSUME NEW q \in R, kind[q] = x
        PROVE  q \in S
    <3>1. /\ q = [scan |-> q.scan, row |-> q.row]
          /\ q.row \in Of(Q, q.scan, KeyOf(q.row), f)
      BY <1>1, BehindIs
    <3>2. x = Seeing(Q, q.scan, KeyOf(q.row), f)
      BY <1>3, <2>5
    <3>3. x.scan = q.scan /\ x.key = KeyOf(q.row)
      BY <3>2 DEF Seeing
    <3>4. [scan |-> q.scan, row |-> q.row] \in Records(Q, q.scan, KeyOf(q.row), f)
      BY <3>1 DEF Records
    <3> QED
      BY <2>4, <3>1, <3>3, <3>4
  <2>6. ASSUME NEW q \in S
        PROVE  q \in R /\ kind[q] = x
    <3>1. PICK r \in Of(Q, x.scan, x.key, f) : q = [scan |-> x.scan, row |-> r]
      BY <2>4 DEF Records
    <3>2. q \in R
      BY <1>1, <3>1, BehindIs
    <3>3. q.scan = x.scan /\ q.row = r /\ KeyOf(r) = x.key
      BY <3>1 DEF Of
    <3> QED
      BY <1>3, <2>1, <3>2, <3>3
  <2>7. {q \in R : kind[q] = x} = S
    BY <2>5, <2>6
  <2>8. Cardinality(S) = Cardinality(Of(Q, x.scan, x.key, f))
    BY <2>2, <2>4, RecordsCounted
  <2> QED
    BY <2>3, <2>7, <2>8
<1>6. PICK n : n = [x \in B |-> Cardinality({q \in R : kind[q] = x})]
  OBVIOUS
<1>7. SumFunction(n) = Cardinality(R)
  BY <1>2, <1>4, <1>6, SumOfCounts
<1>8. n = [x \in B |-> x.total.listings]
  BY <1>5, <1>6
<1> QED
  BY <1>1, <1>7, <1>8

\* A price, or none.
Prices == Nat \cup {None}

\* The least price of a set: none is lower, and it is one of them unless none has a price.
LEMMA LeastIs ==
  ASSUME NEW S \in SUBSET Prices
  PROVE  /\ Least(S) \in Prices /\ (Least(S) # None => Least(S) \in S)
         /\ \A p \in S : ~Dearer(Least(S), p)
<1> USE DEF Prices
<1>1. CASE S \ {None} = {}
  BY <1>1 DEF Least, Dearer
<1>2. CASE S \ {None} # {}
  <2>1. S \ {None} \subseteq Nat
    OBVIOUS
  <2>2. PICK x \in S \ {None} : \A y \in S \ {None} : x <= y
    BY <1>2, <2>1, HasLeast
  <2>3. Min(S \ {None}) \in S \ {None} /\ \A y \in S \ {None} : Min(S \ {None}) <= y
    BY <2>2 DEF Min
  <2>4. PICK m : m = Least(S)
    OBVIOUS
  <2>5. m = Min(S \ {None})
    BY <1>2, <2>4 DEF Least
  <2>6. m \in S /\ m # None /\ \A y \in S : y # None => m <= y
    BY <2>3, <2>5
  <2>7. m \in Nat /\ \A y \in S : y # None => y \in Nat
    BY <2>6
  <2>8. \A y \in S : ~Dearer(m, y)
    BY <2>6, <2>7 DEF Dearer
  <2> QED
    BY <2>4, <2>6, <2>7, <2>8
<1> QED
  BY <1>1, <1>2

\* An ordered finite set has a first element.
LEMMA HasFirst ==
  ASSUME NEW S, IsFiniteSet(S), S # {}, NEW R, StrictOrder(R, S)
  PROVE  \E x \in S : \A y \in S : x = y \/ <<x, y>> \in R
<1>1. PICK q : q = Sorted(S, R)
  OBVIOUS
<1>2. /\ q \in Seq(S) /\ Len(q) = Cardinality(S) /\ Cardinality(S) \in Nat
      /\ \A x \in S : \E n \in 1..Len(q) : q[n] = x
      /\ \A m, n \in 1..Len(q) : m < n => <<q[m], q[n]>> \in R
  BY <1>1, SortedIs
<1>3. 1 \in 1..Len(q)
  BY <1>2
<1>4. q[1] \in S
  BY <1>2, <1>3
<1>5. ASSUME NEW y \in S
      PROVE  q[1] = y \/ <<q[1], y>> \in R
  <2>1. PICK n \in 1..Len(q) : q[n] = y
    BY <1>2
  <2>2. n = 1 \/ 1 < n
    BY <1>2
  <2> QED
    BY <1>2, <1>3, <2>1, <2>2
<1> QED
  BY <1>4, <1>5

\* A row's place: its scope, its item, and its market when the scope is unknown (unified.py,
\* the PARTITION BY).
Placing(scans, M, x) ==
  LET scope == ScopeIn(scans, x.scan, x.key)
  IN  <<scope, IF scope = "unknown" THEN M[x.scan] ELSE None, x.key>>

\* Which of two rows of one place is shown: the cheaper, or the newer.
Undercuts(scans, x, y) ==
  \/ Dearer(y.total.price, x.total.price)
  \/ x.total.price = y.total.price /\ Newer(scans, x.scan, y.scan)

\* A row's price is that of a cheapest listing behind it.
LEMMA RowPriced ==
  ASSUME NEW scans, NEW Q, NEW L, NEW M, Quoted(scans, Q, L, M), NEW v \in L, NEW key, NEW f
  PROVE  LET p == Seeing(Q, v, key, f).total.price IN
         /\ p \in Prices
         /\ p # None => \E r \in Of(Q, v, key, f) : r.price = p
         /\ \A r \in Of(Q, v, key, f) : r.price \in Prices /\ ~Dearer(p, r.price)
<1>1. PICK S : S = {r.price : r \in Of(Q, v, key, f)}
  OBVIOUS
<1>2. \A r \in Of(Q, v, key, f) : r.price \in Prices
  BY DEF Quoted, Of, Stored, Prices
<1>3. S \in SUBSET Prices
  BY <1>1, <1>2
<1>4. Seeing(Q, v, key, f).total.price = Least(S)
  BY <1>1 DEF Seeing, Total
<1>5. /\ Least(S) \in Prices /\ (Least(S) # None => Least(S) \in S)
      /\ \A p \in S : ~Dearer(Least(S), p)
  BY <1>3, LeastIs
<1> QED
  BY <1>1, <1>2, <1>4, <1>5

\* All rows of one place, of which there are some.
InBucket(scans, Q, L, M, raid, f, b, B) ==
  B # {} /\ B = {x \in Listed(Q, L, raid, f) : Placing(scans, M, x) = b}

\* The rows of one place, one of which is w.
Together(scans, M, key, v, w) ==
  /\ ScopeIn(scans, v, key) = ScopeIn(scans, w, key)
  /\ ScopeIn(scans, w, key) = "unknown" => M[v] = M[w]
Alike(scans, Q, L, M, f, B, w) ==
  /\ \A x \in B : x.scan \in L /\ x.key = w.key /\ x = Seeing(Q, x.scan, w.key, f)
                  /\ Of(Q, x.scan, w.key, f) # {} /\ Together(scans, M, w.key, x.scan, w.scan)
  /\ \A v \in L : Of(Q, v, w.key, f) # {} /\ Together(scans, M, w.key, v, w.scan)
                  => Seeing(Q, v, w.key, f) \in B /\ Seeing(Q, v, w.key, f).scan = v

\* The rows of one place are those of one item in the markets of its scope.
LEMMA BucketIs ==
  ASSUME NEW scans, NEW Q, NEW L, NEW M, Quoted(scans, Q, L, M), NEW raid \in BOOLEAN, NEW f,
         NEW b, NEW B, InBucket(scans, Q, L, M, raid, f, b, B), NEW w \in B
  PROVE  B \in SUBSET Listed(Q, L, raid, f) /\ b[3] = w.key /\ Alike(scans, Q, L, M, f, B, w)
<1>1. \A x \in B : x \in Listed(Q, L, raid, f) /\ Placing(scans, M, x) = b
  BY DEF InBucket
<1>2. \A x \in B : x.key = w.key
  <2>1. \A x \in B : x.key = b[3]
    BY <1>1 DEF Placing
  <2> QED
    BY <2>1
<1>3. \A x \in B : /\ x.scan \in L /\ x = Seeing(Q, x.scan, x.key, f)
                   /\ Of(Q, x.scan, x.key, f) # {} /\ (raid => x.key[1] \in RaidItems)
  BY <1>1, ListedIs
<1>4. ASSUME NEW v \in L, Of(Q, v, w.key, f) # {}, Together(scans, M, w.key, v, w.scan)
      PROVE  Seeing(Q, v, w.key, f) \in B /\ Seeing(Q, v, w.key, f).scan = v
  <2>1. Seeing(Q, v, w.key, f) \in Listed(Q, L, raid, f)
    BY <1>3, <1>4, ListedIs
  <2>2. Seeing(Q, v, w.key, f).scan = v /\ Seeing(Q, v, w.key, f).key = w.key
    BY DEF Seeing
  <2>3. Placing(scans, M, Seeing(Q, v, w.key, f)) = Placing(scans, M, w)
    BY <1>4, <2>2 DEF Placing, Together
  <2> QED
    BY <1>1, <2>1, <2>2, <2>3 DEF InBucket
<1>5. b[3] = w.key
  BY <1>1 DEF Placing
<1>6. ASSUME NEW x \in B
      PROVE  Together(scans, M, w.key, x.scan, w.scan)
  <2>1. Placing(scans, M, x) = Placing(scans, M, w) /\ x.key = w.key
    BY <1>1, <1>2
  <2> QED
    BY <2>1 DEF Placing, Together
<1> QED
  BY <1>1, <1>2, <1>3, <1>4, <1>5, <1>6 DEF Alike

\* The scope of a listing's key, as its scan has it, tells whose market it is in.
LEMMA ScopeIs ==
  ASSUME NEW scans, NEW Q, NEW L, NEW M, Quoted(scans, Q, L, M), NEW v \in L, NEW key, NEW f,
         Of(Q, v, key, f) # {}
  PROVE  /\ ScopeIn(scans, v, key) \in {"region", "realm", "unknown"}
         /\ ScopeIn(scans, v, key) = "region" <=> Regional(v)
         /\ key \in KeysOf(Q, v)
<1>1. PICK r \in Of(Q, v, key, f) : TRUE
  OBVIOUS
<1>2. r \in Q[v] /\ KeyOf(r) = key
  BY DEF Of
<1>3. key[1] = r.item
  BY <1>2 DEF KeyOf
<1> QED
  BY <1>2, <1>3 DEF Quoted, Scoped, ScopeIn, KeysOf

\* The markets whose rows are in one place with w.
InMarkets(scans, Q, L, f, B, w, V) ==
  LET scope(v) == ScopeIn(scans, v, w.key)
      has(v) == Of(Q, v, w.key, f) # {}
  IN  /\ scope(w.scan) = "realm"
           => V = {v \in L : ~Regional(v) /\ has(v) /\ scope(v) = "realm"}
      /\ scope(w.scan) # "realm" => V = {w.scan}
      /\ scope(w.scan) # "unknown"
           => V = {v \in L : /\ Regional(v) = Regional(w.scan) /\ has(v)
                             /\ scope(v) = scope(w.scan)}
      /\ B = {Seeing(Q, v, w.key, f) : v \in V}

\* And these are the markets of the place.
LEMMA BucketMarkets ==
  ASSUME NEW scans, NEW Q, NEW L, NEW M, Quoted(scans, Q, L, M), NEW raid \in BOOLEAN, NEW f,
         NEW b, NEW B, InBucket(scans, Q, L, M, raid, f, b, B), NEW w \in B,
         NEW V, V = {x.scan : x \in B}
  PROVE  InMarkets(scans, Q, L, f, B, w, V)
<1> DEFINE scope(v) == ScopeIn(scans, v, w.key)
           has(v) == Of(Q, v, w.key, f) # {}
<1>1. Alike(scans, Q, L, M, f, B, w)
  BY BucketIs
<1>2. /\ \A x \in B : x.scan \in L /\ x.key = w.key /\ x = Seeing(Q, x.scan, w.key, f)
                      /\ has(x.scan) /\ scope(x.scan) = scope(w.scan)
                      /\ (scope(w.scan) = "unknown" => M[x.scan] = M[w.scan])
      /\ \A v \in L : has(v) /\ scope(v) = scope(w.scan) /\ scope(w.scan) # "unknown"
                      => Seeing(Q, v, w.key, f) \in B /\ Seeing(Q, v, w.key, f).scan = v
  BY <1>1 DEF Alike, Together
<1>3. \A v \in L : has(v) => /\ scope(v) \in {"region", "realm", "unknown"}
                             /\ scope(v) = "region" <=> Regional(v)
  BY ScopeIs
<1> HIDE DEF scope, has
<1>4. w.scan \in L /\ has(w.scan)
  BY <1>2
<1>5. \A v \in L : has(v) /\ scope(v) = scope(w.scan) /\ scope(w.scan) # "unknown"
        => \E x \in B : x.scan = v
  BY <1>2
<1>6. ASSUME scope(w.scan) = "unknown", NEW x \in B
      PROVE  x.scan = w.scan
  BY <1>2, <1>4, <1>6 DEF Quoted
<1>7. ASSUME scope(w.scan) = "region", NEW x \in B
      PROVE  x.scan = w.scan
  <2>1. Regional(x.scan) /\ Regional(w.scan)
    BY <1>2, <1>3, <1>4, <1>7
  <2> QED
    BY <1>2, <1>4, <2>1 DEF Quoted
<1>8. scope(w.scan) = "realm"
        => {x.scan : x \in B} = {v \in L : ~Regional(v) /\ has(v) /\ scope(v) = "realm"}
  BY <1>2, <1>3, <1>5
<1>9. scope(w.scan) # "realm" => {x.scan : x \in B} = {w.scan}
  <2>1. scope(w.scan) # "realm" => \A x \in B : x.scan = w.scan
    BY <1>3, <1>4, <1>6, <1>7
  <2> QED
    BY <2>1
<1>10. scope(w.scan) # "unknown"
        => {x.scan : x \in B}
             = {v \in L : /\ Regional(v) = Regional(w.scan) /\ has(v)
                          /\ scope(v) = scope(w.scan)}
  <2>1. \A v \in L : has(v) /\ scope(v) = scope(w.scan) => Regional(v) = Regional(w.scan)
    BY <1>3, <1>4 DEF Regional
  <2> QED
    BY <1>2, <1>5, <2>1
<1>11. B = {Seeing(Q, v, w.key, f) : v \in {x.scan : x \in B}}
  <2>1. PICK g : g = [v \in L |-> Seeing(Q, v, w.key, f)]
    OBVIOUS
  <2>2. \A x \in B : x.scan \in L /\ x = g[x.scan]
    BY <1>2, <2>1
  <2>3. B = {g[v] : v \in {x.scan : x \in B}}
    BY <2>2
  <2>4. \A v \in {x.scan : x \in B} : g[v] = Seeing(Q, v, w.key, f)
    BY <2>1, <2>2
  <2> QED
    BY <2>3, <2>4
<1> QED
  BY <1>8, <1>9, <1>10, <1>11 DEF InMarkets, scope, has

\* Prices are ordered, and having none comes after all of them.
LEMMA DearerOrders ==
  /\ \A p, q \in Prices : p = q \/ Dearer(p, q) \/ Dearer(q, p)
  /\ \A p, q \in Prices : Dearer(p, q) => ~Dearer(q, p) /\ p # q
  /\ \A o, p, q \in Prices : Dearer(o, p) /\ Dearer(p, q) => Dearer(o, q)
<1>1. None \notin Nat
  BY ObservationConstants
<1> QED
  BY <1>1 DEF Dearer, Prices

\* The rows of a place in the order they are shown.
ByPrice(scans, B) == {p \in B \X B : Undercuts(scans, p[1], p[2])}

\* That orders them: two rows of a place are of different views.
LEMMA CheaperOrders ==
  ASSUME NEW scans, NEW Q, NEW L, NEW M, Quoted(scans, Q, L, M), NEW raid \in BOOLEAN, NEW f,
         NEW b, NEW B, InBucket(scans, Q, L, M, raid, f, b, B)
  PROVE  StrictOrder(ByPrice(scans, B), B)
<1>1. PICK w : w \in B
  BY DEF InBucket
<1>2. \A x \in B : x.scan \in L /\ x = Seeing(Q, x.scan, w.key, f)
  BY <1>1, BucketIs DEF Alike
<1>3. \A x \in B : x.total.price \in Prices
  BY <1>2, RowPriced
<1>4. \A x \in B : x.scan \in Views(scans)
  BY <1>2 DEF Quoted
<1>5. \A x, y \in B : x.scan = y.scan => x = y
  BY <1>2
<1>6. PICK pr : pr = [x \in B |-> x.total.price]
  OBVIOUS
<1>7. PICK sc : sc = [x \in B |-> x.scan]
  OBVIOUS
<1>8. \A x, y \in B : <<x, y>> \in ByPrice(scans, B) <=>
        Dearer(pr[y], pr[x]) \/ (pr[x] = pr[y] /\ Newer(scans, sc[x], sc[y]))
  BY <1>6, <1>7 DEF ByPrice, Undercuts
<1>9. \A x \in B : pr[x] \in Prices /\ sc[x] \in Views(scans)
  BY <1>3, <1>4, <1>6, <1>7
<1>10. \A x, y \in B : sc[x] = sc[y] => x = y
  BY <1>5, <1>7
<1>11. /\ \A v, u \in Views(scans) : v = u \/ Newer(scans, v, u) \/ Newer(scans, u, v)
       /\ \A v, u \in Views(scans) : ~(Newer(scans, v, u) /\ Newer(scans, u, v))
       /\ \A t, v, u \in Views(scans) :
            Newer(scans, t, v) /\ Newer(scans, v, u) => Newer(scans, t, u)
  BY NewerOrders DEF Quoted
<1>12. \A x \in B : <<x, x>> \notin ByPrice(scans, B)
  BY <1>8, <1>9, <1>11, DearerOrders
<1>13. \A x, y \in B : x = y \/ <<x, y>> \in ByPrice(scans, B) \/ <<y, x>> \in ByPrice(scans, B)
  BY <1>8, <1>9, <1>10, <1>11, DearerOrders
<1>14. \A x, y, z \in B : <<x, y>> \in ByPrice(scans, B) /\ <<y, z>> \in ByPrice(scans, B)
                           => <<x, z>> \in ByPrice(scans, B)
  BY <1>8, <1>9, <1>11, DearerOrders
<1> QED
  BY <1>12, <1>13, <1>14 DEF StrictOrder

\* The row that stands for its place.
Winner(scans, B) == CHOOSE x \in B : \A y \in B : x = y \/ Undercuts(scans, x, y)

\* The row that stands for a place is one of its rows, and none is cheaper.
LEMMA WinnerIs ==
  ASSUME NEW scans, NEW Q, NEW L, NEW M, Quoted(scans, Q, L, M), NEW raid \in BOOLEAN, NEW f,
         NEW b, NEW B, InBucket(scans, Q, L, M, raid, f, b, B)
  PROVE  /\ Winner(scans, B) \in B
         /\ \A y \in B : ~Dearer(Winner(scans, B).total.price, y.total.price)
<1>1. StrictOrder(ByPrice(scans, B), B)
  BY CheaperOrders
<1>2. PICK w : w \in B
  BY DEF InBucket
<1>3. B \in SUBSET Listed(Q, L, raid, f)
  BY <1>2, BucketIs
<1>4. IsFiniteSet(B)
  BY <1>3, BehindFinite
<1>5. \E x \in B : \A y \in B : x = y \/ <<x, y>> \in ByPrice(scans, B)
  BY <1>1, <1>2, <1>4, HasFirst
<1>6. \E x \in B : \A y \in B : x = y \/ Undercuts(scans, x, y)
  BY <1>5 DEF ByPrice
<1>7. PICK x : x = Winner(scans, B)
  OBVIOUS
<1>8. x \in B /\ \A y \in B : x = y \/ Undercuts(scans, x, y)
  BY <1>6, <1>7 DEF Winner
<1>9. \A y \in B : y.total.price \in Prices
  <2>1. \A y \in B : y.scan \in L /\ y = Seeing(Q, y.scan, w.key, f)
    BY <1>2, BucketIs DEF Alike
  <2> QED
    BY <2>1, RowPriced
<1>10. \A y \in B : ~Dearer(x.total.price, y.total.price)
  BY <1>8, <1>9, DearerOrders DEF Undercuts
<1> QED
  BY <1>7, <1>8, <1>10

\* The order of listings.
Ahead(x, y) ==
  \/ Dearer(y.row.price, x.row.price)
  \/ /\ x.row.price = y.row.price
     /\ x.scan < y.scan \/ (x.scan = y.scan /\ x.row.index < y.row.index)

\* Listings in that order.
ByPiece(R) == {p \in R \X R : Ahead(p[1], p[2])}

\* It orders them: two listings of a view have different indices.
LEMMA PiecesOrdered ==
  ASSUME NEW scans, NEW Q, NEW L, NEW M, Quoted(scans, Q, L, M), NEW raid \in BOOLEAN, NEW f,
         NEW B \in SUBSET Listed(Q, L, raid, f)
  PROVE  StrictOrder(ByPiece(Behind(Q, B, f)), Behind(Q, B, f))
<1>1. PICK R : R = Behind(Q, B, f)
  OBVIOUS
<1>2. \A q \in R : /\ q = [scan |-> q.scan, row |-> q.row] /\ q.scan \in L
                   /\ q.row \in Of(Q, q.scan, KeyOf(q.row), f)
  BY <1>1, BehindIs
<1>3. \A q \in R : q.scan \in Nat
  <2>1. \A v \in L : v \in Nat
    BY ViewsOfScans DEF Quoted, Numbered
  <2> QED
    BY <1>2, <2>1
<1>4. \A q \in R : q.row \in Q[q.scan]
  BY <1>2 DEF Of
<1>5. PICK pr : pr = [q \in R |-> q.row.price]
  OBVIOUS
<1>6. PICK sc : sc = [q \in R |-> q.scan]
  OBVIOUS
<1>7. PICK ix : ix = [q \in R |-> q.row.index]
  OBVIOUS
<1>8. \A x, y \in R : <<x, y>> \in ByPiece(R) <=>
        \/ Dearer(pr[y], pr[x])
        \/ pr[x] = pr[y] /\ (sc[x] < sc[y] \/ (sc[x] = sc[y] /\ ix[x] < ix[y]))
  BY <1>5, <1>6, <1>7 DEF ByPiece, Ahead
<1>9. \A x \in R : pr[x] \in Prices /\ sc[x] \in Nat /\ ix[x] \in Int
  BY <1>2, <1>3, <1>4, <1>5, <1>6, <1>7 DEF Quoted, Stored, Prices
<1>10. ASSUME NEW x \in R, NEW y \in R, sc[x] = sc[y], ix[x] = ix[y]
       PROVE  x = y
  <2>1. x.scan = y.scan /\ x.row.index = y.row.index
    BY <1>6, <1>7, <1>10
  <2>2. x.row = y.row
    BY <1>2, <1>4, <2>1 DEF Quoted
  <2> QED
    BY <1>2, <2>1, <2>2
<1>11. \A x \in R : <<x, x>> \notin ByPiece(R)
  BY <1>8, <1>9, DearerOrders
<1>12. \A x, y \in R : x = y \/ <<x, y>> \in ByPiece(R) \/ <<y, x>> \in ByPiece(R)
  <2> SUFFICES ASSUME NEW x \in R, NEW y \in R
               PROVE  x = y \/ <<x, y>> \in ByPiece(R) \/ <<y, x>> \in ByPiece(R)
    OBVIOUS
  <2>1. CASE pr[x] # pr[y]
    BY <1>8, <1>9, <2>1, DearerOrders
  <2>2. CASE pr[x] = pr[y]
    BY <1>8, <1>9, <1>10, <2>2
  <2> QED
    BY <2>1, <2>2
<1>13. \A x, y, z \in R : <<x, y>> \in ByPiece(R) /\ <<y, z>> \in ByPiece(R)
                           => <<x, z>> \in ByPiece(R)
  <2> SUFFICES ASSUME NEW x \in R, NEW y \in R, NEW z \in R,
                      <<x, y>> \in ByPiece(R), <<y, z>> \in ByPiece(R)
               PROVE  <<x, z>> \in ByPiece(R)
    OBVIOUS
  <2>1. CASE Dearer(pr[y], pr[x]) \/ Dearer(pr[z], pr[y])
    BY <1>8, <1>9, <2>1, DearerOrders
  <2>2. CASE ~Dearer(pr[y], pr[x]) /\ ~Dearer(pr[z], pr[y])
    BY <1>8, <1>9, <2>2
  <2> QED
    BY <2>1, <2>2
<1> QED
  BY <1>1, <1>11, <1>12, <1>13 DEF StrictOrder

\* Its listings in order: as many as the row says, and the first has the row's price.
LEMMA FirstPiece ==
  ASSUME NEW scans, NEW Q, NEW L, NEW M, Quoted(scans, Q, L, M), NEW raid \in BOOLEAN, NEW f,
         NEW b, NEW B, InBucket(scans, Q, L, M, raid, f, b, B),
         NEW items, items = Sorted(Behind(Q, B, f), ByPiece(Behind(Q, B, f)))
  PROVE  /\ Len(items) = SumFunction([x \in B |-> x.total.listings])
         /\ items[1].row.price = Winner(scans, B).total.price
<1>1. PICK R : R = Behind(Q, B, f)
  OBVIOUS
<1>2. PICK w : w = Winner(scans, B)
  OBVIOUS
<1>3. w \in B /\ \A y \in B : ~Dearer(w.total.price, y.total.price)
  BY <1>2, WinnerIs
<1>4. B \in SUBSET Listed(Q, L, raid, f)
  BY <1>3, BucketIs
<1>5. IsFiniteSet(R)
  BY <1>1, <1>4, BehindFinite
<1>6. StrictOrder(ByPiece(R), R)
  BY <1>1, <1>4, PiecesOrdered
<1>7. /\ items \in Seq(R) /\ Len(items) = Cardinality(R) /\ Cardinality(R) \in Nat
      /\ \A x \in R : \E n \in 1..Len(items) : items[n] = x
      /\ \A m, n \in 1..Len(items) : m < n => <<items[m], items[n]>> \in ByPiece(R)
  BY <1>1, <1>5, <1>6, SortedIs
<1>8. Len(items) = SumFunction([x \in B |-> x.total.listings])
  BY <1>1, <1>4, <1>7, ListingsAddUp
<1>9. /\ \A q \in R : /\ q.scan \in L /\ Seeing(Q, q.scan, KeyOf(q.row), f) \in B
                      /\ q.row \in Of(Q, q.scan, KeyOf(q.row), f)
      /\ \A x \in B : \A r \in Of(Q, x.scan, x.key, f) : [scan |-> x.scan, row |-> r] \in R
  BY <1>1, <1>4, BehindIs
<1>10. \A x \in B : x.scan \in L /\ x = Seeing(Q, x.scan, x.key, f) /\ Of(Q, x.scan, x.key, f) # {}
  BY <1>4, ListedIs
<1>11. w.total.price \in Prices
  BY <1>3, <1>10, RowPriced
<1>12. ASSUME NEW q \in R
       PROVE  q.row.price \in Prices /\ ~Dearer(w.total.price, q.row.price)
  <2>1. PICK y : y = Seeing(Q, q.scan, KeyOf(q.row), f)
    OBVIOUS
  <2>2. y \in B /\ y.total.price \in Prices
    BY <1>9, <2>1, RowPriced
  <2>3. q.row.price \in Prices /\ ~Dearer(y.total.price, q.row.price)
    BY <1>9, <2>1, RowPriced
  <2>4. ~Dearer(w.total.price, y.total.price)
    BY <1>3, <2>2
  <2> QED
    BY <1>11, <2>2, <2>3, <2>4, DearerOrders
<1>13. R # {} /\ \E q \in R : w.total.price # None => q.row.price = w.total.price
  <2>1. PICK r \in Of(Q, w.scan, w.key, f) : w.total.price # None => r.price = w.total.price
    <3>1. CASE w.total.price = None
      BY <1>3, <1>10, <3>1
    <3>2. CASE w.total.price # None
      BY <1>3, <1>10, <3>2, RowPriced
    <3> QED
      BY <3>1, <3>2
  <2>2. [scan |-> w.scan, row |-> r] \in R
    BY <1>3, <1>9
  <2>3. [scan |-> w.scan, row |-> r].row.price = r.price
    OBVIOUS
  <2> QED
    BY <2>1, <2>2, <2>3
<1>14. 1 \in 1..Len(items) /\ items[1] \in R
  <2>1. PICK q \in R : TRUE
    BY <1>13
  <2>2. PICK n \in 1..Len(items) : items[n] = q
    BY <1>7, <2>1
  <2>3. 1 \in 1..Len(items)
    BY <1>7, <2>2
  <2> QED
    BY <1>7, <2>3
<1>15. ASSUME NEW q \in R
       PROVE  ~Dearer(items[1].row.price, q.row.price)
  <2>1. PICK n \in 1..Len(items) : items[n] = q
    BY <1>7
  <2>2. n = 1 \/ 1 < n
    BY <1>7
  <2>3. items[1] = q \/ <<items[1], q>> \in ByPiece(R)
    BY <1>7, <1>14, <2>1, <2>2
  <2>4. items[1] = q \/ Ahead(items[1], q)
    BY <2>3 DEF ByPiece
  <2>5. items[1].row.price \in Prices /\ q.row.price \in Prices
    BY <1>12, <1>14
  <2> QED
    BY <2>4, <2>5, DearerOrders DEF Ahead
<1>16. items[1].row.price = w.total.price
  <2>1. items[1].row.price \in Prices /\ ~Dearer(w.total.price, items[1].row.price)
    BY <1>12, <1>14
  <2>2. PICK q \in R : w.total.price # None => q.row.price = w.total.price
    BY <1>13
  <2>3. ~Dearer(items[1].row.price, q.row.price)
    BY <1>15
  <2>4. CASE w.total.price # None
    BY <1>11, <2>1, <2>2, <2>3, <2>4, DearerOrders
  <2>5. CASE w.total.price = None
    BY <2>1, <2>5, ObservationConstants DEF Dearer
  <2> QED
    BY <2>4, <2>5
<1> QED
  BY <1>2, <1>8, <1>16

--------------------------------------------------------------------------------
(***************************************************************************)
(* Merged histories: the pages together end with every market compared.     *)
(***************************************************************************)

\* Each row is on one of the pages up to its own number.
LEMMA PageOf ==
  ASSUME NEW limit \in Nat \ {0}, NEW i \in Nat \ {0}
  PROVE  (i + limit - 1) \div limit \in 1..i
<1>1. PICK a : a = i + limit - 1
  OBVIOUS
<1>2. a \in Nat /\ limit <= a
  BY <1>1
<1>3. PICK p : p = a \div limit
  OBVIOUS
<1>4. p \in Int /\ limit * p <= a /\ a < limit * p + limit
  BY <1>2, <1>3
<1>5. 1 <= p
  <2>1. SUFFICES ASSUME p <= 0 PROVE FALSE
    BY <1>4
  <2>2. limit * p <= 0
    BY <1>4, <2>1
  <2>3. limit * p \in Int
    BY <1>4
  <2> QED
    BY <1>2, <1>4, <2>2, <2>3
<1>6. p <= i
  <2>1. SUFFICES ASSUME p >= i + 1 PROVE FALSE
    BY <1>4
  <2>2. PICK d : d = p - i
    OBVIOUS
  <2>3. d \in Nat \ {0} /\ p = i + d
    BY <1>4, <2>1, <2>2
  <2>4. limit * p = limit * i + limit * d
    BY <2>3
  <2>5. limit * d >= limit /\ limit * i >= i
    BY <2>3
  <2>6. limit * p \in Int /\ limit * i \in Int /\ limit * d \in Int
    BY <1>4, <2>3
  <2> QED
    BY <1>1, <1>4, <2>4, <2>5, <2>6
<1> QED
  BY <1>1, <1>3, <1>4, <1>5, <1>6

\* Markets in the order of their first realm.
ByRealm(M, S) == {p \in S \X S : p[1] # p[2] /\ Min(M[p[1]].realms) < Min(M[p[2]].realms)}

\* The pages together have all markets, and nothing else.
LEMMA PagesCover ==
  ASSUME NEW S, IsFiniteSet(S), StrictOrder(ByRealm(store.market, S), S),
         NEW limit \in Nat \ {0}, NEW n \in Nat, Cardinality(S) <= n
  PROVE  /\ \A page \in 1..n : OfPage(S, limit, page) \subseteq S
         /\ \A v \in S : \E page \in 1..n : v \in OfPage(S, limit, page)
<1>1. PICK order : order = Sorted(S, ByRealm(store.market, S))
  OBVIOUS
<1>2. \A page : OfPage(S, limit, page)
                  = {order[i] : i \in {i \in DOMAIN order : (i + limit - 1) \div limit = page}}
  BY <1>1 DEF OfPage, ByRealm
<1>3. /\ order \in Seq(S) /\ Len(order) = Cardinality(S) /\ Cardinality(S) \in Nat
      /\ \A x \in S : \E m \in 1..Len(order) : order[m] = x
  BY <1>1, SortedIs
<1>4. DOMAIN order = 1..Len(order) /\ \A i \in 1..Len(order) : order[i] \in S
  BY <1>3
<1>5. ASSUME NEW page \in 1..n
      PROVE  OfPage(S, limit, page) \subseteq S
  BY <1>2, <1>4
<1>6. ASSUME NEW v \in S
      PROVE  \E page \in 1..n : v \in OfPage(S, limit, page)
  <2>1. PICK m \in 1..Len(order) : order[m] = v
    BY <1>3
  <2>2. PICK page : page = (m + limit - 1) \div limit
    OBVIOUS
  <2>3. page \in 1..m
    BY <2>2, PageOf
  <2>4. page \in 1..n
    BY <1>3, <2>3
  <2>5. m \in DOMAIN order
    BY <1>4
  <2> QED
    BY <1>2, <2>1, <2>2, <2>4, <2>5
<1> QED
  BY <1>5, <1>6

\* The rows a comparison has, absent ones too.
Compared(Q, L, w, key, f) ==
  {Seeing(Q, v, key, f) : v \in {v \in L : Regional(v) = Regional(w)}}

\* An item in a view says whether it has listings there; without one it has no quantity.
LEMMA SeeingIs ==
  ASSUME NEW scans, NEW Q, NEW L, NEW M, Quoted(scans, Q, L, M), NEW v \in L, NEW key, NEW f
  PROVE  LET x == Seeing(Q, v, key, f) IN
         /\ x.scan = v /\ x.key = key /\ x.total.quantity \in Int
         /\ x.total.listings > 0 <=> Of(Q, v, key, f) # {}
         /\ Of(Q, v, key, f) = {} => x.total.quantity = 0
<1>1. PICK S : S = Of(Q, v, key, f)
  OBVIOUS
<1>2. IsFiniteSet(S) /\ \A r \in S : r.quantity \in Int
  <2>1. S \in SUBSET Q[v] /\ IsFiniteSet(Q[v])
    BY <1>1 DEF Of, Quoted
  <2>2. \A r \in Q[v] : r.quantity \in Int
    BY DEF Quoted, Stored
  <2> QED
    BY <2>1, <2>2, FS_Subset
<1>3. PICK g : g = [r \in S |-> r.quantity]
  OBVIOUS
<1>4. g \in [S -> Int]
  BY <1>2, <1>3
<1>5. SumFunction(g) \in Int /\ (S = {} => SumFunction(g) = 0)
  BY <1>2, <1>4, SumSplits
<1>6. PICK x : x = Seeing(Q, v, key, f)
  OBVIOUS
<1>7. x.scan = v /\ x.key = key /\ x.total = Total(S)
  BY <1>1, <1>6 DEF Seeing
<1>8. Total(S).quantity = SumFunction(g) /\ Total(S).listings = Cardinality(S)
  BY <1>3 DEF Total
<1>9. Cardinality(S) > 0 <=> S # {}
  <2>1. Cardinality(S) \in Nat /\ (S = {} <=> Cardinality(S) = 0)
    BY <1>2, FS_CardinalityType, FS_EmptySet
  <2> QED
    BY <2>1
<1> QED
  BY <1>1, <1>5, <1>6, <1>7, <1>8, <1>9

\* What a comparison shows of markets where the item has the place's scope are its rows.
LEMMA ComparedIs ==
  ASSUME NEW scans, NEW Q, NEW L, NEW M, Quoted(scans, Q, L, M), NEW raid \in BOOLEAN, NEW f,
         NEW b, NEW B, InBucket(scans, Q, L, M, raid, f, b, B), NEW w \in B,
         ScopeIn(scans, w.scan, w.key) # "unknown"
  PROVE  {x \in Compared(Q, L, w.scan, w.key, f) :
            /\ x.total.listings > 0
            /\ ScopeIn(scans, x.scan, w.key) = ScopeIn(scans, w.scan, w.key)} = B
<1>1. PICK C : C = Compared(Q, L, w.scan, w.key, f)
  OBVIOUS
<1>2. PICK N : N = {v \in L : Regional(v) = Regional(w.scan)}
  OBVIOUS
<1>3. PICK g : g = [v \in N |-> Seeing(Q, v, w.key, f)]
  OBVIOUS
<1>4. C = {g[v] : v \in N}
  BY <1>1, <1>2, <1>3 DEF Compared
<1>5. ASSUME NEW v \in N
      PROVE  g[v].scan = v /\ (g[v].total.listings > 0 <=> Of(Q, v, w.key, f) # {})
  BY <1>2, <1>3, SeeingIs
<1>6. PICK V : V = {x.scan : x \in B}
  OBVIOUS
<1>7. /\ V = {v \in L : /\ Regional(v) = Regional(w.scan) /\ Of(Q, v, w.key, f) # {}
                        /\ ScopeIn(scans, v, w.key) = ScopeIn(scans, w.scan, w.key)}
      /\ B = {Seeing(Q, v, w.key, f) : v \in V}
  <2>1. InMarkets(scans, Q, L, f, B, w, V)
    BY <1>6, BucketMarkets
  <2> QED
    BY <2>1 DEF InMarkets
<1>8. V \subseteq N
  BY <1>2, <1>7
<1>9. B = {g[v] : v \in V}
  BY <1>3, <1>7, <1>8
<1>10. PICK scope : scope = [v \in N |-> ScopeIn(scans, v, w.key)]
  OBVIOUS
<1>11. w.scan \in N
  <2>1. w.scan \in V
    BY <1>6
  <2> QED
    BY <1>8, <2>1
<1>12. \A v \in N : v \in V <=> g[v].total.listings > 0 /\ scope[v] = scope[w.scan]
  BY <1>2, <1>5, <1>7, <1>10, <1>11
<1>13. \A x \in C : x.scan \in N
  BY <1>4, <1>5
<1>14. {x \in C : x.total.listings > 0 /\ scope[x.scan] = scope[w.scan]} = B
  BY <1>4, <1>5, <1>8, <1>9, <1>12
<1> QED
  BY <1>1, <1>10, <1>11, <1>13, <1>14

\* There is one newest view.
LEMMA NewestUnique ==
  ASSUME NEW scans, Numbered(scans), NEW S \in SUBSET Views(scans), NEW w, IsNewest(scans, S, w)
  PROVE  Newest(scans, S) = w
<1>1. HasNewest(scans, S) /\ S # {}
  BY DEF HasNewest, IsNewest
<1>2. IsNewest(scans, S, Newest(scans, S))
  BY <1>1, NewestChosen
<1>3. PICK x : x = Newest(scans, S)
  OBVIOUS
<1>4. x \in S /\ w \in S /\ (x = w \/ Newer(scans, x, w)) /\ (w = x \/ Newer(scans, w, x))
  BY <1>2, <1>3 DEF IsNewest
<1> QED
  BY <1>3, <1>4, NewerOrders

\* The latest view of a market is the newest of its timeline.
LEMMA LatestIsNewest ==
  ASSUME UnifiedInv, NEW w \in store.latest
  PROVE  IsNewest(stock, Timeline(stock, store.market[w]), w)
<1>1. PICK scans : scans = stock
  OBVIOUS
<1>2. PICK M : M = Market(scans)
  OBVIOUS
<1>3. PICK now : now = store.now
  OBVIOUS
<1>4. /\ Dated(scans) /\ store.market = M /\ DOMAIN M = Views(scans)
      /\ w \in Latest(scans, M, now)
  BY <1>1, <1>2, <1>3 DEF UnifiedInv, Loaded, Market
<1>5. PICK m \in Range(M) : w = Newest(scans, {v \in DOMAIN M : M[v] = m})
  BY <1>4 DEF Latest
<1>6. PICK v \in Views(scans) : M[v] = m
  BY <1>4, <1>5 DEF Range
<1>7. {u \in DOMAIN M : M[u] = m} = Timeline(scans, m)
  BY <1>2, <1>4 DEF Timeline
<1>8. v \in Timeline(scans, m) /\ HasNewest(scans, Timeline(scans, m))
  BY <1>2, <1>4, <1>6 DEF Dated, Timeline
<1>9. IsNewest(scans, Timeline(scans, m), w)
  BY <1>5, <1>7, <1>8, NewestChosen
<1>10. M[w] = m
  BY <1>2, <1>9 DEF IsNewest, Timeline
<1> QED
  BY <1>1, <1>4, <1>9, <1>10

\* The window of a latest view ends with it.
LEMMA OwnWindow ==
  ASSUME UnifiedInv, NEW w \in store.latest, NEW key, NEW cutoff \in Nat,
         TimeOf[stock[w \div 2]] <= cutoff
  PROVE  LET window == Window(store.market[w], key, 0, cutoff) IN
         window # {} /\ Newest(stock, window) = w
<1>1. PICK scans : scans = stock
  OBVIOUS
<1>2. PICK M : M = store.market
  OBVIOUS
<1>3. PICK Q : Q = store.quotes
  OBVIOUS
<1>4. /\ Numbered(scans) /\ store.scans = scans /\ M = Market(scans) /\ DOMAIN M = Views(scans)
  BY <1>1, <1>2, LoadedFinite
<1>5. IsNewest(scans, Timeline(scans, M[w]), w)
  BY <1>1, <1>2, LatestIsNewest
<1>6. PICK time : time = [v \in Views(scans) |-> TimeOf[scans[v \div 2]]]
  OBVIOUS
<1>7. \A v \in Views(scans) : time[v] \in Nat
  BY <1>4, <1>6, ViewsOfScans, ObservationConstants DEF Numbered
<1>8. PICK S : S = Timeline(scans, M[w])
  OBVIOUS
<1>9. /\ S \subseteq Views(scans) /\ w \in S /\ S = {v \in DOMAIN M : M[v] = M[w]}
  BY <1>4, <1>5, <1>8 DEF Timeline, IsNewest
<1>10. \A v \in S : time[v] <= time[w] /\ time[v] <= cutoff
  <2>1. \A v \in S : time[v] <= time[w]
    BY <1>5, <1>6, <1>7, <1>8, <1>9 DEF IsNewest, Newer
  <2>2. time[w] <= cutoff
    BY <1>1, <1>6, <1>9
  <2> QED
    BY <1>7, <1>9, <2>1, <2>2
<1>11. PICK having : having = {v \in S : key \in {KeyOf(r) : r \in Q[v]}}
  OBVIOUS
<1>12. PICK until : until = {v \in S : TimeOf[scans[v \div 2]] <= cutoff}
  OBVIOUS
<1>13. until = S
  BY <1>6, <1>9, <1>10, <1>12
<1>14. PICK times : times = {TimeOf[scans[v \div 2]] : v \in having}
  OBVIOUS
<1>15. PICK window : window = Window(store.market[w], key, 0, cutoff)
  OBVIOUS
<1>16. window = IF having # {}
                THEN {v \in until : TimeOf[scans[v \div 2]] >= Max({0, Min(times)})}
                ELSE {v \in until : /\ TimeOf[scans[v \div 2]] >= 0
                                    /\ \A u \in until : v = u \/ Newer(scans, v, u)}
  <2> DEFINE Result(t, h, u) ==
               IF h # {}
               THEN {v \in u : TimeOf[scans[v \div 2]]
                                 >= Max({0, Min({TimeOf[scans[x \div 2]] : x \in h})})}
               ELSE {v \in u : /\ TimeOf[scans[v \div 2]] >= 0
                               /\ \A x \in u : v = x \/ Newer(scans, v, x)}
             all == {v \in DOMAIN store.market : store.market[v] = store.market[w]}
  <2>1. window = Result(all, {v \in all : key \in {KeyOf(r) : r \in store.quotes[v]}},
                        {v \in all : TimeOf[store.scans[v \div 2]] <= cutoff})
    BY <1>4, <1>15 DEF Window, Time, After, Keys
  <2>2. all = S
    BY <1>2, <1>9
  <2>3. window = Result(S, {v \in S : key \in {KeyOf(r) : r \in Q[v]}},
                        {v \in S : TimeOf[scans[v \div 2]] <= cutoff})
    <3> HIDE DEF all, Result
    <3> QED
      BY <1>3, <1>4, <2>1, <2>2
  <2>4. window = Result(S, having, until)
    <3> HIDE DEF all, Result
    <3> QED
      BY <1>11, <1>12, <2>3
  <2> QED
    BY <1>14, <2>4
<1>17. window \subseteq S
  BY <1>13, <1>16
<1>18. w \in window
  <2>1. CASE having # {}
    <3>1. times \subseteq Nat /\ times # {}
      BY <1>6, <1>7, <1>9, <1>11, <1>14, <2>1
    <3>2. PICK least \in times : \A t \in times : least <= t
      BY <3>1, HasLeast
    <3>3. PICK m : m = Min(times)
      OBVIOUS
    <3>4. m \in times
      BY <3>2, <3>3 DEF Min
    <3>5. m \in Nat /\ m <= time[w]
      BY <1>6, <1>9, <1>10, <1>11, <1>14, <3>1, <3>4
    <3>6. Max({0, m}) = m
      BY <3>5 DEF Max
    <3>7. time[w] = TimeOf[scans[w \div 2]] /\ w \in until
      BY <1>6, <1>9, <1>13
    <3> QED
      BY <1>7, <1>9, <1>16, <2>1, <3>3, <3>5, <3>6, <3>7
  <2>2. CASE having = {}
    <3>1. time[w] = TimeOf[scans[w \div 2]] /\ w \in until /\ time[w] >= 0
      BY <1>6, <1>7, <1>9, <1>13
    <3>2. \A u \in until : w = u \/ Newer(scans, w, u)
      BY <1>5, <1>8, <1>13 DEF IsNewest
    <3> QED
      BY <1>16, <2>2, <3>1, <3>2
  <2> QED
    BY <2>1, <2>2
<1>19. IsNewest(scans, window, w)
  BY <1>5, <1>8, <1>17, <1>18 DEF IsNewest
<1>20. Newest(scans, window) = w
  BY <1>4, <1>9, <1>17, <1>19, NewestUnique
<1> QED
  BY <1>1, <1>15, <1>18, <1>20

\* A page of some markets, and a time after the last view of all of them.
Page(related, limit, number, page) ==
  page = OfPage(related, limit, number) /\ page \subseteq related

\* A time after the last views of some markets.
Closes(scans, related, cutoff) ==
  cutoff \in Nat /\ \A w \in related : TimeOf[scans[w \div 2]] <= cutoff

\* Each window of a page is known by its last view, which is the market's latest.
LEMMA LastOfPage ==
  ASSUME UnifiedInv, NEW related \in SUBSET store.latest, NEW key,
         NEW scans, scans = stock, NEW cutoff, Closes(scans, related, cutoff),
         NEW limit, NEW number, NEW page, Page(related, limit, number, page)
  PROVE  Firsts(scans, PageWindows(related, key, 0, cutoff, limit, number)) = page
<1>1. page = OfPage(related, limit, number) /\ page \subseteq related
  BY DEF Page
<1>2. PICK win : win = [w \in page |-> Window(store.market[w], key, 0, cutoff)]
  OBVIOUS
<1>3. cutoff \in Nat /\ \A w \in page : w \in store.latest /\ TimeOf[scans[w \div 2]] <= cutoff
  BY <1>1 DEF Closes
<1>4. \A w \in page : win[w] # {} /\ Newest(scans, win[w]) = w
  <2>1. ASSUME NEW w \in page
        PROVE  win[w] # {} /\ Newest(scans, win[w]) = w
    <3>1. w \in store.latest /\ TimeOf[stock[w \div 2]] <= cutoff /\ cutoff \in Nat
      BY <1>3
    <3>2. win[w] = Window(store.market[w], key, 0, cutoff)
      BY <1>2
    <3>3. /\ Window(store.market[w], key, 0, cutoff) # {}
          /\ Newest(stock, Window(store.market[w], key, 0, cutoff)) = w
      BY <3>1, OwnWindow
    <3> QED
      BY <3>2, <3>3
  <2> QED
    BY <2>1
<1>5. PICK W : W = PageWindows(related, key, 0, cutoff, limit, number)
  OBVIOUS
<1>6. W = {win[w] : w \in page} \ {{}}
  BY <1>1, <1>2, <1>5 DEF PageWindows
<1>7. W = {win[w] : w \in page}
  BY <1>4, <1>6
<1>8. {Newest(scans, x) : x \in W} = page
  BY <1>4, <1>7
<1> QED
  BY <1>5, <1>8 DEF Firsts

\* A realm's market has realms, with numbers.
LEMMA RealmsNamed ==
  ASSUME UnifiedInv, NEW v \in Views(stock), ~Regional(v)
  PROVE  store.market[v].realms \subseteq Nat /\ store.market[v].realms # {}
<1>1. PICK scans : scans = stock
  OBVIOUS
<1>2. store.market = Market(scans) /\ Numbered(scans)
  BY <1>1 DEF UnifiedInv, Loaded
<1>3. v \div 2 \in DOMAIN scans /\ scans[v \div 2] \in Captures
  BY <1>1, <1>2, ViewsOfScans DEF Numbered
<1>4. PICK realm : realm = RealmOf[scans[v \div 2]]
  OBVIOUS
<1>5. PICK time : time = TimeOf[scans[v \div 2]]
  OBVIOUS
<1>6. realm \in Nat
  BY <1>3, <1>4, ObservationConstants
<1>7. store.market[v] = Resolve(realm, time)
  BY <1>1, <1>2, <1>4, <1>5 DEF Market, MarketAt
<1>8. PICK valid : valid = {g \in Groups : /\ realm \in g.realms /\ g.from <= time
                                           /\ g.to = None \/ time < g.to}
  OBVIOUS
<1>9. CASE valid # {}
  <2>1. \E g \in valid : Resolve(realm, time) = [realms |-> g.realms, since |-> g.from]
    BY <1>8, <1>9 DEF Resolve
  <2>2. PICK g \in valid : Resolve(realm, time) = [realms |-> g.realms, since |-> g.from]
    BY <2>1
  <2>3. realm \in g.realms /\ g.realms \subseteq Nat
    BY <1>8, UnifiedConstants
  <2> QED
    BY <1>7, <2>2, <2>3
<1>10. CASE valid = {}
  <2>1. Resolve(realm, time).realms = {realm}
    BY <1>8, <1>10 DEF Resolve
  <2> QED
    BY <1>6, <1>7, <2>1
<1> QED
  BY <1>9, <1>10

\* Current markets can be put in the order of their first realm, as none is there twice.
LEMMA RealmsOrder ==
  ASSUME UnifiedInv, CurrentMarketsOnce, NEW S \in SUBSET store.latest,
         (\A v \in S : ~Regional(v)) \/ \E x : S = {x}
  PROVE  StrictOrder(ByRealm(store.market, S), S)
<1>1. PICK M : M = store.market
  OBVIOUS
<1>2. PICK least : least = [v \in S |-> Min(M[v].realms)]
  OBVIOUS
<1>3. \A v, w \in S : <<v, w>> \in ByRealm(M, S) <=> v # w /\ least[v] < least[w]
  BY <1>2 DEF ByRealm
<1>4. CASE \E x : S = {x}
  BY <1>1, <1>3, <1>4 DEF StrictOrder
<1>5. CASE \A v \in S : ~Regional(v)
  <2>1. S \subseteq Views(stock)
    BY LoadedFinite DEF UnifiedInv, UnifiedTypeOK
  <2>2. ASSUME NEW v \in S
        PROVE  least[v] \in M[v].realms /\ least[v] \in Nat
    <3>1. M[v].realms \subseteq Nat /\ M[v].realms # {}
      BY <1>1, <1>5, <2>1, RealmsNamed
    <3>2. PICK x \in M[v].realms : \A y \in M[v].realms : x <= y
      BY <3>1, HasLeast
    <3>3. Min(M[v].realms) \in M[v].realms
      BY <3>2 DEF Min
    <3> QED
      BY <1>2, <3>1, <3>3
  <2>3. \A v, w \in S : v # w => M[v].realms \cap M[w].realms = {}
    BY <1>1 DEF CurrentMarketsOnce
  <2>4. \A v, w \in S : v # w => least[v] # least[w]
    BY <2>2, <2>3
  <2>5. \A v, w \in S : v # w => least[v] < least[w] \/ least[w] < least[v]
    BY <2>2, <2>4
  <2>6. \A u, v, w \in S : least[u] < least[v] /\ least[v] < least[w]
          => least[u] < least[w] /\ u # w
    BY <2>2
  <2> QED
    BY <1>1, <1>3, <2>5, <2>6 DEF StrictOrder
<1> QED
  BY <1>4, <1>5

\* A finite set of times has a last one.
LEMMA LastOfAll ==
  ASSUME NEW S, IsFiniteSet(S), S # {}, NEW f, \A x \in S : f[x] \in Nat
  PROVE  /\ Max({f[x] : x \in S}) \in Nat
         /\ \A y \in S : f[y] <= Max({f[x] : x \in S})
<1>1. PICK T : T = {f[x] : x \in S}
  OBVIOUS
<1>2. IsFiniteSet({f[x] : x \in S})
  BY ImageSize
<1>3. IsFiniteSet(T) /\ T \subseteq Nat /\ T \subseteq Int /\ T # {}
  BY <1>1, <1>2
<1>4. PICK x \in T : \A y \in T : y <= x
  BY <1>3, HasExtremes
<1>5. Max(T) \in T /\ \A y \in T : y <= Max(T)
  BY <1>4 DEF Max
<1> QED
  BY <1>1, <1>3, <1>5

\* The points of some views, and those of the last views of some windows.
PointsOf(Q, S, key, f) == {Seeing(Q, w, key, f) : w \in S}
\* The points of the last views of a history's windows.
LastPoints(history) ==
  {p \in history.points : p.scan \in {LatestOf(w) : w \in history.windows}}

\* The points that are of some of the views.
LEMMA PointsWithin ==
  ASSUME NEW Q, NEW S, NEW T \in SUBSET S, NEW key, NEW f
  PROVE  {p \in PointsOf(Q, S, key, f) : p.scan \in T} = PointsOf(Q, T, key, f)
<1>1. PICK point : point = [w \in S |-> Seeing(Q, w, key, f)]
  OBVIOUS
<1>2. \A w \in S : point[w].scan = w
  BY <1>1 DEF Seeing
<1>3. PointsOf(Q, S, key, f) = {point[w] : w \in S}
  BY <1>1 DEF PointsOf
<1>4. PointsOf(Q, T, key, f) = {point[w] : w \in T}
  BY <1>1 DEF PointsOf
<1> QED
  BY <1>2, <1>3, <1>4

\* The markets of a merged history, and those of one of its pages.
Relates(v, key, limit, number, related, page) ==
  /\ related = Related(v, key, TRUE) /\ related \subseteq store.latest /\ related # {}
  /\ limit \in Nat \ {0} /\ number \in Nat /\ Page(related, limit, number, page)

\* A page of it ends with these markets.
EndsWith(v, key, f, limit, number, page) ==
  LastPoints(PublicHistory(v, key, TRUE, f, 0, limit, number))
    = PointsOf(store.quotes, page, key, f)

\* A page of a merged history ends with the markets of the page, as they are compared.
LEMMA LastPointsAre ==
  ASSUME UnifiedInv, NEW v, NEW key, NEW f, NEW limit, NEW number, NEW related, NEW page,
         Relates(v, key, limit, number, related, page)
  PROVE  EndsWith(v, key, f, limit, number, page)
<1>1. PICK scans : scans = stock
  OBVIOUS
<1>2. related = Related(v, key, TRUE)
  BY DEF Relates
<1>3. /\ related \in SUBSET store.latest /\ related # {}
      /\ limit \in Nat \ {0} /\ number \in Nat /\ Page(related, limit, number, page)
  BY DEF Relates
<1>4. /\ Numbered(scans) /\ store.scans = scans /\ IsFiniteSet(Views(scans))
      /\ related \in SUBSET Views(scans)
  BY <1>1, <1>3, LoadedFinite DEF UnifiedInv, UnifiedTypeOK
<1>5. PICK time : time = [w \in related |-> TimeOf[scans[w \div 2]]]
  OBVIOUS
<1>6. \A w \in related : time[w] \in Nat
  BY <1>4, <1>5, ViewsOfScans, ObservationConstants DEF Numbered
<1>7. PICK cutoff : cutoff = Max({Time(w) : w \in related})
  OBVIOUS
<1>8. {Time(w) : w \in related} = {time[w] : w \in related}
  BY <1>4, <1>5 DEF Time
<1>9. IsFiniteSet(related)
  BY <1>4, FS_Subset
<1>10. Max({time[w] : w \in related}) \in Nat
       /\ \A w \in related : time[w] <= Max({time[x] : x \in related})
  BY <1>3, <1>6, <1>9, LastOfAll
<1>11. Closes(scans, related, cutoff)
  BY <1>5, <1>7, <1>8, <1>10 DEF Closes
<1>12. PICK W : W = PageWindows(related, key, 0, cutoff, limit, number)
  OBVIOUS
<1>13. Firsts(scans, W) = page
  BY <1>1, <1>3, <1>11, <1>12, LastOfPage
<1>14. PICK chosen : chosen = Select(W, limit)
  OBVIOUS
<1>15. page \subseteq chosen
  <2>1. Best(stock, UNION W, Firsts(stock, W), limit, Select(W, limit))
    BY <1>3, <1>9, <1>12, PageFilled
  <2> QED
    BY <1>1, <1>13, <1>14, <2>1 DEF Best
<1>16. PICK Q : Q = store.quotes
  OBVIOUS
<1>17. PICK points : points = PointsOf(Q, chosen, key, f)
  OBVIOUS
<1>18. PublicHistory(v, key, TRUE, f, 0, limit, number)
         = [points |-> {Observed(w, key, f) : w \in chosen}, windows |-> W]
  BY <1>2, <1>7, <1>12, <1>14 DEF PublicHistory, PageWindows
<1>19. {Observed(w, key, f) : w \in chosen} = points
  BY <1>16, <1>17 DEF Observed, Matching, Seeing, Of, PointsOf
<1>20. PICK history : history = PublicHistory(v, key, TRUE, f, 0, limit, number)
  OBVIOUS
<1>21. history = [points |-> points, windows |-> W]
  BY <1>18, <1>19, <1>20
<1>22. history.points = points /\ history.windows = W
  BY <1>21
<1>23. {LatestOf(w) : w \in W} = page
  BY <1>4, <1>13 DEF LatestOf, Firsts
<1>24. {p \in points : p.scan \in page} = PointsOf(Q, page, key, f)
  BY <1>15, <1>17, PointsWithin
<1>25. LastPoints(history) = {p \in points : p.scan \in page}
  BY <1>22, <1>23 DEF LastPoints
<1> QED
  BY <1>16, <1>20, <1>24, <1>25 DEF EndsWith

\* Parts that make up a whole.
Covers(D, part, S) ==
  (\A d \in D : part[d] \subseteq S) /\ \A v \in S : \E d \in D : v \in part[d]

\* The points of the parts are those of the whole.
LEMMA PointsUnion ==
  ASSUME NEW Q, NEW key, NEW f, NEW D, NEW part, NEW S, Covers(D, part, S)
  PROVE  UNION {PointsOf(Q, part[d], key, f) : d \in D} = PointsOf(Q, S, key, f)
<1>1. PICK point : point = [w \in S |-> Seeing(Q, w, key, f)]
  OBVIOUS
<1>2. PointsOf(Q, S, key, f) = {point[w] : w \in S}
  BY <1>1 DEF PointsOf
<1>3. PICK points : points = [d \in D |-> PointsOf(Q, part[d], key, f)]
  OBVIOUS
<1>4. \A d \in D : points[d] = {point[w] : w \in part[d]}
  BY <1>1, <1>3 DEF PointsOf, Covers
<1>5. UNION {points[d] : d \in D} = {point[w] : w \in S}
  BY <1>4 DEF Covers
<1>6. {PointsOf(Q, part[d], key, f) : d \in D} = {points[d] : d \in D}
  BY <1>3
<1> QED
  BY <1>2, <1>5, <1>6

\* The histories of all pages together.
Merges(v, key, f, limit) ==
  UNION {LastPoints(PublicHistory(v, key, TRUE, f, 0, limit, page)) :
           page \in 1..Cardinality(store.latest)}
    = Compared(store.quotes, store.latest, v, key, f)

\* The histories of all pages end with the markets that are compared.
LEMMA HistoriesMerge ==
  ASSUME UnifiedInv, CurrentMarketsOnce, NEW v \in store.latest, NEW key, NEW f,
         AskedScope(v, key) \in {"region", "realm"},
         AskedScope(v, key) = "region" <=> Regional(v),
         NEW limit \in Nat \ {0}
  PROVE  Merges(v, key, f, limit)
<1>1. PICK L : L = store.latest
  OBVIOUS
<1>2. PICK Q : Q = store.quotes
  OBVIOUS
<1>3. PICK N : N = {u \in L : Regional(u) = Regional(v)}
  OBVIOUS
<1>4. PICK scans : scans = stock
  OBVIOUS
<1>5. Quoted(scans, Q, L, store.market)
  BY <1>1, <1>2, <1>4, LoadQuoted
<1>6. IsFiniteSet(L) /\ \A u, w \in L : Regional(u) /\ Regional(w) => u = w
  BY <1>5 DEF Quoted
<1>7. v \in N /\ N \in SUBSET L
  BY <1>1, <1>3
<1>8. Related(v, key, TRUE) = N
  <2>1. CASE AskedScope(v, key) = "realm"
    <3>1. Related(v, key, TRUE) = {u \in L : ~Regional(u)}
      BY <1>1, <2>1 DEF Related, LatestRealms
    <3>2. ~Regional(v) /\ \A u : Regional(u) \in BOOLEAN
      BY <2>1 DEF Regional
    <3> QED
      BY <1>3, <3>1, <3>2
  <2>2. CASE AskedScope(v, key) = "region"
    <3>1. Related(v, key, TRUE) = {v}
      BY <2>2 DEF Related
    <3>2. Regional(v) /\ \A u : Regional(u) \in BOOLEAN
      BY <2>2 DEF Regional
    <3>3. \A u \in N : u = v
      BY <1>3, <1>6, <1>7, <3>2
    <3> QED
      BY <1>7, <3>1, <3>3
  <2> QED
    BY <2>1, <2>2
<1>9. (\A u \in N : ~Regional(u)) \/ \E x : N = {x}
  <2>1. \A u : Regional(u) \in BOOLEAN
    BY DEF Regional
  <2>2. CASE Regional(v)
    <3>1. \A u \in N : u = v
      BY <1>3, <1>6, <1>7, <2>2
    <3>2. N = {v}
      BY <1>7, <3>1
    <3> QED
      BY <3>2
  <2>3. CASE ~Regional(v)
    BY <1>3, <2>1, <2>3
  <2> QED
    BY <2>2, <2>3
<1>10. IsFiniteSet(N) /\ Cardinality(N) <= Cardinality(L) /\ Cardinality(L) \in Nat
  BY <1>6, <1>7, FS_Subset, FS_CardinalityType
<1>11. StrictOrder(ByRealm(store.market, N), N)
  BY <1>1, <1>7, <1>9, RealmsOrder
<1>12. PICK n : n = Cardinality(L)
  OBVIOUS
<1>13. /\ \A page \in 1..n : OfPage(N, limit, page) \subseteq N
       /\ \A u \in N : \E page \in 1..n : u \in OfPage(N, limit, page)
  BY <1>10, <1>11, <1>12, PagesCover
<1>14. PICK pg : pg = [page \in 1..n |-> OfPage(N, limit, page)]
  OBVIOUS
<1>15. /\ \A page \in 1..n : pg[page] \subseteq N
       /\ \A u \in N : \E page \in 1..n : u \in pg[page]
  BY <1>13, <1>14
<1>16. PICK points : points = [page \in 1..n |->
                                 LastPoints(PublicHistory(v, key, TRUE, f, 0, limit, page))]
  OBVIOUS
<1>17. ASSUME NEW page \in 1..n
       PROVE  points[page] = PointsOf(Q, pg[page], key, f)
  <2>1. Page(N, limit, page, pg[page]) /\ page \in Nat
    BY <1>13, <1>14 DEF Page
  <2>2. LastPoints(PublicHistory(v, key, TRUE, f, 0, limit, page))
          = PointsOf(store.quotes, pg[page], key, f)
    <3>1. PICK part : part = pg[page]
      OBVIOUS
    <3>2. Relates(v, key, limit, page, N, part)
      BY <1>1, <1>7, <1>8, <2>1, <3>1 DEF Relates
    <3>3. LastPoints(PublicHistory(v, key, TRUE, f, 0, limit, page))
            = PointsOf(store.quotes, part, key, f)
      <4>1. EndsWith(v, key, f, limit, page, part)
        BY <3>2, LastPointsAre
      <4> QED
        BY <4>1 DEF EndsWith
    <3> QED
      BY <3>1, <3>3
  <2> QED
    BY <1>2, <1>16, <2>2
<1>18. UNION {points[page] : page \in 1..n} = PointsOf(Q, N, key, f)
  <2>1. Covers(1..n, pg, N)
    BY <1>15 DEF Covers
  <2>2. UNION {PointsOf(Q, pg[page], key, f) : page \in 1..n} = PointsOf(Q, N, key, f)
    BY <2>1, PointsUnion
  <2> QED
    BY <1>17, <2>2
<1>19. Compared(Q, L, v, key, f) = PointsOf(Q, N, key, f)
  BY <1>3 DEF Compared, PointsOf
<1>20. UNION {LastPoints(PublicHistory(v, key, TRUE, f, 0, limit, page)) : page \in 1..n}
         = UNION {points[page] : page \in 1..n}
  BY <1>16
<1> QED
  BY <1>1, <1>2, <1>12, <1>18, <1>19, <1>20 DEF Merges

\* What a row across markets is made of.
GroupOf(scans, B) ==
  LET winner == Winner(scans, B) IN
  [key |-> winner.key, markets |-> {x.scan : x \in B}, winner |-> winner.scan,
   price |-> winner.total.price, buyout |-> Least({x.total.buyout : x \in B}),
   listings |-> SumFunction([x \in B |-> x.total.listings]),
   quantity |-> SumFunction([x \in B |-> x.total.quantity])]

\* The rows across markets: one for each place.
Groupings(scans, Q, L, M, raid, f) ==
  {GroupOf(scans, {x \in Listed(Q, L, raid, f) : Placing(scans, M, x) = b}) :
     b \in {Placing(scans, M, x) : x \in Listed(Q, L, raid, f)}}

\* GroupedItems, in terms of what is loaded.
LEMMA GroupsAre ==
  ASSUME NEW raid, NEW f
  PROVE  GroupedItems(raid, f)
           = Groupings(store.scans, store.quotes, store.latest, store.market, raid, f)
BY DEF GroupedItems, Items, Listed, Observed, Matching, Seeing, Of, Keys, KeysOf, Bucket, Placing,
       ScopeAt, ScopeIn, MakeGroup, GroupOf, Winner, CheaperMarket, Undercuts, After, Groupings

--------------------------------------------------------------------------------
(***************************************************************************)
(* A row across markets, its listings, comparison and history.              *)
(***************************************************************************)

\* A row across markets and the rows of its place.
GroupFrom(scans, Q, L, M, raid, f, row, b, B) ==
  InBucket(scans, Q, L, M, raid, f, b, B) /\ row = GroupOf(scans, B)

\* Each of them is made of the rows of its place.
LEMMA GroupComes ==
  ASSUME NEW scans, NEW Q, NEW L, NEW M, NEW raid, NEW f,
         NEW row \in Groupings(scans, Q, L, M, raid, f)
  PROVE  \E b, B : GroupFrom(scans, Q, L, M, raid, f, row, b, B)
<1>1. PICK X : X = Listed(Q, L, raid, f)
  OBVIOUS
<1>2. PICK g : g = [b \in {Placing(scans, M, x) : x \in X} |-> {x \in X : Placing(scans, M, x) = b}]
  OBVIOUS
<1>3. PICK b \in {Placing(scans, M, x) : x \in X} :
        row = GroupOf(scans, {x \in Listed(Q, L, raid, f) : Placing(scans, M, x) = b})
  BY <1>1 DEF Groupings
<1>4. g[b] = {x \in Listed(Q, L, raid, f) : Placing(scans, M, x) = b}
  BY <1>1, <1>2
<1>5. g[b] # {}
  BY <1>1, <1>2
<1>6. InBucket(scans, Q, L, M, raid, f, b, g[b])
  BY <1>4, <1>5 DEF InBucket
<1> QED
  BY <1>3, <1>4, <1>6 DEF GroupFrom

\* The listings behind the rows of a place are its item's, in the markets of the place.
LEMMA BehindMarkets ==
  ASSUME NEW scans, NEW Q, NEW L, NEW f, NEW B, NEW w, NEW V, InMarkets(scans, Q, L, f, B, w, V)
  PROVE  Behind(Q, B, f) = UNION {Records(Q, v, w.key, f) : v \in V}
<1>1. PICK key : key = w.key
  OBVIOUS
<1>2. PICK s : s = [v \in V |-> Seeing(Q, v, key, f)]
  OBVIOUS
<1>3. PICK t : t = [v \in V |-> Records(Q, v, key, f)]
  OBVIOUS
<1>4. \A v \in V : s[v].scan = v /\ s[v].key = key
  BY <1>2 DEF Seeing
<1>5. B = {s[v] : v \in V}
  BY <1>1, <1>2 DEF InMarkets
<1>6. \A v \in V : Records(Q, s[v].scan, s[v].key, f) = t[v]
  BY <1>3, <1>4
<1>7. {Records(Q, x.scan, x.key, f) : x \in B} = {t[v] : v \in V}
  <2>1. PICK u : u = [x \in B |-> Records(Q, x.scan, x.key, f)]
    OBVIOUS
  <2>2. \A v \in V : s[v] \in B /\ u[s[v]] = t[v]
    BY <1>5, <1>6, <2>1
  <2>3. \A x \in B : \E v \in V : x = s[v] /\ u[x] = t[v]
    BY <1>5, <2>2
  <2>4. {u[x] : x \in B} = {t[v] : v \in V}
    <3> HIDE <1>2, <1>3, <2>1
    <3> QED
      BY <2>2, <2>3
  <2> QED
    BY <2>1, <2>4
<1>8. {Records(Q, v, key, f) : v \in V} = {t[v] : v \in V}
  BY <1>3
<1> QED
  BY <1>1, <1>7, <1>8 DEF Behind

\* What listings returns for a row's winner.
ListsPieces(v, key, f, V, pieces) ==
  Listings(v, key, TRUE, f) = [markets |-> V, items |-> Sorted(pieces, ByPiece(pieces))]

\* listings, asked about the row's winner, lists what is behind the rows of its place.
LEMMA ListingsAre ==
  ASSUME NEW scans, scans = store.scans, NEW Q, Q = store.quotes, NEW L, L = store.latest,
         NEW w, NEW f, NEW V, NEW B, InMarkets(scans, Q, L, f, B, w, V), w.key \in Keys(w.scan)
  PROVE  ListsPieces(w.scan, w.key, f, V, Behind(Q, B, f))
<1>1. PICK v : v = w.scan
  OBVIOUS
<1>2. PICK key : key = w.key
  OBVIOUS
<1>3. PICK pieces : pieces = Behind(Q, B, f)
  OBVIOUS
<1>4. pieces = UNION {Records(Q, u, key, f) : u \in V}
  BY <1>2, <1>3, BehindMarkets
<1> DEFINE Result(S, R) ==
             [markets |-> S,
              items |-> Sorted(R, {p \in R \X R :
                \/ Dearer(p[2].row.price, p[1].row.price)
                \/ /\ p[1].row.price = p[2].row.price
                   /\ \/ p[1].scan < p[2].scan
                      \/ p[1].scan = p[2].scan /\ p[1].row.index < p[2].row.index})]
           shown == IF ScopeIn(scans, v, key) = "realm"
                    THEN {u \in {x \in store.latest : ~Regional(x)} :
                            /\ Of(store.quotes, u, key, f) # {}
                            /\ ScopeIn(scans, u, key) = "realm"}
                    ELSE {v}
<1>5. Listings(v, key, TRUE, f)
        = Result(shown, UNION {{[scan |-> u, row |-> r] : r \in Of(store.quotes, u, key, f)} :
                                 u \in shown})
  BY <1>1, <1>2 DEF Listings, AskedScope, ScopeAt, ScopeIn, LatestRealms, Matching, Of
<1>6. shown = V
  BY <1>1, <1>2 DEF InMarkets
<1>7. UNION {{[scan |-> u, row |-> r] : r \in Of(store.quotes, u, key, f)} : u \in V} = pieces
  BY <1>4 DEF Records
<1>8. Listings(v, key, TRUE, f) = Result(V, pieces)
  <2> HIDE DEF Result, shown
  <2> QED
    BY <1>5, <1>6, <1>7
<1>9. Result(V, pieces) = [markets |-> V, items |-> Sorted(pieces, ByPiece(pieces))]
  BY DEF ByPiece, Ahead
<1> HIDE DEF Result, shown
<1> QED
  BY <1>1, <1>2, <1>3, <1>8, <1>9 DEF ListsPieces

\* compare, in terms of what is loaded.
LEMMA CompareIs ==
  ASSUME NEW v, NEW key, NEW f
  PROVE  Compare(v, key, f) = Compared(store.quotes, store.latest, v, key, f)
BY DEF Compare, Observed, Matching, Compared, Seeing, Of

\* A row across markets says of its markets, prices, listings and quantity what its
\* comparison, its listings and its merged history say.
LEMMA EveryGroupAgrees ==
  ASSUME UnifiedInv, CurrentMarketsOnce, NEW raid \in BOOLEAN, NEW f,
         NEW row \in GroupedItems(raid, f)
  PROVE  GroupAgrees(row, f)
<1>1. PICK scans : scans = stock
  OBVIOUS
<1>2. PICK Q : Q = store.quotes
  OBVIOUS
<1>3. PICK L : L = store.latest
  OBVIOUS
<1>4. PICK M : M = store.market
  OBVIOUS
<1>5. Quoted(scans, Q, L, M) /\ store.scans = scans
  BY <1>1, <1>2, <1>3, <1>4, LoadQuoted, LoadedFinite
<1>6. row \in Groupings(scans, Q, L, M, raid, f)
  BY <1>2, <1>3, <1>4, <1>5, GroupsAre
<1>7. \E b, B : GroupFrom(scans, Q, L, M, raid, f, row, b, B)
  BY <1>6, GroupComes
<1>8. PICK b, B : GroupFrom(scans, Q, L, M, raid, f, row, b, B)
  BY <1>7
<1>9. InBucket(scans, Q, L, M, raid, f, b, B) /\ row = GroupOf(scans, B)
  BY <1>8 DEF GroupFrom
<1>10. PICK w : w = Winner(scans, B)
  OBVIOUS
<1>11. w \in B
  BY <1>5, <1>9, <1>10, WinnerIs
<1>12. PICK V : V = {x.scan : x \in B}
  OBVIOUS
<1>13. PICK units : units = SumFunction([x \in B |-> x.total.quantity])
  OBVIOUS
<1>14. PICK number : number = SumFunction([x \in B |-> x.total.listings])
  OBVIOUS
<1>15. /\ row.key = w.key /\ row.winner = w.scan /\ row.markets = V
       /\ row.price = w.total.price /\ row.listings = number /\ row.quantity = units
  BY <1>9, <1>10, <1>12, <1>13, <1>14 DEF GroupOf
<1>16. InMarkets(scans, Q, L, f, B, w, V)
  BY <1>5, <1>9, <1>11, <1>12, BucketMarkets
<1>17. PICK v : v = w.scan
  OBVIOUS
<1>18. PICK key : key = w.key
  OBVIOUS
<1>19. v \in L /\ Of(Q, v, key, f) # {}
  <2>1. Alike(scans, Q, L, M, f, B, w)
    BY <1>5, <1>9, <1>11, BucketIs
  <2> QED
    BY <1>11, <1>17, <1>18, <2>1 DEF Alike
<1>20. /\ ScopeIn(scans, v, key) \in {"region", "realm", "unknown"}
       /\ ScopeIn(scans, v, key) = "region" <=> Regional(v)
       /\ key \in Keys(v) /\ AskedScope(v, key) = ScopeIn(scans, v, key)
  <2>1. /\ ScopeIn(scans, v, key) \in {"region", "realm", "unknown"}
        /\ ScopeIn(scans, v, key) = "region" <=> Regional(v)
        /\ key \in KeysOf(Q, v)
    BY <1>5, <1>19, ScopeIs
  <2>2. key \in Keys(v)
    BY <1>2, <2>1 DEF Keys, KeysOf
  <2> QED
    BY <1>5, <2>1, <2>2 DEF AskedScope, ScopeAt, ScopeIn
<1>21. PICK pieces : pieces = Behind(Q, B, f)
  OBVIOUS
<1>22. PICK items : items = Sorted(pieces, ByPiece(pieces))
  OBVIOUS
<1>23. Listings(v, key, TRUE, f) = [markets |-> V, items |-> items]
  <2>1. ListsPieces(v, key, f, V, pieces)
    BY <1>2, <1>3, <1>5, <1>16, <1>17, <1>18, <1>20, <1>21, ListingsAre
  <2> QED
    BY <1>22, <2>1 DEF ListsPieces
<1>24. Len(items) = number /\ items[1].row.price = w.total.price
  BY <1>5, <1>9, <1>10, <1>14, <1>21, <1>22, FirstPiece
<1>25. PICK C : C = Compared(Q, L, v, key, f)
  OBVIOUS
<1>26. Compare(v, key, f) = C
  BY <1>2, <1>3, <1>25, CompareIs
<1>27. PICK ofScope : ofScope = {x \in Seen(C) : ScopeIn(scans, x.scan, key) = ScopeIn(scans, v, key)}
  OBVIOUS
<1>35. ASSUME ScopeIn(scans, v, key) # "unknown"
       PROVE  /\ {x.scan : x \in ofScope} = V
              /\ SumFunction([x \in ofScope |-> x.total.quantity]) = units
  <2>1. {x \in C : /\ x.total.listings > 0
                   /\ ScopeIn(scans, x.scan, key) = ScopeIn(scans, v, key)} = B
    BY <1>5, <1>9, <1>11, <1>17, <1>18, <1>25, <1>35, ComparedIs
  <2>2. ofScope = B
    BY <1>27, <2>1 DEF Seen
  <2> QED
    BY <1>12, <1>13, <2>2
<1>28. ASSUME ScopeIn(scans, v, key) # "unknown", NEW limit \in HistoryLimits
       PROVE  UNION {LastPoints(PublicHistory(v, key, TRUE, f, 0, limit, page)) :
                       page \in 1..Cardinality(store.latest)} = C
  <2>1. limit \in Nat \ {0}
    BY MarketsConstants
  <2>2. ScopeIn(scans, v, key) \in {"region", "realm"} /\ v \in store.latest
    BY <1>3, <1>19, <1>20, <1>28
  <2>3. Merges(v, key, f, limit)
    BY <1>20, <2>1, <2>2, HistoriesMerge
  <2> QED
    BY <1>2, <1>3, <1>25, <2>3 DEF Merges
<1>29. /\ row.winner = v /\ row.key = key /\ row.markets = V /\ row.listings = number
       /\ row.quantity = units /\ row.price = w.total.price
  BY <1>15, <1>17, <1>18
<1>30. GroupAgrees(row, f) <=>
         LET listings == Listings(v, key, TRUE, f)
             seen == Seen(Compare(v, key, f))
             same == {x \in seen : ScopeIn(scans, x.scan, key) = ScopeIn(scans, v, key)}
         IN  /\ Len(listings.items) = number /\ listings.markets = V
             /\ listings.items[1].row.price = w.total.price
             /\ ScopeIn(scans, v, key) # "unknown" =>
                  /\ {x.scan : x \in same} = V
                  /\ SumFunction([x \in same |-> x.total.quantity]) = units
                  /\ \A limit \in HistoryLimits :
                       Seen(UNION {LastPoints(PublicHistory(v, key, TRUE, f, 0, limit, page)) :
                                     page \in 1..Cardinality(store.latest)}) = seen
  BY <1>5, <1>29 DEF GroupAgrees, LastPoints, ScopeAt, ScopeIn
<1>31. PICK listings : listings = Listings(v, key, TRUE, f)
  OBVIOUS
<1>32. listings.items = items /\ listings.markets = V
  <2>1. listings = [markets |-> V, items |-> items]
    BY <1>23, <1>31
  <2> QED
    BY <2>1
<1>33. ASSUME ScopeIn(scans, v, key) # "unknown", NEW limit \in HistoryLimits
       PROVE  Seen(UNION {LastPoints(PublicHistory(v, key, TRUE, f, 0, limit, page)) :
                            page \in 1..Cardinality(store.latest)}) = Seen(C)
  BY <1>28, <1>33
<1>34. /\ Len(listings.items) = number /\ listings.markets = V
       /\ listings.items[1].row.price = w.total.price
  BY <1>24, <1>32
<1> QED
  BY <1>26, <1>27, <1>30, <1>31, <1>33, <1>34, <1>35

\* Two groups are one if their winners are the same row.
LEMMA GroupsDiffer ==
  ASSUME NEW scans, NEW Q, NEW L, NEW M, Quoted(scans, Q, L, M), NEW raid \in BOOLEAN, NEW f,
         NEW row, NEW a, NEW A, GroupFrom(scans, Q, L, M, raid, f, row, a, A),
         NEW b, NEW B, GroupFrom(scans, Q, L, M, raid, f, row, b, B)
  PROVE  A = B
<1>1. PICK v : v = Winner(scans, A)
  OBVIOUS
<1>2. PICK w : w = Winner(scans, B)
  OBVIOUS
<1>3. /\ InBucket(scans, Q, L, M, raid, f, a, A) /\ row = GroupOf(scans, A)
      /\ InBucket(scans, Q, L, M, raid, f, b, B) /\ row = GroupOf(scans, B)
  BY DEF GroupFrom
<1>4. v \in A /\ w \in B
  BY <1>1, <1>2, <1>3, WinnerIs
<1>5. row.key = v.key /\ row.winner = v.scan
  BY <1>1, <1>3 DEF GroupOf
<1>6. row.key = w.key /\ row.winner = w.scan
  BY <1>2, <1>3 DEF GroupOf
<1>7. v \in Listed(Q, L, raid, f) /\ w \in Listed(Q, L, raid, f)
  BY <1>3, <1>4 DEF InBucket
<1>8. v = Seeing(Q, v.scan, v.key, f) /\ w = Seeing(Q, w.scan, w.key, f)
  BY <1>7, ListedIs
<1>9. v = w
  <2>1. v.scan = w.scan /\ v.key = w.key
    BY <1>5, <1>6
  <2> QED
    BY <1>8, <2>1
<1>10. Placing(scans, M, v) = a /\ Placing(scans, M, w) = b
  BY <1>3, <1>4 DEF InBucket
<1> QED
  BY <1>3, <1>9, <1>10 DEF InBucket

\* Neither raid items nor one difficulty: everything.
Everything(raid, f) == ~raid /\ f = None

\* All listings, by scan.
LEMMA CountedByScan ==
  ASSUME NEW scans, NEW Q, NEW L, NEW M, Quoted(scans, Q, L, M),
         NEW raid \in BOOLEAN, NEW f, Everything(raid, f)
  PROVE  Cardinality(Behind(Q, Listed(Q, L, raid, f), f))
           = SumFunction([v \in L |-> Cardinality(Q[v])])
<1>1. PICK X : X = Listed(Q, L, raid, f)
  OBVIOUS
<1>2. PICK R : R = Behind(Q, X, f)
  OBVIOUS
<1>3. IsFiniteSet(R) /\ IsFiniteSet(L)
  BY <1>1, <1>2, BehindFinite DEF Quoted
<1>4. PICK kind : kind = [q \in R |-> q.scan]
  OBVIOUS
<1>5. /\ \A q \in R : /\ q = [scan |-> q.scan, row |-> q.row] /\ q.scan \in L
                      /\ q.row \in Of(Q, q.scan, KeyOf(q.row), f)
      /\ \A x \in X : \A r \in Of(Q, x.scan, x.key, f) : [scan |-> x.scan, row |-> r] \in R
  BY <1>1, <1>2, BehindIs
<1>6. \A v \in L : \A key : Of(Q, v, key, f) # {} => Seeing(Q, v, key, f) \in X
  BY <1>1, ListedIs DEF Everything
<1>7. ASSUME NEW v \in L
      PROVE  Cardinality({q \in R : kind[q] = v}) = Cardinality(Q[v])
  <2>1. PICK T : T = {[scan |-> v, row |-> r] : r \in Q[v]}
    OBVIOUS
  <2>2. ASSUME NEW q \in R, kind[q] = v
        PROVE  q \in T
    <3>1. q.scan = v /\ q.row \in Q[v] /\ q = [scan |-> v, row |-> q.row]
      BY <1>4, <1>5, <2>2 DEF Of
    <3> QED
      BY <2>1, <3>1
  <2>3. ASSUME NEW r \in Q[v]
        PROVE  [scan |-> v, row |-> r] \in R /\ kind[[scan |-> v, row |-> r]] = v
    <3>1. r \in Of(Q, v, KeyOf(r), f)
      BY DEF Of, Everything
    <3>2. PICK x : x = Seeing(Q, v, KeyOf(r), f)
      OBVIOUS
    <3>3. x \in X /\ x.scan = v /\ x.key = KeyOf(r)
      <4>1. x \in X
        BY <1>6, <3>1, <3>2
      <4>2. x.scan = v /\ x.key = KeyOf(r)
        BY <3>2 DEF Seeing
      <4> QED
        BY <4>1, <4>2
    <3>4. [scan |-> v, row |-> r] \in R
      BY <1>5, <3>1, <3>3
    <3> QED
      BY <1>4, <3>4
  <2>4. {q \in R : kind[q] = v} = T
    BY <2>1, <2>2, <2>3
  <2>5. IsFiniteSet(Q[v])
    BY DEF Quoted
  <2>6. Cardinality({[scan |-> v, row |-> r] : r \in Q[v]}) = Cardinality(Q[v])
    BY <2>5, TaggedCounted
  <2> QED
    BY <2>1, <2>4, <2>6
<1>8. PICK n : n = [v \in L |-> Cardinality({q \in R : kind[q] = v})]
  OBVIOUS
<1>9. \A q \in R : kind[q] \in L
  BY <1>4, <1>5
<1>10. SumFunction(n) = Cardinality(R)
  BY <1>3, <1>8, <1>9, SumOfCounts
<1>11. n = [v \in L |-> Cardinality(Q[v])]
  BY <1>7, <1>8
<1> QED
  BY <1>1, <1>2, <1>10, <1>11

\* All listings, by group.
LEMMA CountedByGroup ==
  ASSUME NEW scans, NEW Q, NEW L, NEW M, Quoted(scans, Q, L, M), NEW raid \in BOOLEAN, NEW f
  PROVE  Cardinality(Behind(Q, Listed(Q, L, raid, f), f))
           = SumFunction([row \in Groupings(scans, Q, L, M, raid, f) |-> row.listings])
<1>1. PICK X : X = Listed(Q, L, raid, f)
  OBVIOUS
<1>2. PICK R : R = Behind(Q, X, f)
  OBVIOUS
<1>3. PICK G : G = Groupings(scans, Q, L, M, raid, f)
  OBVIOUS
<1>4. PICK of : of = [x \in X |-> {y \in X : Placing(scans, M, y) = Placing(scans, M, x)}]
  OBVIOUS
<1>5. PICK group : group = [x \in X |-> GroupOf(scans, of[x])]
  OBVIOUS
<1>6. ASSUME NEW x \in X
      PROVE  x \in of[x] /\ GroupFrom(scans, Q, L, M, raid, f, group[x], Placing(scans, M, x), of[x])
  <2>1. x \in of[x] /\ of[x] = {y \in X : Placing(scans, M, y) = Placing(scans, M, x)}
    BY <1>4
  <2> QED
    BY <1>1, <1>5, <2>1 DEF GroupFrom, InBucket
<1>7. G = {group[x] : x \in X}
  <2>1. G = {GroupOf(scans, {y \in X : Placing(scans, M, y) = b}) : b \in {Placing(scans, M, x) : x \in X}}
    BY <1>1, <1>3 DEF Groupings
  <2>2. \A x \in X : group[x] = GroupOf(scans, {y \in X : Placing(scans, M, y) = Placing(scans, M, x)})
    BY <1>4, <1>5
  <2> QED
    BY <2>1, <2>2
<1>8. IsFiniteSet(X) /\ IsFiniteSet(R)
  BY <1>1, <1>2, BehindFinite
<1>9. IsFiniteSet(G)
  BY <1>7, <1>8, ImageSize
<1>10. PICK row : row = [q \in R |-> Seeing(Q, q.scan, KeyOf(q.row), f)]
  OBVIOUS
<1>11. /\ \A q \in R : row[q] \in X /\ q \in Records(Q, q.scan, KeyOf(q.row), f)
  <2>1. \A q \in R : /\ q = [scan |-> q.scan, row |-> q.row]
                     /\ Seeing(Q, q.scan, KeyOf(q.row), f) \in X
                     /\ q.row \in Of(Q, q.scan, KeyOf(q.row), f)
    BY <1>1, <1>2, BehindIs
  <2> QED
    BY <1>10, <2>1 DEF Records
<1>12. PICK kind : kind = [q \in R |-> group[row[q]]]
  OBVIOUS
<1>13. \A q \in R : kind[q] \in G
  BY <1>7, <1>11, <1>12
<1>14. ASSUME NEW x \in X
       PROVE  Cardinality({q \in R : kind[q] = group[x]}) = group[x].listings
  <2>1. PICK B : B = of[x]
    OBVIOUS
  <2>2. PICK g : g = group[x]
    OBVIOUS
  <2>3. PICK b : b = Placing(scans, M, x)
    OBVIOUS
  <2>4. GroupFrom(scans, Q, L, M, raid, f, g, b, B)
    BY <1>6, <2>1, <2>2, <2>3
  <2>5. B \in SUBSET X /\ B \in SUBSET Listed(Q, L, raid, f)
    BY <1>1, <1>4, <2>1
  <2>6. PICK T : T = Behind(Q, B, f)
    OBVIOUS
  <2>7. ASSUME NEW q \in R, kind[q] = g
        PROVE  q \in T
    <3>1. row[q] \in X /\ group[row[q]] = g
      BY <1>11, <1>12, <2>7
    <3>2. PICK y : y = row[q]
      OBVIOUS
    <3>3. y \in of[y] /\ GroupFrom(scans, Q, L, M, raid, f, g, Placing(scans, M, y), of[y])
      BY <1>6, <3>1, <3>2
    <3>4. of[y] = B
      BY <2>4, <3>3, GroupsDiffer
    <3>5. y = Seeing(Q, q.scan, KeyOf(q.row), f)
      BY <1>10, <3>2
    <3>6. y.scan = q.scan /\ y.key = KeyOf(q.row)
      BY <3>5 DEF Seeing
    <3>7. q \in Records(Q, y.scan, y.key, f)
      BY <1>11, <3>6
    <3> QED
      BY <2>6, <3>3, <3>4, <3>7 DEF Behind
  <2>8. ASSUME NEW q \in T
        PROVE  q \in R /\ kind[q] = g
    <3>1. q \in R
      BY <1>2, <2>5, <2>6, <2>8 DEF Behind
    <3>2. row[q] \in B
      <4>1. Seeing(Q, q.scan, KeyOf(q.row), f) \in B
        BY <2>5, <2>6, BehindIs
      <4> QED
        BY <1>10, <3>1, <4>1
    <3>3. Placing(scans, M, row[q]) = Placing(scans, M, x)
      BY <1>4, <2>1, <3>2
    <3>4. of[row[q]] = of[x]
      BY <1>4, <2>5, <3>2, <3>3
    <3> QED
      BY <1>5, <1>12, <2>2, <2>5, <3>1, <3>2, <3>4
  <2>9. {q \in R : kind[q] = g} = T
    BY <1>2, <2>7, <2>8
  <2>10. SumFunction([y \in B |-> y.total.listings]) = Cardinality(T)
    BY <2>5, <2>6, ListingsAddUp
  <2>11. g = GroupOf(scans, B)
    BY <2>4 DEF GroupFrom
  <2>12. GroupOf(scans, B).listings = SumFunction([y \in B |-> y.total.listings])
    BY DEF GroupOf
  <2> QED
    BY <2>2, <2>9, <2>10, <2>11, <2>12
<1>15. PICK n : n = [g \in G |-> Cardinality({q \in R : kind[q] = g})]
  OBVIOUS
<1>16. SumFunction(n) = Cardinality(R)
  BY <1>8, <1>9, <1>13, <1>15, SumOfCounts
<1>17. \A g \in G : Cardinality({q \in R : kind[q] = g}) = g.listings
  BY <1>7, <1>14
<1>18. n = [g \in G |-> g.listings]
  BY <1>15, <1>17
<1> QED
  BY <1>1, <1>2, <1>3, <1>16, <1>18

(***************************************************************************)
(* The unified backend's pages never contradict one another: each row       *)
(* across markets has the markets, price and numbers that its comparison,   *)
(* its listings and the last points of its merged history give for the      *)
(* item, and the rows' listings add up to what the status page counts       *)
(* (unified.py items, compare, listings, history and status, between any    *)
(* two loads).                                                              *)
(***************************************************************************)
THEOREM UnifiedAnswersAlwaysAgree == Spec => []UnifiedAnswersAgree
<1>1. UnifiedInv /\ CurrentMarketsOnce => UnifiedAnswersAgree
  <2> SUFFICES ASSUME UnifiedInv, CurrentMarketsOnce PROVE UnifiedAnswersAgree
    OBVIOUS
  <2>1. ASSUME NEW f, NEW row \in GroupedItems(f # None, f)
        PROVE  GroupAgrees(row, f)
    <3>1. PICK raid \in BOOLEAN : raid = (f # None)
      OBVIOUS
    <3>2. row \in GroupedItems(raid, f)
      BY <3>1
    <3> QED
      BY <3>2, EveryGroupAgrees
  <2>2. Status.listings = SumFunction([row \in GroupedItems(FALSE, None) |-> row.listings])
    <3>1. PICK scans : scans = stock
      OBVIOUS
    <3>2. PICK Q : Q = store.quotes
      OBVIOUS
    <3>3. PICK L : L = store.latest
      OBVIOUS
    <3>4. PICK M : M = store.market
      OBVIOUS
    <3>5. PICK raid \in BOOLEAN : raid = FALSE
      OBVIOUS
    <3>6. PICK f : f = None
      OBVIOUS
    <3>7. Everything(raid, f)
      BY <3>5, <3>6 DEF Everything
    <3>8. Quoted(scans, Q, L, M) /\ store.scans = scans
      BY <3>1, <3>2, <3>3, <3>4, LoadQuoted, LoadedFinite
    <3>9. PICK G : G = Groupings(scans, Q, L, M, raid, f)
      OBVIOUS
    <3>10. GroupedItems(FALSE, None) = G
      BY <3>5, <3>6, <3>2, <3>3, <3>4, <3>8, <3>9, GroupsAre
    <3>11. PICK all : all = Behind(Q, Listed(Q, L, raid, f), f)
      OBVIOUS
    <3>12. Cardinality(all) = SumFunction([v \in L |-> Cardinality(Q[v])])
      BY <3>8, <3>11, <3>7, CountedByScan
    <3>13. Cardinality(all) = SumFunction([row \in G |-> row.listings])
      BY <3>8, <3>9, <3>11, CountedByGroup
    <3>14. Status.listings = SumFunction([v \in L |-> Cardinality(Q[v])])
      BY <3>2, <3>3 DEF Status
    <3> QED
      BY <3>10, <3>12, <3>13, <3>14
  <2> QED
    BY <2>1, <2>2 DEF UnifiedAnswersAgree
<1>2. MarketsInv => UnifiedInv
  BY DEF MarketsInv
<1> QED
  BY <1>1, <1>2, MarketsInvariant, CurrentMarketsAlwaysOnce, PTL

--------------------------------------------------------------------------------
(***************************************************************************)
(* The legacy backend: only validated scans are in its tables.              *)
(***************************************************************************)

\* Only validated scans are stored, or about to be (auction_importer.py:448).
VettedBy(p) ==
  importer[p].at \in {"scans", "commit"} =>
    Sound(importer[p].file) /\ \A i \in DOMAIN importer[p].fresh : Valid(importer[p].fresh[i])
Vetted ==
  (\A i \in DOMAIN db.scans : Valid(db.scans[i])) /\ \A p \in Importers : VettedBy(p)

\* An importer that is left alone.
LEMMA VetStays ==
  ASSUME NEW p \in Importers, VettedBy(p), importer'[p] = importer[p]
  PROVE  VettedBy(p)'
BY DEF VettedBy, Sound, Valid, Legal

\* Where no transaction goes on and nothing else is stored it stays so.
LEMMA VetKept ==
  ASSUME Vetted, \A i \in DOMAIN db'.scans : Valid(db'.scans[i]),
         \A p \in Importers :
           importer'[p] = importer[p] \/ importer'[p].at \notin {"scans", "commit"}
  PROVE  Vetted'
<1>1. ASSUME NEW p \in Importers
      PROVE  VettedBy(p)'
  <2>1. CASE importer'[p] = importer[p]
    BY <2>1, VetStays DEF Vetted
  <2>2. CASE importer'[p].at \notin {"scans", "commit"}
    BY <2>2 DEF VettedBy
  <2> QED
    BY <2>1, <2>2
<1>2. \A i \in DOMAIN db'.scans : Valid(db.scans[i])'
  BY DEF Valid, Legal
<1> QED
  BY <1>1, <1>2 DEF Vetted

\* One importer leaves its transaction, or has none.
LEMMA VetLeft ==
  ASSUME LegacyInv, Vetted, db'.scans = db.scans, NEW p \in Importers, NEW r,
         importer' = [importer EXCEPT ![p] = r], r.at \notin {"scans", "commit"}
  PROVE  Vetted'
<1>1. \A q \in Importers : importer'[q] = importer[q] \/ importer'[q].at \notin {"scans", "commit"}
  BY Moved DEF LegacyInv, Shaped
<1>2. \A i \in DOMAIN db'.scans : Valid(db'.scans[i])
  BY DEF Vetted
<1> QED
  BY <1>1, <1>2, VetKept

\* The end of an import.
LEMMA VetEnds ==
  ASSUME LegacyInv, Vetted, db'.scans = db.scans, NEW p \in Importers,
         NEW status \in Ended, End(p, status)
  PROVE  Vetted'
<1>1. PICK r : r = IF p = "task" THEN [at |-> status, file |-> importer[p].file] ELSE Off
  OBVIOUS
<1>2. r.at \notin {"scans", "commit"}
  BY <1>1 DEF Off, Ended
<1>3. importer' = [importer EXCEPT ![p] = r]
  BY <1>1 DEF End, LegacyInv, Shaped
<1> QED
  BY <1>2, <1>3, VetLeft

\* An importer that holds only its file goes to a place outside its transaction.
LEMMA VetPlaced ==
  ASSUME LegacyInv, Vetted, db'.scans = db.scans, NEW p \in Importers, NEW place, Step(p, place),
         place \notin {"scans", "commit"},
         importer[p].at \in {"posting", "queued", "lock", "tables", "check", "begin"} \cup Ended
  PROVE  Vetted'
<1>1. /\ importer'[p] = [at |-> place, file |-> importer[p].file]
      /\ \A q \in Importers : q # p => importer'[q] = importer[q]
  BY Plain, Stepped DEF LegacyInv
<1>2. \A q \in Importers : importer'[q] = importer[q] \/ importer'[q].at \notin {"scans", "commit"}
  BY <1>1
<1>3. \A i \in DOMAIN db'.scans : Valid(db'.scans[i])
  BY DEF Vetted
<1> QED
  BY <1>2, <1>3, VetKept

\* A scan is read: the file is sound, and with it the scan.
LEMMA VetReads ==
  ASSUME LegacyInv, Vetted, NEW p \in Importers, ImportScan(p)
  PROVE  Vetted'
<1>1. CASE ~({"scans", "facts"} \subseteq db.tables)
  BY <1>1, VetEnds DEF ImportScan, Ended
<1>2. CASE {"scans", "facts"} \subseteq db.tables
  <2>1. PICK t : t = importer[p]
    OBVIOUS
  <2>2. PICK all : all = CapturesIn[t.file]
    OBVIOUS
  <2>3. PICK c : c = all[t.number]
    OBVIOUS
  <2>4. t.at = "scans" /\ t.file \in LuaFiles /\ Transaction(p)
    BY <2>1, Busy DEF ImportScan, LegacyInv, Transactions
  <2>5. all \in Seq(Captures) /\ Sound(t.file) /\ \A i \in DOMAIN t.fresh : Valid(t.fresh[i])
    BY <2>1, <2>2, <2>4, LegacyConstants DEF Vetted, VettedBy
  <2>6. t.number \in DOMAIN all
    BY <2>1, <2>2, <2>4, <2>5 DEF Transaction
  <2>7. Valid(c)
    BY <2>2, <2>3, <2>5, <2>6 DEF Sound
  <2>8. PICK f : f = IF Known(p, c) THEN t.fresh ELSE With(t.fresh, db.next, c)
    OBVIOUS
  <2>9. \A i \in DOMAIN f : Valid(f[i])
    BY <2>5, <2>7, <2>8 DEF With
  <2>10. /\ importer'[p].file = t.file /\ importer'[p].fresh = f
         /\ \A q \in Importers : q # p => importer'[q] = importer[q]
    <3>1. PICK r : r = [at |-> IF t.number = Len(all) THEN "commit" ELSE "scans", file |-> t.file,
                        number |-> t.number + 1, uses |-> Tables, fresh |-> f]
      OBVIOUS
    <3>2. r.file = t.file /\ r.fresh = f
      BY <3>1
    <3>3. importer' = [importer EXCEPT ![p] = r]
      BY <1>2, <2>1, <2>2, <2>3, <2>8, <3>1 DEF ImportScan
    <3> QED
      BY <3>2, <3>3, Moved DEF LegacyInv, Shaped
  <2>11. db'.scans = db.scans
    BY <1>2 DEF ImportScan, LegacyInv, Shaped
  <2>12. VettedBy(p)'
    BY <2>5, <2>9, <2>10 DEF VettedBy, Sound, Valid, Legal
  <2>13. \A q \in Importers : q # p => VettedBy(q)'
    BY <2>10, VetStays DEF Vetted
  <2>14. \A i \in DOMAIN db'.scans : Valid(db.scans[i])'
    BY <2>11 DEF Vetted, Valid, Legal
  <2> QED
    BY <2>12, <2>13, <2>14 DEF Vetted
<1> QED
  BY <1>1, <1>2

\* The transaction begins with nothing, for a file that was validated before.
LEMMA VetBegins ==
  ASSUME LegacyInv, Vetted, NEW p \in Importers, BeginImport(p)
  PROVE  Vetted'
<1>1. CASE "snapshots" \notin db.tables
  BY <1>1, VetEnds DEF BeginImport, Ended
<1>2. CASE "snapshots" \in db.tables
  <2>1. PICK f : f = importer[p].file
    OBVIOUS
  <2>2. Sound(f) /\ db' = db
    BY <1>2, <2>1 DEF BeginImport, LegacyInv, Shaped
  <2>3. /\ importer'[p].file = f /\ importer'[p].fresh = <<>>
        /\ \A q \in Importers : q # p => importer'[q] = importer[q]
    <3>1. PICK r : r = [at |-> "scans", file |-> f, number |-> 1, fresh |-> <<>>,
                        uses |-> {"snapshots"}]
      OBVIOUS
    <3>2. r.file = f /\ r.fresh = <<>>
      BY <3>1
    <3>3. importer' = [importer EXCEPT ![p] = r]
      BY <1>2, <2>1, <3>1 DEF BeginImport
    <3> QED
      BY <3>2, <3>3, Moved DEF LegacyInv, Shaped
  <2>4. VettedBy(p)'
    BY <2>2, <2>3 DEF VettedBy, Sound, Valid, Legal
  <2>5. \A q \in Importers : q # p => VettedBy(q)'
    BY <2>3, VetStays DEF Vetted
  <2>6. \A i \in DOMAIN db'.scans : Valid(db.scans[i])'
    BY <2>2 DEF Vetted, Valid, Legal
  <2> QED
    BY <2>4, <2>5, <2>6 DEF Vetted
<1> QED
  BY <1>1, <1>2

\* What is committed was validated.
LEMMA VetCommits ==
  ASSUME LegacyInv, Vetted, NEW p \in Importers, Commit(p)
  PROVE  Vetted'
<1>1. PICK t : t = importer[p]
  OBVIOUS
<1>2. t.at = "commit" /\ \A i \in DOMAIN t.fresh : Valid(t.fresh[i])
  BY <1>1 DEF Commit, Vetted, VettedBy
<1>3. PICK s : s = Joined(t.fresh, db.scans)
  OBVIOUS
<1>4. \A i \in DOMAIN s : Valid(s[i])
  BY <1>2, <1>3 DEF Joined, Vetted
<1>5. db'.scans = s
  BY <1>1, <1>3 DEF Commit, LegacyInv, Shaped
<1>6. \A q \in Importers : importer'[q] = importer[q] \/ importer'[q].at \notin {"scans", "commit"}
  <2>1. t = [at |-> "commit", file |-> t.file, number |-> t.number, fresh |-> t.fresh,
             uses |-> t.uses]
    BY <1>1, <1>2, Open DEF LegacyInv
  <2>2. importer' = [importer EXCEPT ![p].at = "done"] /\ DOMAIN importer = Importers
    BY DEF Commit, Step, LegacyInv, Shaped
  <2>3. /\ importer'[p] = [t EXCEPT !.at = "done"]
        /\ \A q \in Importers : q # p => importer'[q] = importer[q]
    BY <1>1, <2>2
  <2>4. importer'[p].at = "done"
    BY <2>1, <2>3
  <2> QED
    BY <2>3, <2>4
<1> QED
  BY <1>4, <1>5, <1>6, VetKept

(***************************************************************************)
(* No scan is in the tables that the validation refused, whatever imports,  *)
(* resets and restarts come between (auction_importer.py:165-252).          *)
(***************************************************************************)
LEMMA VetSteps ==
  ASSUME LegacyInv, Vetted, LegacyNext \/ UNCHANGED legacyVars
  PROVE  Vetted'
<1>1. \A i \in DOMAIN db.scans : Valid(db.scans[i])
  BY DEF Vetted
<1>2. CASE UNCHANGED legacyVars
  BY <1>1, <1>2, VetKept DEF legacyVars
<1>3. ASSUME NEW f \in LuaFiles, Post(f) \/ RunCommand(f)
      PROVE  Vetted'
  <2>1. db' = db /\ {"task", "command"} \subseteq Importers
    BY <1>3 DEF Post, RunCommand, Importers
  <2>2. PICK r : r = [at |-> "posting", file |-> f]
    OBVIOUS
  <2>3. PICK s : s = [at |-> "lock", file |-> f]
    OBVIOUS
  <2>4. r.at = "posting" /\ s.at = "lock"
    BY <2>2, <2>3
  <2>5. \/ importer' = [importer EXCEPT !["task"] = r]
        \/ importer' = [importer EXCEPT !["command"] = s]
    BY <1>3, <2>2, <2>3 DEF Post, RunCommand
  <2> QED
    BY <2>1, <2>4, <2>5, VetLeft
<1>4. CASE Queue \/ Start \/ Conclude
  <2>1. /\ "task" \in Importers /\ db' = db
        /\ importer["task"].at \in {"posting", "queued"} \cup Ended
        /\ Step("task", "queued") \/ Step("task", "lock") \/ Step("task", "release")
    BY <1>4 DEF Queue, Start, Conclude, Importers
  <2> QED
    BY <2>1, VetPlaced
<1>5. CASE ReleaseLock
  <2>1. "task" \in Importers /\ db' = db /\ Off.at \notin {"scans", "commit"}
    BY <1>5 DEF ReleaseLock, Importers, Off
  <2>2. importer' = [importer EXCEPT !["task"] = Off]
    BY <1>5 DEF ReleaseLock
  <2> QED
    BY <2>1, <2>2, VetLeft
<1>6. ASSUME NEW p \in Importers, LockDatabase(p) \/ CreateTables(p) \/ CheckFile(p)
      PROVE  Vetted'
  <2>1. importer[p].at \in {"lock", "tables", "check"}
    BY <1>6 DEF LockDatabase, CreateTables, CheckFile
  <2>2. db'.scans = db.scans
    BY <1>6 DEF LockDatabase, CreateTables, CheckFile, LegacyInv, Shaped
  <2>3. \/ Step(p, "tables") \/ Step(p, "check") \/ Step(p, "done") \/ Step(p, "begin")
        \/ End(p, "error")
    BY <1>6 DEF LockDatabase, CreateTables, CheckFile
  <2> QED
    BY <2>1, <2>2, <2>3, VetPlaced, VetEnds DEF Ended
<1>7. ASSUME NEW p \in Importers, Finished(p) \/ Raises(p)
      PROVE  Vetted'
  BY <1>7, VetEnds DEF Finished, Raises, Ended
<1>8. ASSUME NEW p \in Importers, BeginImport(p) \/ ImportScan(p) \/ Commit(p)
      PROVE  Vetted'
  BY <1>8, VetBegins, VetReads, VetCommits
<1>9. ASSUME NEW t \in Tables, Drop(t)
      PROVE  Vetted'
  <2>1. importer' = importer /\ (db' = db \/ db' = Emptied(t))
    BY <1>9 DEF Drop
  <2>2. db'.scans = db.scans \/ db'.scans = <<>>
    BY <2>1 DEF Emptied, LegacyInv, Shaped
  <2>3. \A i \in DOMAIN db'.scans : Valid(db'.scans[i])
    BY <1>1, <2>2
  <2> QED
    BY <2>1, <2>3, VetKept
<1>10. CASE ResetStart \/ ResetCreate \/ ResetFails
  <2>1. importer' = importer /\ db'.scans = db.scans
    BY <1>10 DEF ResetStart, ResetCreate, ResetFails, LegacyInv, Shaped
  <2> QED
    BY <1>1, <2>1, VetKept
<1>11. CASE Restart
  <2>1. "task" \in Importers /\ db'.scans = db.scans
    BY <1>11 DEF Restart, Importers, LegacyInv, Shaped
  <2>2. importer' = [importer EXCEPT !["task"] = Off] /\ Off.at \notin {"scans", "commit"}
    BY <1>11 DEF Restart, Off
  <2> QED
    BY <2>1, <2>2, VetLeft
<1> QED
  BY <1>2, <1>3, <1>4, <1>6, <1>7, <1>8, <1>9, <1>10, <1>11, <1>5 DEF LegacyNext

(***************************************************************************)
(* In every state of the legacy backend each stored scan passed             *)
(* validate_snapshot (auction_importer.py:448), as did what an open         *)
(* transaction is about to store, whatever imports of files that share      *)
(* scans, failures, resets and restarts come between.                       *)
(***************************************************************************)
THEOREM ScansAlwaysVetted == Spec => []Vetted
<1>1. Init => Vetted
  BY DEF Init, LegacyInit, Vetted, VettedBy, Off
<1>2. MarketsInv /\ Vetted /\ [Next]_vars => Vetted'
  <2> SUFFICES ASSUME MarketsInv, Vetted, [Next]_vars PROVE Vetted'
    OBVIOUS
  <2>1. LegacyNext \/ UNCHANGED legacyVars
    BY DEF Next, vars
  <2> QED
    BY <2>1, VetSteps DEF MarketsInv
<1> QED
  BY <1>1, <1>2, MarketsInvariant, PTL DEF Spec

--------------------------------------------------------------------------------
(***************************************************************************)
(* The rows stored of a scan, and the cheapest of them.                     *)
(***************************************************************************)

\* The rows stored of a scan.
StoredRows(c) == {ListingMapping(r) : r \in Rows[c]}

\* What stored rows are like.
Piled(F) ==
  /\ IsFiniteSet(F)
  /\ \A r \in F : r.price \in Prices /\ r.buyout \in Nat /\ r.index \in Int /\ r.creature \in Nat
  /\ \A r, s \in F : r.index = s.index => r = s

\* The order of a scan's listings.
ByCost(F) == {p \in F \X F : Cheaper(p[1], p[2])}

\* What is stored of a row.
LEMMA RowStored ==
  ASSUME NEW c \in Captures, Valid(c), NEW r \in Rows[c], NEW s, s = ListingMapping(r)
  PROVE  /\ s.index = r.index /\ s.item = r.item /\ s.creature = r.creature /\ s.link = r.link
         /\ s.buyout = r.buyout /\ s.index \in Int /\ s.creature \in Nat /\ s.buyout \in Nat
         /\ s.price = IF r.buyout > 0 THEN PerPiece(r.buyout, r.quantity) ELSE None
         /\ r.buyout > 0 => PerPiece(r.buyout, r.quantity) \in Nat
<1>1. /\ r.index \in Int /\ r.quantity \in Nat \ {0} /\ r.buyout \in Nat /\ r.creature \in Nat
  BY ObservationConstants DEF Valid, Legal
<1>2. /\ s.index = r.index /\ s.item = r.item /\ s.creature = r.creature /\ s.link = r.link
      /\ s.buyout = r.buyout
      /\ s.price = IF r.buyout > 0 THEN PerPiece(r.buyout, r.quantity) ELSE None
  BY DEF ListingMapping
<1>3. ASSUME r.buyout > 0
      PROVE  PerPiece(r.buyout, r.quantity) \in Nat
  BY <1>1, <1>3, Quotient DEF PerPiece
<1> QED
  BY <1>1, <1>2, <1>3

\* The rows stored of a valid scan are like that.
LEMMA StoredPiled ==
  ASSUME NEW c \in Captures, Valid(c)
  PROVE  Piled(StoredRows(c))
<1>1. PICK f : f = [r \in Rows[c] |-> ListingMapping(r)]
  OBVIOUS
<1>2. StoredRows(c) = {f[r] : r \in Rows[c]}
  BY <1>1 DEF StoredRows
<1>3. ASSUME NEW r \in Rows[c]
      PROVE  /\ f[r].index = r.index /\ f[r].index \in Int /\ f[r].creature \in Nat
             /\ f[r].buyout \in Nat /\ f[r].price \in Prices
  <2>1. f[r] = ListingMapping(r)
    BY <1>1
  <2> QED
    BY <2>1, RowStored DEF Prices
<1>4. IsFiniteSet({f[r] : r \in Rows[c]})
  BY ImageSize, ObservationConstants
<1>5. \A r, s \in Rows[c] : r.index = s.index => r = s
  BY ObservationConstants
<1> QED
  BY <1>2, <1>3, <1>4, <1>5 DEF Piled

\* Stored rows can be ordered: two have different indices.
LEMMA CostOrders ==
  ASSUME NEW F, Piled(F), NEW A \in SUBSET F
  PROVE  StrictOrder(ByCost(F), A)
<1>1. PICK pr : pr = [r \in F |-> r.price]
  OBVIOUS
<1>2. PICK bo : bo = [r \in F |-> r.buyout]
  OBVIOUS
<1>3. PICK ix : ix = [r \in F |-> r.index]
  OBVIOUS
<1>4. \A x, y \in F : <<x, y>> \in ByCost(F) <=>
        \/ Dearer(pr[y], pr[x])
        \/ pr[x] = pr[y] /\ (bo[x] < bo[y] \/ (bo[x] = bo[y] /\ ix[x] < ix[y]))
  BY <1>1, <1>2, <1>3 DEF ByCost, Cheaper
<1>5. \A x \in F : pr[x] \in Prices /\ bo[x] \in Nat /\ ix[x] \in Int
  BY <1>1, <1>2, <1>3 DEF Piled
<1>6. \A x, y \in F : ix[x] = ix[y] => x = y
  BY <1>3 DEF Piled
<1>7. \A x \in F : <<x, x>> \notin ByCost(F)
  BY <1>4, <1>5, DearerOrders
<1>8. ASSUME NEW x \in F, NEW y \in F
      PROVE  x = y \/ <<x, y>> \in ByCost(F) \/ <<y, x>> \in ByCost(F)
  <2>1. CASE pr[x] # pr[y]
    BY <1>4, <1>5, <2>1, DearerOrders
  <2>2. CASE pr[x] = pr[y]
    BY <1>4, <1>5, <1>6, <2>2
  <2> QED
    BY <2>1, <2>2
<1>9. ASSUME NEW x \in F, NEW y \in F, NEW z \in F, <<x, y>> \in ByCost(F), <<y, z>> \in ByCost(F)
      PROVE  <<x, z>> \in ByCost(F)
  <2>1. CASE Dearer(pr[y], pr[x]) \/ Dearer(pr[z], pr[y])
    BY <1>4, <1>5, <1>9, <2>1, DearerOrders
  <2>2. CASE ~Dearer(pr[y], pr[x]) /\ ~Dearer(pr[z], pr[y])
    <3>1. /\ pr[x] = pr[y] /\ (bo[x] < bo[y] \/ (bo[x] = bo[y] /\ ix[x] < ix[y]))
          /\ pr[y] = pr[z] /\ (bo[y] < bo[z] \/ (bo[y] = bo[z] /\ ix[y] < ix[z]))
      BY <1>4, <1>9, <2>2
    <3>2. bo[x] < bo[z] \/ (bo[x] = bo[z] /\ ix[x] < ix[z])
      BY <1>5, <3>1
    <3> QED
      BY <1>4, <3>1, <3>2
  <2> QED
    BY <2>1, <2>2
<1> QED
  BY <1>7, <1>8, <1>9 DEF StrictOrder

\* The listings of an item in order: as many as there are, and the first has the least price.
LEMMA CheapestFirst ==
  ASSUME NEW F, Piled(F), NEW A \in SUBSET F, A # {}, NEW q, q = Sorted(A, ByCost(F))
  PROVE  Len(q) = Cardinality(A) /\ q[1].price = Least({r.price : r \in A})
<1>1. IsFiniteSet(A) /\ StrictOrder(ByCost(F), A)
  BY FS_Subset, CostOrders DEF Piled
<1>2. /\ q \in Seq(A) /\ Len(q) = Cardinality(A) /\ Cardinality(A) \in Nat
      /\ \A x \in A : \E n \in 1..Len(q) : q[n] = x
      /\ \A m, n \in 1..Len(q) : m < n => <<q[m], q[n]>> \in ByCost(F)
  BY <1>1, SortedIs
<1>3. PICK w : w = q[1]
  OBVIOUS
<1>4. 1 \in 1..Len(q) /\ w \in A
  <2>1. PICK x \in A : TRUE
    OBVIOUS
  <2>2. PICK n \in 1..Len(q) : q[n] = x
    BY <1>2
  <2>3. 1 \in 1..Len(q)
    BY <1>2, <2>2
  <2> QED
    BY <1>2, <1>3, <2>3
<1>5. \A r \in A : r.price \in Prices
  BY DEF Piled
<1>6. ASSUME NEW r \in A
      PROVE  ~Dearer(w.price, r.price)
  <2>1. PICK n \in 1..Len(q) : q[n] = r
    BY <1>2
  <2>2. n = 1 \/ 1 < n
    BY <1>2
  <2>3. w = r \/ <<w, r>> \in ByCost(F)
    BY <1>2, <1>3, <1>4, <2>1, <2>2
  <2>4. w = r \/ Cheaper(w, r)
    BY <2>3 DEF ByCost
  <2> QED
    BY <1>4, <1>5, <2>4, DearerOrders DEF Cheaper
<1>7. PICK P : P = {r.price : r \in A}
  OBVIOUS
<1>8. PICK least : least = Least(P)
  OBVIOUS
<1>9. P \in SUBSET Prices /\ w.price \in P /\ \A p \in P : ~Dearer(w.price, p)
  BY <1>4, <1>5, <1>6, <1>7
<1>10. /\ least \in Prices /\ (least # None => least \in P) /\ \A p \in P : ~Dearer(least, p)
  BY <1>8, <1>9, LeastIs
<1>11. w.price = least
  <2>1. ~Dearer(least, w.price)
    BY <1>9, <1>10
  <2>2. CASE least # None
    BY <1>9, <1>10, <2>1, <2>2, DearerOrders
  <2>3. CASE least = None
    BY <1>9, <2>1, <2>3, ObservationConstants DEF Dearer
  <2> QED
    BY <2>2, <2>3
<1> QED
  BY <1>2, <1>3, <1>7, <1>8, <1>11

--------------------------------------------------------------------------------
(***************************************************************************)
(* A row of a list and what its own page is asked with.                     *)
(***************************************************************************)

\* The tables between two resets: each scan is valid and has its rows.
Held ==
  /\ DOMAIN db.scans \subseteq Nat /\ IsFiniteSet(DOMAIN db.scans) /\ db.facts = DOMAIN db.scans
  /\ \A i \in DOMAIN db.scans : db.scans[i] \in Captures /\ Valid(db.scans[i])

\* That is how they are unless a reset runs or was cut short.
LEMMA HeldBetween ==
  ASSUME LegacyInv, Vetted, reset.at = "idle", ~torn
  PROVE  Held
<1>1. /\ DOMAIN db.scans \subseteq Nat /\ db.facts = DOMAIN db.scans /\ db.next \in Nat
      /\ \A i \in DOMAIN db.scans : db.scans[i] \in Captures /\ Valid(db.scans[i]) /\ i < db.next
  BY DEF LegacyInv, LegacyTypeOK, Tabled, Whole, Vetted
<1>2. IsFiniteSet(DOMAIN db.scans)
  <2>1. \A i \in DOMAIN db.scans : i <= db.next
    BY <1>1
  <2> QED
    BY <1>1, <2>1, FS_BoundedSetOfNaturals
<1> QED
  BY <1>1, <1>2 DEF Held

\* What is stored of an offered scan.
LEMMA FactsAre ==
  ASSUME Held, NEW i \in Offered
  PROVE  /\ db.scans[i] \in Captures /\ Valid(db.scans[i])
         /\ Facts(i) = StoredRows(db.scans[i]) /\ StoredKinds(i) = Kinds(db.scans[i])
         /\ Piled(Facts(i))
<1>1. db.scans[i] \in Captures /\ Valid(db.scans[i]) /\ i \in db.facts
  BY DEF Held, Offered
<1>2. Facts(i) = StoredRows(db.scans[i]) /\ StoredKinds(i) = Kinds(db.scans[i])
  BY <1>1 DEF Facts, StoredKinds, StoredRows
<1> QED
  BY <1>1, <1>2, StoredPiled

\* A row of a list shows the number and the least price of the listings it is asked for with,
\* and is the only point its scan has in its history.
Shown(i, row) ==
  LET A == Asked(Facts(i), row)
  IN  /\ A # {} /\ Cardinality(A) = row.total.listings
      /\ Least({r.price : r \in A}) = row.total.price
      /\ PointsAt(i, row) = {row.total}

\* A row is called by its parts.
LEMMA RowParts ==
  ASSUME NEW i, NEW item, NEW creature, NEW context, NEW pet, NEW total,
         NEW row, row = Row(i, item, creature, context, pet, total)
  PROVE  /\ row.item = item /\ row.creature = creature /\ row.context = context
         /\ row.pet = pet /\ row.total = total /\ row.scope = ScopeOf[db.scans[i]][item]
BY DEF Row

\* Rows as one, for a pet its variants counted as one.
LEMMA TotalParts ==
  ASSUME NEW A, NEW t, t = Total(A) \/ t = [Total(A) EXCEPT !.variants = 1]
  PROVE  t.listings = Cardinality(A) /\ t.price = Least({r.price : r \in A})
<1>1. PICK n : n = Cardinality(A)
  OBVIOUS
<1>2. PICK p : p = Least({r.price : r \in A})
  OBVIOUS
<1>3. PICK u : u = Total(A)
  OBVIOUS
<1>4. u = [listings |-> n, variants |-> u.variants, quantity |-> u.quantity, price |-> p,
           buyout |-> u.buyout]
  BY <1>1, <1>2, <1>3 DEF Total
<1>5. [u EXCEPT !.variants = 1] = [listings |-> n, variants |-> 1, quantity |-> u.quantity,
                                   price |-> p, buyout |-> u.buyout]
  BY <1>4
<1> QED
  BY <1>1, <1>2, <1>3, <1>4, <1>5

\* The summary of an item that is no pet is of the rows stored of it.
LEMMA SummaryParts ==
  ASSUME NEW c \in Captures, Valid(c), NEW item,
         NEW A, A = {s \in StoredRows(c) : s.item = item},
         \A s \in A : s.creature = 0
  PROVE  /\ Summary(c, item, 0).listings = Cardinality(A)
         /\ Summary(c, item, 0).price = Least({s.price : s \in A})
<1>1. PICK R : R = {r \in Rows[c] : r.item = item /\ r.creature = 0}
  OBVIOUS
<1>2. PICK f : f = [r \in R |-> ListingMapping(r)]
  OBVIOUS
<1>3. ASSUME NEW r \in R
      PROVE  /\ f[r].index = r.index /\ f[r].item = item
             /\ f[r].price = IF r.buyout > 0 THEN PerPiece(r.buyout, r.quantity) ELSE None
             /\ r.buyout > 0 => PerPiece(r.buyout, r.quantity) \in Nat
             /\ r.buyout \in Nat
  <2>1. r \in Rows[c] /\ f[r] = ListingMapping(r) /\ r.item = item
    BY <1>1, <1>2
  <2> QED
    BY <2>1, RowStored
<1>4. A = {f[r] : r \in R}
  <2>1. ASSUME NEW r \in Rows[c]
        PROVE  ListingMapping(r).item = r.item /\ ListingMapping(r).creature = r.creature
    BY RowStored
  <2> QED
    BY <1>1, <1>2, <2>1 DEF StoredRows
<1>5. Cardinality(A) = Cardinality(R)
  <2>1. IsFiniteSet(R)
    <3>1. R \in SUBSET Rows[c] /\ IsFiniteSet(Rows[c])
      BY <1>1, ObservationConstants
    <3> QED
      BY <3>1, FS_Subset
  <2>2. \A r, s \in R : f[r] = f[s] => r = s
    <3>1. \A r, s \in R : r.index = s.index => r = s
      BY <1>1, ObservationConstants
    <3> QED
      BY <1>3, <3>1
  <2>3. Cardinality({f[r] : r \in R}) = Cardinality(R)
    BY <2>1, <2>2, ImageSize
  <2> QED
    BY <1>4, <2>3
<1>6. PICK P : P = {PerPiece(r.buyout, r.quantity) : r \in {r \in R : r.buyout > 0}}
  OBVIOUS
<1>7. PICK N : N = {s.price : s \in A}
  OBVIOUS
<1>8. N \ {None} = P \ {None}
  <2>1. N = {f[r].price : r \in R}
    BY <1>4, <1>7
  <2>2. ASSUME NEW x \in N \ {None} PROVE x \in P
    BY <1>3, <1>6, <2>1
  <2>3. ASSUME NEW x \in P PROVE x \in N
    BY <1>3, <1>6, <2>1
  <2> QED
    BY <2>2, <2>3
<1>9. Least(N) = Least(P)
  BY <1>8 DEF Least
<1>10. Summary(c, item, 0).listings = Cardinality(R) /\ Summary(c, item, 0).price = Least(P)
  BY <1>1, <1>6 DEF Summary
<1> QED
  BY <1>5, <1>7, <1>9, <1>10

\* The row of an item that is no pet.
LEMMA PlainShown ==
  ASSUME Held, NEW i \in Offered, NEW k \in StoredKinds(i), k[2] = 0,
         ~\E r \in PetsOf(i) : r.item = k[1],
         NEW row, row = Row(i, k[1], None, None, None, Summary(db.scans[i], k[1], k[2]))
  PROVE  Shown(i, row)
<1>1. PICK c : c = db.scans[i]
  OBVIOUS
<1>2. c \in Captures /\ Valid(c) /\ Facts(i) = StoredRows(c) /\ StoredKinds(i) = Kinds(c)
  BY <1>1, FactsAre
<1>3. PICK item : item = k[1]
  OBVIOUS
<1>4. PICK A : A = {s \in Facts(i) : s.item = item}
  OBVIOUS
<1>5. /\ row.item = item /\ row.creature = None /\ row.context = None /\ row.pet = None
      /\ row.total = Summary(c, item, 0)
  BY <1>1, <1>3, RowParts
<1>6. Asked(Facts(i), row) = A
  BY <1>4, <1>5 DEF Asked
<1>7. \A s \in A : s.creature = 0
  BY <1>3, <1>4 DEF PetsOf
<1>8. row.total.listings = Cardinality(A) /\ row.total.price = Least({s.price : s \in A})
  <2>1. A = {s \in StoredRows(c) : s.item = item}
    BY <1>2, <1>4
  <2>2. /\ Summary(c, item, 0).listings = Cardinality(A)
        /\ Summary(c, item, 0).price = Least({s.price : s \in A})
    BY <1>2, <1>7, <2>1, SummaryParts
  <2> QED
    BY <1>5, <2>2
<1>9. k = <<item, 0>>
  BY <1>2, <1>3 DEF Kinds
<1>10. A # {}
  <2>1. PICK r \in Rows[c] : <<r.item, r.creature>> = k
    BY <1>2 DEF Kinds
  <2>2. ListingMapping(r) \in Facts(i) /\ ListingMapping(r).item = item
    BY <1>2, <1>9, <2>1, RowStored DEF StoredRows
  <2> QED
    BY <1>4, <2>2
<1>11. PointsAt(i, row) = {row.total}
  BY <1>1, <1>5, <1>9 DEF PointsAt
<1> QED
  BY <1>6, <1>8, <1>10, <1>11 DEF Shown

\* A link names a variant of a pet or "unknown".
LEMMA VariantNamed == \A r : PetVariantKey(r) # None
BY LegacyConstants DEF PetVariantKey

\* The row of a variant of a pet.
LEMMA PetShown ==
  ASSUME Held, NEW i \in Offered, NEW r \in PetsOf(i),
         NEW T, T = {s \in PetsOf(i) : /\ s.item = r.item /\ s.creature = r.creature
                                       /\ PetVariantKey(s) = PetVariantKey(r)},
         NEW row,
         row = Row(i, r.item, r.creature, None, PetVariantKey(r), [Total(T) EXCEPT !.variants = 1])
  PROVE  Shown(i, row)
<1>1. PICK total : total = [Total(T) EXCEPT !.variants = 1]
  OBVIOUS
<1>2. /\ row.item = r.item /\ row.creature = r.creature /\ row.context = None
      /\ row.pet = PetVariantKey(r) /\ row.total = total
  BY <1>1, RowParts
<1>3. r.creature # 0 /\ r.creature # None /\ PetVariantKey(r) # None /\ Piled(Facts(i))
  BY FactsAre, VariantNamed, ObservationConstants DEF PetsOf, Piled
<1>4. Asked(Facts(i), row) = T
  BY <1>2, <1>3 DEF Asked, PetsOf
<1>5. r \in T
  OBVIOUS
<1>6. total.listings = Cardinality(T) /\ total.price = Least({s.price : s \in T})
  BY <1>1, TotalParts
<1>7. PointsAt(i, row) = {total}
  BY <1>1, <1>2, <1>3, <1>4, <1>5 DEF PointsAt
<1> QED
  BY <1>2, <1>4, <1>5, <1>6, <1>7 DEF Shown

\* The row of a raid item's difficulty.
LEMMA RaidShown ==
  ASSUME Held, NEW i \in Offered, NEW row \in RaidRows(i), row.context # None
  PROVE  Shown(i, row) /\ row.item \in RaidItems /\ row.creature = None /\ row.pet = None
<1>1. PICK F : F = Facts(i)
  OBVIOUS
<1>2. PICK r \in F : /\ r.item \in RaidItems
                     /\ row = Row(i, r.item, None, ContextOf[r.link], None,
                                  Total({s \in {q \in F : q.item \in RaidItems} :
                                     s.item = r.item /\ ContextOf[s.link] = ContextOf[r.link]}))
  BY <1>1 DEF RaidRows
<1>3. PICK T : T = {s \in F : s.item = r.item /\ ContextOf[s.link] = ContextOf[r.link]}
  OBVIOUS
<1>4. T = {s \in {q \in F : q.item \in RaidItems} :
             s.item = r.item /\ ContextOf[s.link] = ContextOf[r.link]}
  BY <1>2, <1>3
<1>5. /\ row.item = r.item /\ row.creature = None /\ row.context = ContextOf[r.link]
      /\ row.pet = None /\ row.total = Total(T)
  BY <1>2, <1>4, RowParts
<1>6. Asked(F, row) = T
  BY <1>3, <1>5 DEF Asked
<1>7. r \in T
  BY <1>3
<1>8. Total(T).listings = Cardinality(T) /\ Total(T).price = Least({s.price : s \in T})
  BY TotalParts
<1>9. PointsAt(i, row) = {Total(T)}
  BY <1>1, <1>5, <1>6, <1>7 DEF PointsAt
<1> QED
  BY <1>1, <1>2, <1>5, <1>6, <1>7, <1>8, <1>9 DEF Shown

--------------------------------------------------------------------------------
(***************************************************************************)
(* Histories: a scan's own point comes last, but for those of its second.   *)
(***************************************************************************)

\* Scans are ordered by time, and by number those of the same time.
LEMMA LaterOrders ==
  ASSUME Held
  PROVE  /\ \A i, j \in Offered : i = j \/ Later(i, j) \/ Later(j, i)
         /\ \A i, j \in Offered : Later(i, j) => ~Later(j, i) /\ i # j
         /\ \A i, j, k \in Offered : Later(i, j) /\ Later(j, k) => Later(i, k)
<1>1. PICK w : w = [i \in Offered |-> When(i)]
  OBVIOUS
<1>2. \A i \in Offered : w[i] \in Nat /\ i \in Nat
  BY <1>1, ObservationConstants DEF Held, Offered, When
<1>3. \A i, j \in Offered : Later(i, j) <=> w[i] > w[j] \/ (w[i] = w[j] /\ i > j)
  BY <1>1 DEF Later
<1> QED
  BY <1>2, <1>3

\* A scan has at most one point in a history.
LEMMA PointOnce ==
  ASSUME NEW i, NEW row, NEW t \in PointsAt(i, row), NEW u \in PointsAt(i, row)
  PROVE  t = u
BY DEF PointsAt

\* The points of a history and their order, the oldest first.
Trail(i, row) ==
  UNION {{[scan |-> j, total |-> t] : t \in PointsAt(j, row)} : j \in HistoryScans(i)}
Earlier(P) == {p \in P \X P : Later(p[2].scan, p[1].scan)}

\* Each is of another scan.
LEMMA TrailIs ==
  ASSUME Held, NEW i \in Offered, NEW row, NEW P, P = Trail(i, row)
  PROVE  /\ IsFiniteSet(P)
         /\ \A p \in P : p.scan \in HistoryScans(i)
         /\ \A t \in PointsAt(i, row) : [scan |-> i, total |-> t] \in P
         /\ \A p, q \in P : p.scan = q.scan => p = q
<1>1. PICK H : H = HistoryScans(i)
  OBVIOUS
<1>2. PICK pts : pts = [j \in H |-> PointsAt(j, row)]
  OBVIOUS
<1>3. P = UNION {{[scan |-> j, total |-> t] : t \in pts[j]} : j \in H}
  BY <1>1, <1>2 DEF Trail
<1>4. \A j \in H : \A t, u \in pts[j] : t = u
  BY <1>2, PointOnce
<1>5. i \in H /\ H \in SUBSET Offered /\ IsFiniteSet(H)
  <2>1. When(i) <= When(i)
    BY ObservationConstants DEF Held, Offered, When
  <2>2. i \in H /\ H \in SUBSET Offered
    BY <1>1, <2>1 DEF HistoryScans
  <2> QED
    BY <2>2, FS_Subset DEF Held, Offered
<1>6. \A p \in P : /\ p.scan \in H /\ p.total \in pts[p.scan]
                   /\ p = [scan |-> p.scan, total |-> p.total]
  BY <1>3
<1>7. IsFiniteSet(P)
  <2>1. PICK D : D = {j \in H : pts[j] # {}}
    OBVIOUS
  <2>2. PICK g : g = [j \in D |-> [scan |-> j, total |-> CHOOSE t \in pts[j] : TRUE]]
    OBVIOUS
  <2>3. P = {g[j] : j \in D}
    <3>1. ASSUME NEW j \in D
          PROVE  \E t \in pts[j] : g[j] = [scan |-> j, total |-> t]
      BY <2>1, <2>2
    <3>2. ASSUME NEW j \in D
          PROVE  g[j] \in P
      <4>1. PICK t \in pts[j] : g[j] = [scan |-> j, total |-> t]
        BY <3>1
      <4>2. j \in H
        BY <2>1
      <4>3. g[j] \in {[scan |-> j, total |-> u] : u \in pts[j]}
        BY <4>1
      <4> QED
        BY <1>3, <4>2, <4>3
    <3>3. ASSUME NEW p \in P
          PROVE  \E j \in D : p = g[j]
      <4>1. p.scan \in D
        BY <1>6, <2>1
      <4>2. PICK t \in pts[p.scan] : g[p.scan] = [scan |-> p.scan, total |-> t]
        BY <3>1, <4>1
      <4>3. t = p.total
        BY <1>4, <1>6
      <4> QED
        BY <1>6, <4>1, <4>2, <4>3
    <3> QED
      BY <3>2, <3>3
  <2>4. IsFiniteSet(D)
    BY <1>5, <2>1, FS_Subset
  <2>5. IsFiniteSet({g[j] : j \in D})
    BY <2>4, ImageSize
  <2> QED
    BY <2>3, <2>5
<1>8. \A p, q \in P : p.scan = q.scan => p = q
  BY <1>4, <1>6
<1>9. \A t \in PointsAt(i, row) : [scan |-> i, total |-> t] \in P
  BY <1>2, <1>3, <1>5
<1> QED
  BY <1>1, <1>6, <1>7, <1>8, <1>9

\* The history in order has the scan's own point, and after it only points of the same second.
LEMMA HistoryShows ==
  ASSUME Held, NEW i \in Offered, NEW row, NEW t \in PointsAt(i, row),
         NEW history, history = ItemHistory(i, row)
  PROVE  /\ \A n \in 1..Len(history) : Realm(history[n].scan) = Realm(i)
         /\ \E n \in 1..Len(history) :
              /\ history[n] = [scan |-> i, total |-> t]
              /\ \A m \in n + 1..Len(history) : When(history[m].scan) = When(i)
<1>1. PICK P : P = Trail(i, row)
  OBVIOUS
<1>2. PICK R : R = Earlier(P)
  OBVIOUS
<1>3. history = Sorted(P, R)
  BY <1>1, <1>2 DEF ItemHistory, Trail, Earlier
<1>4. /\ IsFiniteSet(P) /\ \A p \in P : p.scan \in HistoryScans(i)
      /\ [scan |-> i, total |-> t] \in P
      /\ \A p, q \in P : p.scan = q.scan => p = q
  BY <1>1, TrailIs
<1>5. \A p \in P : p.scan \in Offered /\ Realm(p.scan) = Realm(i) /\ When(p.scan) <= When(i)
  BY <1>4 DEF HistoryScans
<1>6. \A p, q \in P : <<p, q>> \in R <=> Later(q.scan, p.scan)
  BY <1>2 DEF Earlier
<1>7. StrictOrder(R, P)
  <2>1. \A p \in P : <<p, p>> \notin R
    BY <1>5, <1>6, LaterOrders
  <2>2. \A p, q \in P : p = q \/ <<p, q>> \in R \/ <<q, p>> \in R
    BY <1>4, <1>5, <1>6, LaterOrders
  <2>3. \A p, q, s \in P : <<p, q>> \in R /\ <<q, s>> \in R => <<p, s>> \in R
    BY <1>5, <1>6, LaterOrders
  <2> QED
    BY <2>1, <2>2, <2>3 DEF StrictOrder
<1>8. /\ history \in Seq(P) /\ Len(history) \in Nat
      /\ \A x \in P : \E n \in 1..Len(history) : history[n] = x
      /\ \A m, n \in 1..Len(history) : m < n => <<history[m], history[n]>> \in R
  BY <1>3, <1>4, <1>7, SortedIs
<1>9. \A n \in 1..Len(history) : history[n] \in P
  BY <1>8
<1>10. PICK n \in 1..Len(history) : history[n] = [scan |-> i, total |-> t]
  BY <1>4, <1>8
<1>11. history[n].scan = i
  BY <1>10
<1>12. ASSUME NEW m \in n + 1..Len(history)
       PROVE  When(history[m].scan) = When(i)
  <2>1. m \in 1..Len(history) /\ n < m
    BY <1>8
  <2>2. Later(history[m].scan, i)
    BY <1>6, <1>8, <1>9, <1>11, <2>1
  <2>3. PICK j \in Offered : j = history[m].scan /\ When(j) <= When(i)
    BY <1>5, <1>9, <2>1
  <2>4. When(j) \in Nat /\ When(i) \in Nat
    BY ObservationConstants DEF Held, Offered, When
  <2> QED
    BY <2>2, <2>3, <2>4 DEF Later
<1> QED
  BY <1>5, <1>9, <1>10, <1>12

\* A row that shows its listings and its point agrees with the item's page.
LEMMA ShownAgrees ==
  ASSUME Held, NEW i \in Offered, NEW row, Shown(i, row)
  PROVE  RowAgrees(i, row)
<1>1. PICK listings : listings = ItemListings(i, row)
  OBVIOUS
<1>2. PICK history : history = ItemHistory(i, row)
  OBVIOUS
<1>3. PICK F : F = Facts(i)
  OBVIOUS
<1>4. PICK A : A = Asked(F, row)
  OBVIOUS
<1>5. Piled(F) /\ A \in SUBSET F /\ A # {}
  BY <1>3, <1>4, FactsAre DEF Asked, Shown
<1>6. listings = Sorted(A, ByCost(F))
  BY <1>1, <1>3, <1>4 DEF ItemListings, ByCost
<1>7. Len(listings) = Cardinality(A) /\ listings[1].price = Least({r.price : r \in A})
  BY <1>5, <1>6, CheapestFirst
<1>8. Len(listings) = row.total.listings /\ listings[1].price = row.total.price
  BY <1>3, <1>4, <1>7 DEF Shown
<1>9. PICK t : t = row.total
  OBVIOUS
<1>10. t \in PointsAt(i, row)
  BY <1>9 DEF Shown
<1>11. /\ \A n \in 1..Len(history) : Realm(history[n].scan) = Realm(i)
       /\ \E n \in 1..Len(history) :
            /\ history[n] = [scan |-> i, total |-> t]
            /\ \A m \in n + 1..Len(history) : When(history[m].scan) = When(i)
  BY <1>2, <1>10, HistoryShows
<1> QED
  BY <1>1, <1>2, <1>8, <1>9, <1>11 DEF RowAgrees

\* The rows of a list of pets' variants and other items.
VariantRow(i, r) ==
  LET Same(s) == /\ s.item = r.item /\ s.creature = r.creature
                 /\ PetVariantKey(s) = PetVariantKey(r)
  IN  Row(i, r.item, r.creature, None, PetVariantKey(r),
          [Total({s \in PetsOf(i) : Same(s)}) EXCEPT !.variants = 1])
ItemRow(i, k) == Row(i, k[1], None, None, None, Summary(db.scans[i], k[1], k[2]))
LEMMA MarketItemsAre ==
  ASSUME NEW i
  PROVE  MarketItems(i) = {ItemRow(i, k) : k \in {k \in StoredKinds(i) : k[2] = 0}}
                            \cup {VariantRow(i, r) : r \in PetsOf(i)}
BY DEF MarketItems, ItemRow, VariantRow

\* Every row of the lists of a scan agrees with the item's page.
LEMMA ListsAgree ==
  ASSUME Held, NEW i \in Offered, NEW row \in MarketItems(i) \cup RaidRows(i)
  PROVE  RowAgrees(i, row)
<1>1. CASE row \in RaidRows(i)
  <2>1. CASE row.context # None
    BY <1>1, <2>1, RaidShown, ShownAgrees
  <2>2. CASE row.context = None
    <3>1. row.item \in RaidItems
      <4>1. PICK r, total :
              /\ r \in Facts(i) /\ r.item \in RaidItems
              /\ row = Row(i, r.item, None, ContextOf[r.link], None, total)
        BY <1>1 DEF RaidRows
      <4> QED
        BY <4>1, RowParts
    <3> QED
      BY <2>2, <3>1 DEF RowAgrees
  <2> QED
    BY <2>1, <2>2
<1>2. ASSUME NEW r \in PetsOf(i), row = VariantRow(i, r)
      PROVE  RowAgrees(i, row)
  <2>1. PICK T : T = {s \in PetsOf(i) : /\ s.item = r.item /\ s.creature = r.creature
                                        /\ PetVariantKey(s) = PetVariantKey(r)}
    OBVIOUS
  <2>2. row = Row(i, r.item, r.creature, None, PetVariantKey(r), [Total(T) EXCEPT !.variants = 1])
    BY <1>2, <2>1 DEF VariantRow
  <2>3. Shown(i, row)
    BY <2>1, <2>2, PetShown
  <2> QED
    BY <2>3, ShownAgrees
<1>3. ASSUME NEW k \in StoredKinds(i), k[2] = 0, row = ItemRow(i, k)
      PROVE  RowAgrees(i, row)
  <2>1. row.item = k[1] /\ row.pet = None
    BY <1>3, RowParts DEF ItemRow
  <2>2. CASE \E r \in PetsOf(i) : r.item = k[1]
    BY <2>1, <2>2 DEF RowAgrees
  <2>3. CASE ~\E r \in PetsOf(i) : r.item = k[1]
    <3>1. Shown(i, row)
      BY <1>3, <2>3, PlainShown DEF ItemRow
    <3> QED
      BY <3>1, ShownAgrees
  <2> QED
    BY <2>2, <2>3
<1> QED
  BY <1>1, <1>2, <1>3, MarketItemsAre

--------------------------------------------------------------------------------
(***************************************************************************)
(* The number of rows, and the list across realms.                          *)
(***************************************************************************)

\* The status counts an item that is no pet by its kind and pets by their variants.
LEMMA CountShown ==
  ASSUME Held, NEW i \in Offered
  PROVE  MarketItemCount(i) = Cardinality(MarketItems(i))
<1>1. PICK K : K = StoredKinds(i)
  OBVIOUS
<1>2. PICK F : F = Facts(i)
  OBVIOUS
<1>3. PICK pets : pets = PetsOf(i)
  OBVIOUS
<1>4. PICK pairs : pairs = {<<r.item, r.creature>> : r \in pets}
  OBVIOUS
<1>5. PICK variants : variants = {<<r.item, r.creature, PetVariantKey(r)>> : r \in pets}
  OBVIOUS
<1>6. PICK plain : plain = {k \in K : k[2] = 0}
  OBVIOUS
<1>7. PICK X : X = {ItemRow(i, k) : k \in plain}
  OBVIOUS
<1>8. PICK Y : Y = {VariantRow(i, r) : r \in pets}
  OBVIOUS
<1>9. MarketItems(i) = X \cup Y
  BY <1>1, <1>3, <1>6, <1>7, <1>8, MarketItemsAre
<1>10. MarketItemCount(i) = Cardinality(K) - Cardinality(pairs) + Cardinality(variants)
  BY <1>1, <1>3, <1>4, <1>5, FactsAre DEF MarketItemCount
<1>11. IsFiniteSet(F) /\ IsFiniteSet(pets)
  <2>1. pets \in SUBSET F
    BY <1>2, <1>3 DEF PetsOf
  <2> QED
    BY <1>2, <2>1, FactsAre, FS_Subset DEF Piled
<1>12. K = {<<r.item, r.creature>> : r \in F}
  <2>1. PICK c : c = db.scans[i]
    OBVIOUS
  <2>2. c \in Captures /\ Valid(c) /\ F = StoredRows(c) /\ K = Kinds(c)
    BY <1>1, <1>2, <2>1, FactsAre
  <2>3. ASSUME NEW r \in Rows[c]
        PROVE  ListingMapping(r).item = r.item /\ ListingMapping(r).creature = r.creature
    BY <2>2, RowStored
  <2> QED
    BY <2>2, <2>3 DEF StoredRows, Kinds
<1>13. IsFiniteSet(K) /\ \A k \in K : k = <<k[1], k[2]>>
  <2>1. PICK f : f = [r \in F |-> <<r.item, r.creature>>]
    OBVIOUS
  <2>2. K = {f[r] : r \in F}
    BY <1>12, <2>1
  <2>3. IsFiniteSet({f[r] : r \in F})
    BY <1>11, ImageSize
  <2>4. ASSUME NEW k \in K
        PROVE  k = <<k[1], k[2]>>
    <3>1. PICK r \in F : k = <<r.item, r.creature>>
      BY <1>12
    <3> QED
      BY <3>1
  <2> QED
    BY <2>2, <2>3, <2>4
<1>14. pairs = K \ plain /\ plain \in SUBSET K
  BY <1>2, <1>3, <1>4, <1>6, <1>12 DEF PetsOf
<1>15. /\ Cardinality(pairs) = Cardinality(K) - Cardinality(plain)
       /\ IsFiniteSet(plain) /\ Cardinality(K) \in Nat /\ Cardinality(plain) \in Nat
  <2>1. K \cap plain = plain
    BY <1>14
  <2>2. IsFiniteSet(plain)
    BY <1>13, <1>14, FS_Subset
  <2> QED
    BY <1>13, <1>14, <2>1, <2>2, FS_Difference, FS_CardinalityType
<1>16. IsFiniteSet(X) /\ Cardinality(X) = Cardinality(plain)
  <2>1. PICK f : f = [k \in plain |-> ItemRow(i, k)]
    OBVIOUS
  <2>2. X = {f[k] : k \in plain}
    BY <1>7, <2>1
  <2>3. \A k \in plain : f[k].item = k[1]
    BY <2>1, RowParts DEF ItemRow
  <2>4. \A k, l \in plain : f[k] = f[l] => k = l
    BY <1>6, <1>13, <2>3
  <2>5. IsFiniteSet({f[k] : k \in plain}) /\ Cardinality({f[k] : k \in plain}) = Cardinality(plain)
    BY <1>15, <2>4, ImageSize
  <2> QED
    BY <2>2, <2>5
<1>17. ASSUME NEW r \in pets
       PROVE  /\ VariantRow(i, r).item = r.item /\ VariantRow(i, r).creature = r.creature
              /\ VariantRow(i, r).pet = PetVariantKey(r)
  BY RowParts DEF VariantRow
<1>18. IsFiniteSet(Y) /\ Cardinality(Y) = Cardinality(variants)
  <2>1. PICK g : g = [r \in pets |-> VariantRow(i, r)]
    OBVIOUS
  <2>2. Y = {g[r] : r \in pets}
    BY <1>8, <2>1
  <2>3. IsFiniteSet({g[r] : r \in pets})
    BY <1>11, ImageSize
  <2>4. PICK h : h = [y \in Y |-> <<y.item, y.creature, y.pet>>]
    OBVIOUS
  <2>5. \A r \in pets : h[g[r]] = <<r.item, r.creature, PetVariantKey(r)>>
    BY <1>17, <2>1, <2>2, <2>4
  <2>6. variants = {h[y] : y \in Y}
    <3>1. ASSUME NEW v \in variants
          PROVE  \E y \in Y : v = h[y]
      <4>1. PICK r \in pets : v = <<r.item, r.creature, PetVariantKey(r)>>
        BY <1>5
      <4>2. g[r] \in Y /\ h[g[r]] = v
        BY <2>2, <2>5, <4>1
      <4> QED
        BY <4>2
    <3>2. ASSUME NEW y \in Y
          PROVE  h[y] \in variants
      <4>1. PICK r \in pets : y = g[r]
        BY <2>2
      <4>2. h[y] = <<r.item, r.creature, PetVariantKey(r)>>
        BY <2>5, <4>1
      <4> QED
        BY <1>5, <4>2
    <3> QED
      BY <3>1, <3>2
  <2>7. ASSUME NEW r \in pets, NEW s \in pets, h[g[r]] = h[g[s]]
        PROVE  g[r] = g[s]
    <3>1. r.item = s.item /\ r.creature = s.creature /\ PetVariantKey(r) = PetVariantKey(s)
      BY <2>5, <2>7
    <3> QED
      BY <2>1, <3>1 DEF VariantRow
  <2>8. \A x, y \in Y : h[x] = h[y] => x = y
    BY <2>2, <2>7
  <2>9. IsFiniteSet(Y)
    BY <2>2, <2>3
  <2>10. Cardinality({h[y] : y \in Y}) = Cardinality(Y)
    BY <2>8, <2>9, ImageSize
  <2> QED
    BY <2>6, <2>9, <2>10
<1>19. X \cap Y = {}
  <2>1. \A x \in X : x.creature = None
    BY <1>7, RowParts DEF ItemRow
  <2>2. \A r \in pets : r.creature # None
    BY <1>3, FactsAre, ObservationConstants DEF PetsOf, Piled
  <2>3. \A y \in Y : y.creature # None
    BY <1>8, <1>17, <2>2
  <2> QED
    BY <2>1, <2>3
<1>20. Cardinality(X \cup Y) = Cardinality(X) + Cardinality(Y)
  <2>1. Cardinality(X \cup Y) = Cardinality(X) + Cardinality(Y) - Cardinality(X \cap Y)
    BY <1>16, <1>18, FS_Union
  <2>2. Cardinality(X \cap Y) = 0
    BY <1>19, FS_EmptySet
  <2>3. Cardinality(X) \in Nat /\ Cardinality(Y) \in Nat
    BY <1>16, <1>18, FS_CardinalityType
  <2> QED
    BY <2>1, <2>2, <2>3
<1>21. Cardinality(variants) \in Nat
  BY <1>18, FS_CardinalityType
<1> QED
  BY <1>9, <1>10, <1>15, <1>16, <1>18, <1>20, <1>21

\* How rows of lists are told apart.
RowKeys == {"item", "creature", "context", "pet"}
Called(x, y) == \A key \in RowKeys : x.row[key] = y.row[key]

\* The rows of the newest scans.
Across(raid) ==
  {x \in {[scan |-> i, row |-> r] :
            i \in LatestByRealm, r \in UNION {IF raid THEN RaidRows(j) ELSE MarketItems(j) :
                                                j \in LatestByRealm}} :
     x.row \in IF raid THEN RaidRows(x.scan) ELSE MarketItems(x.scan)}

\* Of them the list across realms has the newest of a region's item.
LEMMA AcrossOnce ==
  ASSUME NEW raid \in BOOLEAN
  PROVE  UnifiedMarketItems(raid) =
           {x \in Across(raid) : x.row.scope = "region" =>
              \A y \in Across(raid) :
                y.row.scope = "region" /\ Called(x, y) => x = y \/ Later(x.scan, y.scan)}
BY DEF UnifiedMarketItems, Across, Called, RowKeys

\* A row of the list across realms is a row of its realm's newest scan, and one of a region's
\* item is the newest one there is.
LEMMA AcrossAre ==
  ASSUME NEW raid \in BOOLEAN, NEW x \in UnifiedMarketItems(raid)
  PROVE  /\ x.scan \in LatestByRealm /\ x.row \in MarketItems(x.scan) \cup RaidRows(x.scan)
         /\ \A y \in UnifiedMarketItems(raid) :
              x.row.scope = "region" /\ y.row.scope = "region" /\ Called(x, y)
                => x = y \/ Later(x.scan, y.scan)
<1>1. x \in Across(raid)
  BY AcrossOnce
<1>2. /\ x.scan \in LatestByRealm
      /\ x.row \in IF raid THEN RaidRows(x.scan) ELSE MarketItems(x.scan)
  BY <1>1 DEF Across
<1>3. ASSUME NEW y \in UnifiedMarketItems(raid), x.row.scope = "region",
             y.row.scope = "region", Called(x, y)
      PROVE  x = y \/ Later(x.scan, y.scan)
  <2>1. y \in Across(raid)
    BY AcrossOnce
  <2> QED
    BY <1>3, <2>1, AcrossOnce
<1> QED
  BY <1>2, <1>3

\* The catalog of a realm begins with the scan that the list across realms is made of.
LEMMA CatalogBegins ==
  ASSUME Held, NEW i \in LatestByRealm
  PROVE  MarketCatalog(Realm(i))[1] = i
<1>1. PICK S : S = {j \in Offered : Realm(j) = Realm(i)}
  OBVIOUS
<1>2. PICK R : R = {p \in Offered \X Offered : Later(p[1], p[2])}
  OBVIOUS
<1>3. PICK q : q = MarketCatalog(Realm(i))
  OBVIOUS
<1>4. q = Sorted(S, R)
  BY <1>1, <1>2, <1>3 DEF MarketCatalog
<1>5. i \in S /\ S \in SUBSET Offered /\ \A j \in S : i = j \/ Later(i, j)
  BY <1>1 DEF LatestByRealm
<1>6. \A j, k \in S : <<j, k>> \in R <=> Later(j, k)
  BY <1>2, <1>5
<1>7. IsFiniteSet(S)
  BY <1>5, FS_Subset DEF Held, Offered
<1>8. StrictOrder(R, S)
  BY <1>5, <1>6, LaterOrders DEF StrictOrder
<1>9. /\ q \in Seq(S) /\ Len(q) \in Nat
      /\ \A x \in S : \E n \in 1..Len(q) : q[n] = x
      /\ \A m, n \in 1..Len(q) : m < n => <<q[m], q[n]>> \in R
  BY <1>4, <1>7, <1>8, SortedIs
<1>10. PICK n \in 1..Len(q) : q[n] = i
  BY <1>5, <1>9
<1>11. 1 \in 1..Len(q) /\ (n = 1 \/ 1 < n)
  BY <1>9, <1>10
<1>12. q[1] \in S /\ (q[1] = i \/ Later(q[1], i))
  <2>1. q[1] \in S
    BY <1>9, <1>11
  <2>2. CASE n = 1
    BY <1>10, <2>1, <2>2
  <2>3. CASE 1 < n
    <3>1. <<q[1], q[n]>> \in R
      BY <1>9, <1>11, <2>3
    <3> QED
      BY <1>5, <1>6, <1>10, <2>1, <3>1
  <2> QED
    BY <1>11, <2>2, <2>3
<1>13. q[1] = i
  BY <1>5, <1>12, LaterOrders
<1> QED
  BY <1>3, <1>13

\* There is one row of a region's item.
LEMMA RegionOnce ==
  ASSUME Held, NEW raid \in BOOLEAN, NEW x \in UnifiedMarketItems(raid), x.row.scope = "region"
  PROVE  x = CHOOSE y \in UnifiedMarketItems(raid) : y.row.scope = "region" /\ Called(y, x)
<1>1. PICK U : U = UnifiedMarketItems(raid)
  OBVIOUS
<1>2. ASSUME NEW y \in U, y.row.scope = "region", Called(y, x)
      PROVE  y = x
  <2>1. Called(x, y)
    BY <1>2 DEF Called, RowKeys
  <2>2. x = y \/ (Later(x.scan, y.scan) /\ Later(y.scan, x.scan))
    BY <1>1, <1>2, <2>1, AcrossAre
  <2>3. x.scan \in Offered /\ y.scan \in Offered
    BY <1>1, AcrossAre DEF LatestByRealm
  <2> QED
    BY <2>2, <2>3, LaterOrders
<1>3. x \in U /\ x.row.scope = "region" /\ Called(x, x)
  BY <1>1 DEF Called
<1>4. x = CHOOSE y \in U : y.row.scope = "region" /\ Called(y, x)
  BY <1>2, <1>3
<1> QED
  BY <1>1, <1>4

(***************************************************************************)
(* The legacy backend's pages never contradict one another: a row of a     *)
(* list has the number and first price of its listings and the scan's own  *)
(* point of its history, the status counts the rows of the list, the list  *)
(* across realms has an item once for all scans that call it the region's, *)
(* and the catalog begins with the scan that list is made of               *)
(* (market_queries.py:334-361, 387-503, 524-692, 933-1000, 1165-1230), for *)
(* any scans that pass the validation.                                     *)
(***************************************************************************)
THEOREM LegacyAnswersAlwaysAgree == Spec => []LegacyAnswersAgree
<1>1. LegacyInv /\ Vetted => LegacyAnswersAgree
  <2> SUFFICES ASSUME LegacyInv, Vetted, reset.at = "idle", ~torn
               PROVE  LegacyAnswersAgree
    BY DEF LegacyAnswersAgree
  <2>1. Held
    BY HeldBetween
  <2>2. ASSUME NEW i \in Offered
        PROVE  /\ MarketItemCount(i) = Cardinality(MarketItems(i))
               /\ \A row \in MarketItems(i) \cup RaidRows(i) : RowAgrees(i, row)
    BY <2>1, CountShown, ListsAgree
  <2>3. ASSUME NEW raid \in BOOLEAN, NEW x \in UnifiedMarketItems(raid)
        PROVE  /\ MarketCatalog(Realm(x.scan))[1] = x.scan
               /\ RowAgrees(x.scan, x.row)
               /\ x.row.scope = "region" =>
                    x = CHOOSE y \in UnifiedMarketItems(raid) :
                          y.row.scope = "region" /\ Called(y, x)
    <3>1. x.scan \in LatestByRealm /\ x.row \in MarketItems(x.scan) \cup RaidRows(x.scan)
      BY AcrossAre
    <3>2. x.scan \in Offered
      BY <3>1 DEF LatestByRealm
    <3> QED
      BY <2>1, <3>1, <3>2, CatalogBegins, ListsAgree, RegionOnce
  <2> QED
    BY <2>2, <2>3 DEF LegacyAnswersAgree, Called, RowKeys
<1>2. MarketsInv => LegacyInv
  BY DEF MarketsInv
<1> QED
  BY <1>1, <1>2, MarketsInvariant, ScansAlwaysVetted, PTL
================================================================================
