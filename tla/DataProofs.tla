----------------------------- MODULE DataProofs -----------------------------
(***************************************************************************)
(* Proofs about the figures of CreatorInsights and the rows that the API   *)
(* and the worker make of Google's answers, and the lemmas they rest on:   *)
(* induction over data, for the proofs about operators that fold: numbers, *)
(* finite sets and sequences, and about the orders of arrays.              *)
(* The theorems of the library that take an operator (natural induction,   *)
(* recursive definitions) are out of the provers' reach, so all of it      *)
(* comes from one fact, that a set of natural numbers that is not empty    *)
(* has a least one, and is stated of sets and functions.                   *)
(***************************************************************************)
EXTENDS IngestedRows, Arrays, FiniteSetTheorems, FunctionTheorems,
        SequenceTheorems, WellFoundedInduction, TLAPS

\* A set of numbers that is not empty has a least one.
LEMMA LeastNatural ==
    ASSUME NEW T \in SUBSET Nat, T # {}
    PROVE  \E n \in T : \A m \in T : n <= m
<1> DEFINE R == {p \in Nat \X Nat : p[1] < p[2]}
<1>1. IsWellFoundedOn(R, Nat)
  BY NatLessThanWellFounded DEF OpToRel
<1> HIDE DEF R
<1>2. \E x \in T : \A y \in T : <<y, x>> \notin R
  BY <1>1, WFMin
<1>3. PICK x \in T : \A y \in T : <<y, x>> \notin R
  BY <1>2
<1>4. \A y \in T : ~(y < x)
  BY <1>3 DEF R
<1> QED BY <1>4

\* Induction: what holds of 0 and goes on from a number to the next holds of
\* all.
LEMMA Induction ==
    ASSUME NEW S \in SUBSET Nat, 0 \in S, \A n \in S : n + 1 \in S
    PROVE  S = Nat
<1> SUFFICES ASSUME S # Nat PROVE FALSE
  OBVIOUS
<1>1. PICK n \in Nat \ S : \A m \in Nat \ S : n <= m
  BY LeastNatural
<1>2. n # 0 /\ n - 1 \in Nat
  BY <1>1
<1>3. n - 1 \in S
  BY <1>1, <1>2
<1> QED BY <1>1, <1>3

\* A fold over a finite set, as MapThenFoldSet defines it, exists.
IsFold(g, S, A, base, step, pick) ==
    /\ g \in [SUBSET S -> A]
    /\ \A T \in SUBSET S :
          g[T] = IF T = {} THEN base ELSE step[<<pick[T], g[T \ {pick[T]}]>>]

\* Such a function exists.
LEMMA FoldExists ==
    ASSUME NEW S, IsFiniteSet(S), NEW A, NEW base \in A,
           NEW step \in [S \X A -> A],
           NEW pick, \A T \in SUBSET S : T # {} => pick[T] \in T
    PROVE  \E g : IsFold(g, S, A, base, step, pick)
<1> DEFINE Upto(n) == {T \in SUBSET S : Cardinality(T) <= n}
           Next(g, T) == IF T = {} THEN base
                         ELSE step[<<pick[T], g[T \ {pick[T]}]>>]
           Good(n, g) == /\ g \in [Upto(n) -> A]
                         /\ \A T \in Upto(n) : g[T] = Next(g, T)
           N == {n \in Nat : \E g : Good(n, g)}
<1>1. \A T \in SUBSET S : IsFiniteSet(T) /\ Cardinality(T) \in Nat
  BY FS_Subset, FS_CardinalityType
<1>2. 0 \in N
  <2>1. \A T \in Upto(0) : T = {}
    BY <1>1, FS_EmptySet
  <2>2. Good(0, [T \in Upto(0) |-> base])
    BY <2>1
  <2> QED BY <2>2
<1>3. ASSUME NEW n \in N PROVE n + 1 \in N
  <2>0. n \in Nat
    OBVIOUS
  <2>1. PICK g : Good(n, g)
    OBVIOUS
  <2> DEFINE h == [T \in Upto(n + 1) |-> Next(g, T)]
  <2>2. \A T \in Upto(n) : T \in Upto(n + 1) /\ h[T] = g[T]
    BY <1>1, <2>1
  <2>3. ASSUME NEW T \in Upto(n + 1), T # {}
        PROVE  T \ {pick[T]} \in Upto(n)
    <3> HIDE DEF h, N, Good
    <3>1. T \in SUBSET S /\ IsFiniteSet(T) /\ pick[T] \in T
      BY <1>1, <2>3
    <3>2. Cardinality(T \ {pick[T]}) = Cardinality(T) - 1
      BY <3>1, FS_RemoveElement
    <3>3. n \in Nat /\ Cardinality(T) \in Nat /\ Cardinality(T) <= n + 1
      BY <1>1, <2>0, <3>1
    <3>4. Cardinality(T \ {pick[T]}) <= n
      BY <3>2, <3>3
    <3>5. T \ {pick[T]} \in SUBSET S
      BY <3>1
    <3> QED BY <3>4, <3>5
  <2>4. ASSUME NEW T \in Upto(n + 1)
        PROVE  h[T] \in A /\ h[T] = Next(h, T)
    <3>1. CASE T = {} BY <3>1
    <3>2. CASE T # {}
      <4>1. T \ {pick[T]} \in Upto(n) BY <2>3, <3>2
      <4>2. h[T \ {pick[T]}] = g[T \ {pick[T]}] BY <2>2, <4>1
      <4>3. g[T \ {pick[T]}] \in A BY <2>1, <4>1
      <4>4. h[T] = step[<<pick[T], g[T \ {pick[T]}]>>] BY <3>2
      <4>5. pick[T] \in S BY <2>4, <3>2
      <4>6. h[T] \in A BY <4>3, <4>4, <4>5
      <4>7. h[T] = step[<<pick[T], h[T \ {pick[T]}]>>] BY <4>2, <4>4
      <4> QED BY <3>2, <4>6, <4>7
    <3> QED BY <3>1, <3>2
  <2>5. Good(n + 1, h)
    <3>1. h = [T \in Upto(n + 1) |-> h[T]] OBVIOUS
    <3> HIDE DEF h, Upto
    <3>2. h \in [Upto(n + 1) -> A] BY <2>4, <3>1
    <3> QED BY <2>4, <3>2
  <2> HIDE DEF h, Good
  <2> QED BY <2>5
<1>4. N = Nat
  <2> HIDE DEF N
  <2>1. N \in SUBSET Nat BY DEF N
  <2> QED BY <1>2, <1>3, <2>1, Induction
<1>5. Upto(Cardinality(S)) = SUBSET S
  BY <1>1, FS_Subset
<1>6. PICK g : Good(Cardinality(S), g)
  BY <1>1, <1>4
<1>7. IsFold(g, S, A, base, step, pick)
  BY <1>5, <1>6 DEF IsFold
<1> QED BY <1>7

\* The greatest of a set, as FiniteSetsExt chooses it.
Greatest(T) == CHOOSE x \in T : \A y \in T : x >= y

\* Sets of indices have one.
LEMMA GreatestIs ==
    ASSUME NEW n \in Nat, NEW T \in SUBSET (1..n), T # {}
    PROVE  Greatest(T) \in T /\ \A m \in T : m <= Greatest(T)
<1> DEFINE U == {n - m : m \in T}
<1>1. U \in SUBSET Nat /\ U # {}
  <2>1. \A m \in T : n - m \in Nat OBVIOUS
  <2>2. PICK m \in T : TRUE OBVIOUS
  <2>3. n - m \in U OBVIOUS
  <2> QED BY <2>1, <2>3
<1>2. PICK u \in U : \A v \in U : u <= v
  BY <1>1, LeastNatural
<1>3. PICK m \in T : u = n - m
  OBVIOUS
<1>4. \A k \in T : m >= k
  <2> SUFFICES ASSUME NEW k \in T PROVE m >= k
    OBVIOUS
  <2>1. n - k \in U OBVIOUS
  <2>2. u <= n - k BY <1>2, <2>1
  <2>3. m \in 1..n /\ k \in 1..n OBVIOUS
  <2> QED BY <1>3, <2>2, <2>3
<1>5. \E x \in T : \A y \in T : x >= y
  BY <1>4
<1>6. Greatest(T) \in T /\ \A y \in T : Greatest(T) >= y
  BY <1>5 DEF Greatest
<1>7. \A y \in T : y \in Int
  OBVIOUS
<1> QED BY <1>6, <1>7

\* The fold of a sequence from the left (FoldLeft): what is known of any g the
\* library may choose, and the g that shows that there is one.
IsLeftFold(g, n, A, base, step) ==
    /\ g[{}] = base
    /\ \A T \in SUBSET (1..n) :
         T # {} /\ g[T \ {Greatest(T)}] \in A =>
           g[T] = step[<<Greatest(T), g[T \ {Greatest(T)}]>>]

IsWholeFold(g, n, A, base, step) ==
    /\ g \in [SUBSET (1..n) -> A]
    /\ \A T \in SUBSET (1..n) :
          g[T] = IF T = {} THEN base
                 ELSE step[<<Greatest(T), g[T \ {Greatest(T)}]>>]

\* A fold from the left exists, which FoldLeft can choose.
LEMMA LeftFoldExists ==
    ASSUME NEW n \in Nat, NEW A, NEW base \in A, NEW step \in [(1..n) \X A -> A]
    PROVE  \E g : IsWholeFold(g, n, A, base, step)
<1> USE DEF IsWholeFold
<1> DEFINE pick == [T \in SUBSET (1..n) |-> Greatest(T)]
<1>1. \A T \in SUBSET (1..n) : T # {} => pick[T] \in T
  BY GreatestIs
<1>2. IsFiniteSet(1..n)
  BY FS_Interval
<1>3. PICK g : IsFold(g, 1..n, A, base, step, pick)
  <2> HIDE DEF pick
  <2> QED BY <1>1, <1>2, FoldExists
<1>4. /\ g \in [SUBSET (1..n) -> A]
      /\ \A T \in SUBSET (1..n) :
                 g[T] = IF T = {} THEN base
                        ELSE step[<<Greatest(T), g[T \ {Greatest(T)}]>>]
  BY <1>3 DEF IsFold
<1> QED BY <1>4

\* The greatest of a prefix is its last index.
LEMMA PrefixMax ==
    ASSUME NEW n \in Nat, NEW i \in 1..n
    PROVE  /\ 1..i \in SUBSET (1..n) /\ 1..i # {} /\ Greatest(1..i) = i
           /\ (1..i) \ {i} = 1..(i - 1)
<1>1. 1..i \in SUBSET (1..n) /\ 1..i # {}
  OBVIOUS
<1>2. Greatest(1..i) \in 1..i /\ \A m \in 1..i : m <= Greatest(1..i)
  BY <1>1, GreatestIs
<1>3. i \in 1..i OBVIOUS
<1>4. i <= Greatest(1..i) /\ Greatest(1..i) <= i /\ Greatest(1..i) \in Int
  BY <1>2, <1>3
<1>5. (1..i) \ {i} = 1..(i - 1)
  OBVIOUS
<1> QED BY <1>1, <1>4, <1>5

\* The values a computation runs through, from base on.
Runs(r, n, A, base, step) ==
    /\ r \in [0..n -> A] /\ r[0] = base
    /\ \A i \in 1..n : r[i] = step[<<i, r[i - 1]>>]

\* What a fold makes of one prefix after the other.
RunOf(g, n) == [i \in 0..n |-> g[1..i]]

\* A fold from the left runs through the prefixes.
LEMMA LeftFoldRuns ==
    ASSUME NEW n \in Nat, NEW A, NEW base \in A,
           NEW step \in [(1..n) \X A -> A],
           NEW g, IsLeftFold(g, n, A, base, step)
    PROVE  Runs(RunOf(g, n), n, A, base, step)
<1> USE DEF RunOf
<1>1. g[1..0] = base
  <2>1. 1..0 = {} OBVIOUS
  <2> QED BY <2>1 DEF IsLeftFold
<1>2. ASSUME NEW i \in 1..n, g[1..(i - 1)] \in A
      PROVE  g[1..i] = step[<<i, g[1..(i - 1)]>>]
  BY <1>2, PrefixMax DEF IsLeftFold
<1> DEFINE N == {i \in Nat : i <= n => g[1..i] \in A}
<1>3. 0 \in N
  BY <1>1
<1>4. ASSUME NEW i \in N PROVE i + 1 \in N
  <2>1. CASE i + 1 <= n
    <3>1. i + 1 \in 1..n /\ (i + 1) - 1 = i BY <2>1
    <3>2. g[1..i] \in A BY <2>1
    <3>3. g[1..(i + 1)] = step[<<i + 1, g[1..i]>>]
      BY <1>2, <3>1, <3>2
    <3> QED BY <3>1, <3>2, <3>3
  <2>2. CASE ~(i + 1 <= n) BY <2>2
  <2> QED BY <2>1, <2>2
<1>5. N = Nat
  <2> HIDE DEF N
  <2>1. N \in SUBSET Nat BY DEF N
  <2> QED BY <1>3, <1>4, <2>1, Induction
<1>6. \A i \in 0..n : g[1..i] \in A
  BY <1>5
<1>7. \A i \in 1..n : g[1..i] = step[<<i, g[1..(i - 1)]>>]
  BY <1>2, <1>6
<1> DEFINE r == [i \in 0..n |-> g[1..i]]
<1>8. r \in [0..n -> A] /\ r[0] = base
  BY <1>1, <1>6
<1>9. \A i \in 1..n : i \in 0..n /\ i - 1 \in 0..n
  OBVIOUS
<1>10. \A i \in 1..n : r[i] = step[<<i, r[i - 1]>>]
  BY <1>7, <1>9
<1> QED BY <1>8, <1>10 DEF Runs

\* Two computations that agree step by step are one.
LEMMA RunsAreUnique ==
    ASSUME NEW n \in Nat, NEW A, NEW base, NEW step,
           NEW r, Runs(r, n, A, base, step), NEW q, Runs(q, n, A, base, step)
    PROVE  \A i \in 0..n : r[i] = q[i]
<1> DEFINE N == {i \in Nat : i <= n => r[i] = q[i]}
<1>1. 0 \in N BY DEF Runs
<1> HIDE DEF N
<1>2. ASSUME NEW i \in N PROVE i + 1 \in N
  <2>0. i \in Nat BY DEF N
  <2>1. CASE i + 1 <= n
    <3>1. i + 1 \in 1..n /\ (i + 1) - 1 = i BY <2>0, <2>1
    <3>2. r[i] = q[i] BY <2>0, <2>1 DEF N
    <3>3. r[i + 1] = step[<<i + 1, r[i]>>] /\ q[i + 1] = step[<<i + 1, q[i]>>]
      BY <3>1 DEF Runs
    <3> QED BY <2>0, <3>2, <3>3 DEF N
  <2>2. CASE ~(i + 1 <= n) BY <2>0, <2>2 DEF N
  <2> QED BY <2>1, <2>2
<1>3. N = Nat
  <2>1. N \in SUBSET Nat BY DEF N
  <2> QED BY <1>1, <1>2, <2>1, Induction
<1> QED BY <1>3 DEF N

-----------------------------------------------------------------------------
(* Sums.                                                                   *)

\* g sums f over every subset of S, in whatever order.
Sums(g, S, f) ==
    /\ g \in [SUBSET S -> Int] /\ g[{}] = 0
    /\ \A T \in SUBSET S : \A x \in T : g[T] = f[x] + g[T \ {x}]

\* A sum that takes out one element after the other may take any of them.
LEMMA AnyOrder ==
    ASSUME NEW S, IsFiniteSet(S), NEW f \in [S -> Int],
           NEW g \in [SUBSET S -> Int], g[{}] = 0,
           \A T \in SUBSET S : T # {} =>
              \E x \in T : g[T] = f[x] + g[T \ {x}]
    PROVE  Sums(g, S, f)
<1> DEFINE N == {n \in Nat : \A T \in SUBSET S : Cardinality(T) = n =>
                    \A x \in T : g[T] = f[x] + g[T \ {x}]}
<1>1. \A T \in SUBSET S : IsFiniteSet(T) /\ Cardinality(T) \in Nat
  BY FS_Subset, FS_CardinalityType
<1>2. 0 \in N
  BY <1>1, FS_EmptySet
<1> HIDE DEF N
<1>3. ASSUME NEW n \in N PROVE n + 1 \in N
  <2>0. n \in Nat BY DEF N
  <2>1. ASSUME NEW T \in SUBSET S, Cardinality(T) = n + 1, NEW x \in T
        PROVE  g[T] = f[x] + g[T \ {x}]
    <3>1. PICK y \in T : g[T] = f[y] + g[T \ {y}]
      BY <2>1
    <3>2. CASE x = y BY <3>1, <3>2
    <3>3. CASE x # y
      <4>1. IsFiniteSet(T) BY <1>1
      <4>2. Cardinality(T \ {x}) = n /\ Cardinality(T \ {y}) = n
        <5>1. /\ Cardinality(T \ {x}) = Cardinality(T) - 1
              /\ Cardinality(T \ {y}) = Cardinality(T) - 1
          BY <4>1, FS_RemoveElement
        <5> QED BY <2>0, <2>1, <5>1
      <4>3. /\ x \in T \ {y} /\ y \in T \ {x}
            /\ (T \ {x}) \ {y} = (T \ {y}) \ {x}
            /\ T \ {x} \in SUBSET S /\ T \ {y} \in SUBSET S
        BY <3>3
      <4>4. g[T \ {y}] = f[x] + g[(T \ {y}) \ {x}]
        BY <4>2, <4>3 DEF N
      <4>5. g[T \ {x}] = f[y] + g[(T \ {x}) \ {y}]
        BY <4>2, <4>3 DEF N
      <4>6. (T \ {y}) \ {x} \in SUBSET S OBVIOUS
      <4>7. f[x] \in Int /\ f[y] \in Int /\ g[(T \ {y}) \ {x}] \in Int
        BY <4>6
      <4>8. g[T] = f[y] + (f[x] + g[(T \ {y}) \ {x}])
        BY <3>1, <4>4
      <4>9. g[T \ {x}] = f[y] + g[(T \ {y}) \ {x}]
        BY <4>3, <4>5
      <4> QED BY <4>7, <4>8, <4>9
    <3> QED BY <3>2, <3>3
  <2>2. \A T \in SUBSET S : Cardinality(T) = n + 1 =>
           \A x \in T : g[T] = f[x] + g[T \ {x}]
    BY <2>1
  <2>3. n + 1 \in Nat BY <2>0
  <2> QED BY <2>2, <2>3 DEF N
<1>4. N = Nat
  <2>1. N \in SUBSET Nat BY DEF N
  <2> QED BY <1>2, <1>3, <2>1, Induction
<1> QED BY <1>1, <1>4 DEF Sums, N

\* From one subset to the next g stays in A.
KeepsType(g, S, A) ==
    /\ g[{}] \in A
    /\ \A T \in SUBSET S : T # {} =>
          \E x \in T : g[T \ {x}] \in A => g[T] \in A

\* The values of a fold are of one set, if each is so after the one before.
LEMMA FoldTyped ==
    ASSUME NEW S, IsFiniteSet(S), NEW A, NEW g, KeepsType(g, S, A)
    PROVE  \A T \in SUBSET S : g[T] \in A
<1> USE DEF KeepsType
<1> DEFINE N == {n \in Nat : \A T \in SUBSET S :
                    Cardinality(T) = n => g[T] \in A}
<1>1. \A T \in SUBSET S : IsFiniteSet(T) /\ Cardinality(T) \in Nat
  BY FS_Subset, FS_CardinalityType
<1>2. 0 \in N
  BY <1>1, FS_EmptySet
<1> HIDE DEF N
<1>3. ASSUME NEW n \in N PROVE n + 1 \in N
  <2>0. n \in Nat BY DEF N
  <2>1. ASSUME NEW T \in SUBSET S, Cardinality(T) = n + 1 PROVE g[T] \in A
    <3>1. IsFiniteSet(T) BY <1>1
    <3>2. T # {}
      <4>1. Cardinality(T) # 0 BY <2>0, <2>1
      <4> QED BY <3>1, <4>1, FS_EmptySet
    <3>3. PICK x \in T : g[T \ {x}] \in A => g[T] \in A
      BY <3>2
    <3>4. Cardinality(T \ {x}) = Cardinality(T) - 1
      BY <3>1, FS_RemoveElement
    <3>5. Cardinality(T \ {x}) = n /\ T \ {x} \in SUBSET S
      BY <2>0, <2>1, <3>4
    <3> QED BY <3>3, <3>5 DEF N
  <2>2. \A T \in SUBSET S : Cardinality(T) = n + 1 => g[T] \in A
    BY <2>1
  <2>3. n + 1 \in Nat BY <2>0
  <2> QED BY <2>2, <2>3 DEF N
<1>4. N = Nat
  <2>1. N \in SUBSET Nat BY DEF N
  <2> QED BY <1>2, <1>3, <2>1, Induction
<1> QED BY <1>1, <1>4 DEF N

\* q lists the members of S, each once.
IsListing(q, n, S) ==
    /\ q \in [1..n -> S]
    /\ \A i, j \in 1..n : q[i] = q[j] => i = j
    /\ \A x \in S : \E i \in 1..n : q[i] = x

\* r adds up a, from the first to the last.
RunningSums(r, n, a) ==
    /\ r \in [0..n -> Int] /\ r[0] = 0
    /\ \A i \in 1..n : r[i] = r[i - 1] + a[i]

\* r adds up f along the listing q.
RunsAlong(r, n, f, q) ==
    /\ r \in [0..n -> Int] /\ r[0] = 0
    /\ \A i \in 1..n : r[i] = r[i - 1] + f[q[i]]

\* Adding up along a listing sums the set.
LEMMA SumAlong ==
    ASSUME NEW S, NEW f \in [S -> Int], NEW g, Sums(g, S, f),
           NEW n \in Nat, NEW q, IsListing(q, n, S),
           NEW r, RunsAlong(r, n, f, q)
    PROVE  r[n] = g[S]
<1>0. /\ r \in [0..n -> Int] /\ r[0] = 0
      /\ \A i \in 1..n : r[i] = r[i - 1] + f[q[i]]
      /\ q \in [1..n -> S]
      /\ \A i, j \in 1..n : q[i] = q[j] => i = j
      /\ {q[i] : i \in 1..n} = S
  BY DEF RunsAlong, IsListing
<1> DEFINE First(i) == {q[k] : k \in 1..i}
           N == {i \in Nat : i <= n => r[i] = g[First(i)]}
<1>1. 0 \in N
  <2>1. First(0) = {} OBVIOUS
  <2> HIDE DEF First
  <2> QED BY <1>0, <2>1 DEF Sums
<1> HIDE DEF N
<1>2. ASSUME NEW i \in N PROVE i + 1 \in N
  <2>0. i \in Nat /\ i + 1 \in Nat BY DEF N
  <2>1. CASE i + 1 <= n
    <3>1. i + 1 \in 1..n /\ (i + 1) - 1 = i /\ i \in 0..n BY <2>0, <2>1
    <3>2. r[i] = g[First(i)]
      <4> HIDE DEF First
      <4>1. i <= n BY <2>0, <2>1
      <4> QED BY <4>1 DEF N
    <3>3. r[i + 1] = r[i] + f[q[i + 1]] BY <1>0, <3>1
    <3>4. First(i + 1) \in SUBSET S /\ q[i + 1] \in First(i + 1)
      BY <1>0, <2>0, <2>1
    <3>5. First(i + 1) \ {q[i + 1]} = First(i)
      <4>1. ASSUME NEW k \in 1..(i + 1)
            PROVE  k \in 1..n /\ (k \in 1..i \/ k = i + 1)
        BY <2>0, <2>1
      <4>2. \A k \in 1..i : k \in 1..(i + 1) /\ k # i + 1
        BY <2>0
      <4> QED BY <1>0, <3>1, <4>1, <4>2
    <3> HIDE DEF First
    <3>6. g[First(i + 1)] = f[q[i + 1]] + g[First(i)]
      BY <3>4, <3>5 DEF Sums
    <3>7. f[q[i + 1]] \in Int /\ r[i] \in Int BY <1>0, <3>1
    <3> QED BY <2>0, <3>2, <3>3, <3>6, <3>7 DEF N
  <2>2. CASE ~(i + 1 <= n) BY <2>0, <2>2 DEF N
  <2> QED BY <2>1, <2>2
<1>3. N = Nat
  <2>1. N \in SUBSET Nat BY DEF N
  <2> QED BY <1>1, <1>2, <2>1, Induction
<1>4. r[n] = g[First(n)]
  <2>1. n \in N BY <1>3
  <2> HIDE DEF First
  <2> QED BY <2>1 DEF N
<1> QED BY <1>0, <1>4

\* A sum lies between its size times a lower and an upper bound.
LEMMA SumBounds ==
    ASSUME NEW S, IsFiniteSet(S), NEW f \in [S -> Int], NEW g, Sums(g, S, f),
           NEW a \in Int, NEW b \in Int,
           \A x \in S : a <= f[x] /\ f[x] <= b
    PROVE  /\ Cardinality(S) * a <= g[S]
           /\ g[S] <= Cardinality(S) * b
<1> DEFINE Within(T) == /\ Cardinality(T) * a <= g[T]
                        /\ g[T] <= Cardinality(T) * b
           N == {n \in Nat : \A T \in SUBSET S :
                    Cardinality(T) = n => Within(T)}
<1>1. \A T \in SUBSET S : IsFiniteSet(T) /\ Cardinality(T) \in Nat
  BY FS_Subset, FS_CardinalityType
<1>2. 0 \in N
  <2>1. \A T \in SUBSET S : Cardinality(T) = 0 => T = {}
    BY <1>1, FS_EmptySet
  <2>2. Cardinality({}) = 0 BY FS_EmptySet
  <2>3. 0 * a = 0 /\ 0 * b = 0 OBVIOUS
  <2>4. Within({}) BY <2>2, <2>3 DEF Sums
  <2> HIDE DEF Within
  <2> QED BY <2>1, <2>4
<1> HIDE DEF N
<1>3. ASSUME NEW n \in N PROVE n + 1 \in N
  <2>0. n \in Nat BY DEF N
  <2>1. ASSUME NEW T \in SUBSET S, Cardinality(T) = n + 1 PROVE Within(T)
    <3>1. IsFiniteSet(T) BY <1>1
    <3>2. T # {}
      <4>1. Cardinality(T) # 0 BY <2>0, <2>1
      <4> QED BY <3>1, <4>1, FS_EmptySet
    <3>3. PICK x \in T : TRUE
      BY <3>2
    <3>4. Cardinality(T \ {x}) = Cardinality(T) - 1
      BY <3>1, FS_RemoveElement
    <3>5. Cardinality(T \ {x}) = n /\ T \ {x} \in SUBSET S
      BY <2>0, <2>1, <3>4
    <3>6. n * a <= g[T \ {x}] /\ g[T \ {x}] <= n * b
      BY <3>5 DEF N
    <3>7. g[T] = f[x] + g[T \ {x}] /\ f[x] \in Int /\ g[T \ {x}] \in Int
      BY <3>5 DEF Sums
    <3>8. a <= f[x] /\ f[x] <= b
      OBVIOUS
    <3>9. (n + 1) * a = n * a + a /\ (n + 1) * b = n * b + b
      BY <2>0
    <3>10. n * a \in Int /\ n * b \in Int
      BY <2>0
    <3>11. n * a + a <= g[T] /\ g[T] <= n * b + b
      <4> DEFINE na == n * a  nb == n * b  y == g[T \ {x}]
      <4> HIDE DEF na, nb, y
      <4> QED BY <3>6, <3>7, <3>8, <3>10 DEF na, nb, y
    <3> QED BY <2>1, <3>9, <3>11
  <2>2. \A T \in SUBSET S : Cardinality(T) = n + 1 => Within(T)
    BY <2>1
  <2>3. n + 1 \in Nat BY <2>0
  <2> HIDE DEF Within
  <2> QED BY <2>2, <2>3 DEF N
<1>4. N = Nat
  <2>1. N \in SUBSET Nat BY DEF N
  <2> QED BY <1>2, <1>3, <2>1, Induction
<1> QED BY <1>1, <1>4 DEF N

\* A sum over a set, as FoldSet takes it: one element after the other.
Pick(T) == CHOOSE x \in T : TRUE

\* g is the function FoldSet chooses to sum f over S.
SumsUp(g, S, f) ==
    g = [T \in SUBSET S |->
           IF T = {} THEN 0 ELSE g[T \ {Pick(T)}] + f[Pick(T)]]

\* There is such a function.
LEMMA SumExists ==
    ASSUME NEW S, IsFiniteSet(S), NEW f \in [S -> Int]
    PROVE  \E g : SumsUp(g, S, f)
<1> DEFINE step == [p \in S \X Int |-> p[2] + f[p[1]]]
           pick == [T \in SUBSET S |-> Pick(T)]
<1>1. step \in [S \X Int -> Int]
  OBVIOUS
<1>2. \A T \in SUBSET S : T # {} => pick[T] \in T /\ pick[T] = Pick(T)
  BY DEF Pick
<1>3. \A T \in SUBSET S : T \ {pick[T]} \in SUBSET S
  OBVIOUS
<1>4. \A x \in S, n \in Int : step[<<x, n>>] = n + f[x]
  OBVIOUS
<1> HIDE DEF step, pick
<1>5. PICK g : IsFold(g, S, Int, 0, step, pick)
  <2>1. \A T \in SUBSET S : T # {} => pick[T] \in T BY <1>2
  <2>2. 0 \in Int OBVIOUS
  <2> QED BY <1>1, <2>1, <2>2, FoldExists
<1>6. ASSUME NEW T \in SUBSET S
      PROVE  g[T] = IF T = {} THEN 0 ELSE g[T \ {Pick(T)}] + f[Pick(T)]
  <2>1. CASE T = {} BY <1>5, <2>1 DEF IsFold
  <2>2. CASE T # {}
    <3>1. pick[T] \in S /\ g[T \ {pick[T]}] \in Int
      BY <1>2, <1>3, <1>5, <2>2 DEF IsFold
    <3>2. g[T] = step[<<pick[T], g[T \ {pick[T]}]>>]
      BY <1>5, <2>2 DEF IsFold
    <3> QED BY <1>2, <1>4, <2>2, <3>1, <3>2
  <2> QED BY <2>1, <2>2
<1>7. DOMAIN g = SUBSET S /\ g = [T \in SUBSET S |-> g[T]]
  BY <1>5 DEF IsFold
<1>8. SumsUp(g, S, f)
  BY <1>6, <1>7 DEF SumsUp
<1> QED BY <1>8

\* It sums f, whatever the order.
LEMMA SumIsOfAll ==
    ASSUME NEW S, IsFiniteSet(S), NEW f \in [S -> Int],
           NEW g, SumsUp(g, S, f)
    PROVE  Sums(g, S, f)
<1>1. /\ DOMAIN g = SUBSET S
      /\ g[{}] = 0
      /\ \A T \in SUBSET S : T # {} =>
            /\ Pick(T) \in T
            /\ g[T] = g[T \ {Pick(T)}] + f[Pick(T)]
  <2>1. \A T \in SUBSET S : T # {} => Pick(T) \in T
    BY DEF Pick
  <2> QED BY <2>1 DEF SumsUp
<1>2. \A T \in SUBSET S : g[T] \in Int
  <2>1. ASSUME NEW T \in SUBSET S, T # {}
        PROVE  \E x \in T : g[T \ {x}] \in Int => g[T] \in Int
    <3>1. Pick(T) \in T /\ g[T] = g[T \ {Pick(T)}] + f[Pick(T)]
      BY <1>1, <2>1
    <3>2. f[Pick(T)] \in Int BY <3>1
    <3>3. g[T \ {Pick(T)}] \in Int => g[T] \in Int BY <3>1, <3>2
    <3> QED BY <3>1, <3>3
  <2>2. KeepsType(g, S, Int)
    BY <1>1, <2>1 DEF KeepsType
  <2> QED BY <2>2, FoldTyped
<1>3. g \in [SUBSET S -> Int]
  BY <1>1, <1>2 DEF SumsUp
<1>4. \A T \in SUBSET S : T # {} => \E x \in T : g[T] = f[x] + g[T \ {x}]
  <2> SUFFICES ASSUME NEW T \in SUBSET S, T # {}
               PROVE  \E x \in T : g[T] = f[x] + g[T \ {x}]
    OBVIOUS
  <2>1. Pick(T) \in T /\ g[T] = g[T \ {Pick(T)}] + f[Pick(T)]
    BY <1>1
  <2>2. f[Pick(T)] \in Int /\ g[T \ {Pick(T)}] \in Int
    BY <1>2, <2>1
  <2>3. g[T] = f[Pick(T)] + g[T \ {Pick(T)}]
    BY <2>1, <2>2
  <2> QED BY <2>1, <2>3
<1> QED BY <1>1, <1>3, <1>4, AnyOrder

\* A sum over a sequence, from the first to the last.
AddsUp(r, n, a) ==
    r = [i \in 0..n |-> IF i = 0 THEN 0 ELSE r[i - 1] + a[i]]

\* There is such a function.
LEMMA PrefixSumsExist ==
    ASSUME NEW n \in Nat, NEW a \in [1..n -> Int]
    PROVE  \E r : AddsUp(r, n, a)
<1> DEFINE step == [p \in (1..n) \X Int |-> p[2] + a[p[1]]]
<1>1. step \in [(1..n) \X Int -> Int]
  OBVIOUS
<1>2. \A i \in 1..n, m \in Int : step[<<i, m>>] = m + a[i]
  OBVIOUS
<1> HIDE DEF step
<1>3. PICK g : IsLeftFold(g, n, Int, 0, step)
  <2>1. 0 \in Int OBVIOUS
  <2>2. PICK g : IsWholeFold(g, n, Int, 0, step)
    BY <1>1, <2>1, LeftFoldExists
  <2>3. IsLeftFold(g, n, Int, 0, step)
    BY <2>2 DEF IsLeftFold, IsWholeFold
  <2> QED BY <2>3
<1> DEFINE r == RunOf(g, n)
<1>4. Runs(r, n, Int, 0, step)
  <2>1. 0 \in Int OBVIOUS
  <2> QED BY <1>1, <1>3, <2>1, LeftFoldRuns
<1> HIDE DEF r
<1>5. ASSUME NEW i \in 0..n
      PROVE  r[i] = IF i = 0 THEN 0 ELSE r[i - 1] + a[i]
  <2>1. CASE i = 0 BY <1>4, <2>1 DEF Runs
  <2>2. CASE i # 0
    <3>1. i \in 1..n /\ i - 1 \in 0..n BY <2>2
    <3>2. r[i] = step[<<i, r[i - 1]>>] /\ r[i - 1] \in Int
      BY <1>4, <3>1 DEF Runs
    <3> QED BY <1>2, <2>2, <3>1, <3>2
  <2> QED BY <2>1, <2>2
<1>6. r = [i \in 0..n |-> r[i]]
  BY <1>4 DEF Runs
<1>7. AddsUp(r, n, a)
  BY <1>5, <1>6 DEF AddsUp
<1> QED BY <1>7

\* Its values are integers.
LEMMA PrefixSums ==
    ASSUME NEW n \in Nat, NEW a \in [1..n -> Int], NEW r, AddsUp(r, n, a)
    PROVE  RunningSums(r, n, a)
<1>1. r[0] = 0 /\ \A i \in 1..n : r[i] = r[i - 1] + a[i]
  <2>1. 0 \in 0..n /\ \A i \in 1..n : i \in 0..n /\ i # 0 OBVIOUS
  <2> QED BY <2>1 DEF AddsUp
<1> DEFINE N == {i \in Nat : i <= n => r[i] \in Int}
<1>2. 0 \in N
  BY <1>1
<1> HIDE DEF N
<1>3. ASSUME NEW i \in N PROVE i + 1 \in N
  <2>0. i \in Nat BY DEF N
  <2>1. CASE i + 1 <= n
    <3>1. i + 1 \in 1..n /\ (i + 1) - 1 = i BY <2>0, <2>1
    <3>2. r[i] \in Int BY <2>0, <2>1 DEF N
    <3>3. r[i + 1] = r[i] + a[i + 1] BY <1>1, <3>1
    <3> QED BY <2>0, <3>1, <3>2, <3>3 DEF N
  <2>2. CASE ~(i + 1 <= n) BY <2>0, <2>2 DEF N
  <2> QED BY <2>1, <2>2
<1>4. N = Nat
  <2>1. N \in SUBSET Nat BY DEF N
  <2> QED BY <1>2, <1>3, <2>1, Induction
<1>5. \A i \in 0..n : r[i] \in Int
  BY <1>4 DEF N
<1>6. DOMAIN r = 0..n /\ r = [i \in 0..n |-> r[i]]
  BY DEF AddsUp
<1>7. r \in [0..n -> Int]
  BY <1>5, <1>6
<1> QED BY <1>1, <1>7 DEF RunningSums

\* A finite set of integers that is not empty has a least and a greatest.
LEMMA Extremes ==
    ASSUME NEW S, IsFiniteSet(S), S # {}, NEW f \in [S -> Int]
    PROVE  /\ \E x \in S : \A y \in S : f[x] <= f[y]
           /\ \E x \in S : \A y \in S : f[y] <= f[x]
<1> DEFINE Low(T)  == \E x \in T : \A y \in T : f[x] <= f[y]
           High(T) == \E x \in T : \A y \in T : f[y] <= f[x]
           N == {n \in Nat : \A T \in SUBSET S :
                    Cardinality(T) = n /\ T # {} => Low(T) /\ High(T)}
<1>1. \A T \in SUBSET S : IsFiniteSet(T) /\ Cardinality(T) \in Nat
  BY FS_Subset, FS_CardinalityType
<1>2. 0 \in N
  BY <1>1, FS_EmptySet
<1> HIDE DEF N
<1>3. ASSUME NEW n \in N PROVE n + 1 \in N
  <2>0. n \in Nat BY DEF N
  <2>1. ASSUME NEW T \in SUBSET S, Cardinality(T) = n + 1, T # {}
        PROVE  Low(T) /\ High(T)
    <3>1. PICK x \in T : TRUE BY <2>1
    <3>2. CASE T \ {x} = {}
      <4>1. T = {x} BY <3>2
      <4> QED BY <4>1
    <3>3. CASE T \ {x} # {}
      <4>1. Cardinality(T \ {x}) = Cardinality(T) - 1
        BY <1>1, FS_RemoveElement
      <4>2. Cardinality(T \ {x}) = n /\ T \ {x} \in SUBSET S
        BY <2>0, <2>1, <4>1
      <4>3. Low(T \ {x}) /\ High(T \ {x})
        BY <3>3, <4>2 DEF N
      <4>4. Low(T)
        <5>1. PICK z \in T \ {x} : \A y \in T \ {x} : f[z] <= f[y] BY <4>3
        <5>2. f[x] \in Int /\ f[z] \in Int /\ \A y \in T : f[y] \in Int
          OBVIOUS
        <5>3. CASE f[z] <= f[x] BY <5>1, <5>2, <5>3
        <5>4. CASE f[x] <= f[z] BY <5>1, <5>2, <5>4
        <5> QED BY <5>2, <5>3, <5>4
      <4>5. High(T)
        <5>1. PICK z \in T \ {x} : \A y \in T \ {x} : f[y] <= f[z] BY <4>3
        <5>2. f[x] \in Int /\ f[z] \in Int /\ \A y \in T : f[y] \in Int
          OBVIOUS
        <5>3. CASE f[x] <= f[z] BY <5>1, <5>2, <5>3
        <5>4. CASE f[z] <= f[x] BY <5>1, <5>2, <5>4
        <5> QED BY <5>2, <5>3, <5>4
      <4> QED BY <4>4, <4>5
    <3> QED BY <3>2, <3>3
  <2>2. \A T \in SUBSET S : Cardinality(T) = n + 1 /\ T # {} =>
           Low(T) /\ High(T)
    BY <2>1
  <2>3. n + 1 \in Nat BY <2>0
  <2> HIDE DEF Low, High
  <2> QED BY <2>2, <2>3 DEF N
<1>4. N = Nat
  <2>1. N \in SUBSET Nat BY DEF N
  <2> QED BY <1>2, <1>3, <2>1, Induction
<1>5. Low(S) /\ High(S)
  <2> HIDE DEF Low, High
  <2> QED BY <1>1, <1>4 DEF N
<1> QED BY <1>5

\* Division rounds down.
LEMMA Quotient ==
    ASSUME NEW x \in Int, NEW d \in Nat \ {0}
    PROVE  /\ x \div d \in Int
           /\ d * (x \div d) <= x
           /\ x < d * (x \div d) + d
  OBVIOUS

\* A quotient keeps to the bounds of what is divided.
LEMMA QuotientBounds ==
    ASSUME NEW x \in Int, NEW d \in Nat \ {0}, NEW a \in Int, NEW b \in Int
    PROVE  /\ d * a <= x => a <= x \div d
           /\ x < d * b + d => x \div d <= b
<1> DEFINE q == x \div d
<1>1. q \in Int /\ d * q <= x /\ x < d * q + d
  BY Quotient
<1> HIDE DEF q
<1>2. ASSUME d * a <= x, q < a PROVE FALSE
  <2>1. q + 1 <= a BY <1>1, <1>2
  <2>2. d * (q + 1) <= d * a BY <1>1, <2>1
  <2>3. d * (q + 1) = d * q + d BY <1>1
  <2> QED BY <1>1, <1>2, <2>2, <2>3
<1>3. ASSUME x < d * b + d, b < q PROVE FALSE
  <2>1. b + 1 <= q BY <1>1, <1>3
  <2>2. d * (b + 1) <= d * q BY <1>1, <2>1
  <2>3. d * (b + 1) = d * b + d BY <1>1
  <2> QED BY <1>1, <1>3, <2>2, <2>3
<1>4. (d * a <= x => a <= q) /\ (x < d * b + d => q <= b)
  BY <1>1, <1>2, <1>3
<1> QED BY <1>4 DEF q

\* Rounding to the nearest stays between the bounds of what is rounded.
LEMMA Rounds ==
    ASSUME NEW n \in Nat \ {0}, NEW s \in Int, NEW a \in Int, NEW b \in Int
    PROVE  /\ n * a <= s => a <= (2 * s + n) \div (2 * n)
           /\ s <= n * b => (2 * s + n) \div (2 * n) <= b
<1>1. 2 * s + n \in Int /\ 2 * n \in Nat \ {0}
  OBVIOUS
<1>2. (2 * n) * a = 2 * (n * a) /\ (2 * n) * b = 2 * (n * b)
  OBVIOUS
<1>3. n * a \in Int /\ n * b \in Int
  OBVIOUS
<1>4. n * a <= s => (2 * n) * a <= 2 * s + n
  <2> DEFINE na == n * a
  <2> HIDE DEF na
  <2>1. na \in Int BY <1>3 DEF na
  <2>2. na <= s => 2 * na <= 2 * s + n BY <2>1
  <2> QED BY <1>2, <2>2 DEF na
<1>5. s <= n * b => 2 * s + n < (2 * n) * b + 2 * n
  <2> DEFINE nb == n * b
  <2> HIDE DEF nb
  <2>1. nb \in Int BY <1>3 DEF nb
  <2>2. s <= nb => 2 * s + n < 2 * nb + 2 * n BY <2>1
  <2> QED BY <1>2, <2>2 DEF nb
<1> QED BY <1>1, <1>4, <1>5, QuotientBounds

-----------------------------------------------------------------------------
(* Orders, and the places they give (Arrays).                              *)

\* R orders K: it is total, and each is before itself.
Orders(R, K) ==
    /\ \A i \in K : <<i, i>> \in R
    /\ \A i, j \in K : i # j => (<<i, j>> \in R <=> <<j, i>> \notin R)
    /\ \A i, j, k \in K : <<i, j>> \in R /\ <<j, k>> \in R => <<i, k>> \in R

\* How many come up to a member.
RankIn(K, R) == [i \in K |-> Cardinality({j \in K : <<j, i>> \in R})]

\* q places the members of K by their ranks.
Places(q, K, R) ==
    /\ Cardinality(K) \in Nat
    /\ q = [k \in 1..Cardinality(K) |-> q[k]]
    /\ \A i \in K : RankIn(K, R)[i] \in 1..Cardinality(K)
    /\ \A i, j \in K : RankIn(K, R)[i] = RankIn(K, R)[j] => i = j
    /\ \A k \in 1..Cardinality(K) : q[k] \in K /\ RankIn(K, R)[q[k]] = k

\* Ranks are places: each member of a finite set has its own.
LEMMA RanksPlace ==
    ASSUME NEW K, IsFiniteSet(K), NEW R, Orders(R, K)
    PROVE  Places(ByRank(K, R), K, R)
<1> DEFINE n == Cardinality(K)
           Upto(i) == {j \in K : <<j, i>> \in R}
           rank == RankIn(K, R)
           q == ByRank(K, R)
<1>1. n \in Nat
  BY FS_CardinalityType
<1>2. ASSUME NEW i \in K
      PROVE  /\ IsFiniteSet(Upto(i)) /\ rank[i] = Cardinality(Upto(i))
             /\ rank[i] \in 1..n
  <2>1. Upto(i) \in SUBSET K /\ i \in Upto(i)
    BY DEF Orders
  <2>2. IsFiniteSet(Upto(i)) /\ Cardinality(Upto(i)) <= n
    BY <2>1, FS_Subset
  <2>3. Cardinality(Upto(i)) \in Nat
    BY <2>2, FS_CardinalityType
  <2>4. Cardinality(Upto(i)) # 0
    BY <2>1, <2>2, FS_EmptySet
  <2>5. rank[i] = Cardinality(Upto(i))
    BY DEF RankIn
  <2> HIDE DEF rank, Upto, n
  <2> QED BY <1>1, <2>2, <2>3, <2>4, <2>5
<1>3. ASSUME NEW i \in K, NEW j \in K, i # j, <<i, j>> \in R
      PROVE  rank[i] < rank[j]
  <2>1. Upto(i) \subseteq Upto(j) \ {j}
    BY <1>3 DEF Orders
  <2>2. j \in Upto(j)
    BY DEF Orders
  <2>3. /\ IsFiniteSet(Upto(j) \ {j})
        /\ Cardinality(Upto(j) \ {j}) = Cardinality(Upto(j)) - 1
    BY <1>2, <2>2, FS_RemoveElement
  <2>4. Cardinality(Upto(i)) <= Cardinality(Upto(j) \ {j})
    BY <2>1, <2>3, FS_Subset
  <2>5. /\ rank[i] = Cardinality(Upto(i)) /\ rank[j] = Cardinality(Upto(j))
        /\ rank[i] \in 1..n /\ rank[j] \in 1..n
    BY <1>2
  <2> HIDE DEF rank, Upto, n
  <2> QED BY <1>1, <2>3, <2>4, <2>5
<1> HIDE DEF Upto, n
<1>4. ASSUME NEW i \in K, NEW j \in K, i # j PROVE rank[i] # rank[j]
  <2>1. <<i, j>> \in R \/ <<j, i>> \in R
    BY <1>4 DEF Orders
  <2>2. rank[i] < rank[j] \/ rank[j] < rank[i]
    BY <1>3, <1>4, <2>1
  <2>3. rank[i] \in 1..n /\ rank[j] \in 1..n
    BY <1>2
  <2> HIDE DEF rank
  <2> QED BY <1>1, <2>2, <2>3
<1>5. rank = [i \in K |-> rank[i]]
  BY DEF RankIn
<1> HIDE DEF rank
<1>6. rank \in Injection(K, 1..n)
  BY <1>2, <1>4, <1>5 DEF Injection, IsInjective
<1>7. Cardinality(1..n) = n /\ IsFiniteSet(1..n)
  BY <1>1, FS_Interval
<1>8. rank \in Surjection(K, 1..n)
  BY <1>6, <1>7, FS_Injection DEF n
<1>9. \A k \in 1..n : \E i \in K : rank[i] = k
  BY <1>8 DEF Surjection
<1>10. \A k \in 1..n : q[k] \in K /\ rank[q[k]] = k
  <2> SUFFICES ASSUME NEW k \in 1..n PROVE q[k] \in K /\ rank[q[k]] = k
    OBVIOUS
  <2>1. q[k] = CHOOSE i \in K : Cardinality({j \in K : <<j, i>> \in R}) = k
    BY DEF ByRank, n
  <2>2. PICK i \in K : rank[i] = k
    BY <1>9
  <2>3. \A m \in K : rank[m] = Cardinality({j \in K : <<j, m>> \in R})
    BY <1>2 DEF Upto
  <2> HIDE DEF q
  <2> QED BY <2>1, <2>2, <2>3
<1>11. q = [k \in 1..n |-> q[k]]
  <2> DEFINE P(k) == CHOOSE i \in K :
                       Cardinality({j \in K : <<j, i>> \in R}) = k
  <2>1. q = [k \in 1..n |-> P(k)]
    BY DEF ByRank, n
  <2> HIDE DEF P, q
  <2> QED BY <2>1
<1> HIDE DEF q
<1>12. Places(q, K, R)
  <2>1. \A i \in K : rank[i] \in 1..n
    BY <1>2
  <2>2. \A i, j \in K : rank[i] = rank[j] => i = j
    BY <1>4
  <2> QED BY <1>1, <1>10, <1>11, <2>1, <2>2 DEF Places, n, rank
<1> QED BY <1>12 DEF q

\* Placed by their ranks, the members of a finite set come out once each.
LEMMA RanksList ==
    ASSUME NEW K, IsFiniteSet(K), NEW R, Orders(R, K)
    PROVE  IsListing(ByRank(K, R), Cardinality(K), K)
<1> DEFINE q == ByRank(K, R)
           n == Cardinality(K)
           rank == RankIn(K, R)
<1>1. Places(q, K, R)
  BY RanksPlace
<1> HIDE DEF q, n, rank
<1>2. /\ n \in Nat /\ q = [k \in 1..n |-> q[k]]
      /\ \A i \in K : rank[i] \in 1..n
      /\ \A i, j \in K : rank[i] = rank[j] => i = j
      /\ \A k \in 1..n : q[k] \in K /\ rank[q[k]] = k
  BY <1>1 DEF Places, n, rank
<1>3. q \in [1..n -> K]
  BY <1>2
<1>4. \A k, l \in 1..n : q[k] = q[l] => k = l
  BY <1>2
<1>5. \A i \in K : \E k \in 1..n : q[k] = i
  BY <1>2
<1> QED BY <1>3, <1>4, <1>5 DEF IsListing, q, n

\* The order of numbers orders them.
LEMMA UpToOrders ==
    ASSUME NEW n \in Nat, NEW K \in SUBSET (1..n)
    PROVE  Orders(UpTo(K), K) /\ IsFiniteSet(K)
<1>1. IsFiniteSet(1..n)
  BY FS_Interval
<1>2. IsFiniteSet(K)
  BY <1>1, FS_Subset
<1>3. \A i, j \in K : <<i, j>> \in UpTo(K) <=> i <= j
  BY DEF UpTo
<1>4. \A i \in K : i \in Int
  OBVIOUS
<1> QED BY <1>2, <1>3, <1>4 DEF Orders

\* R says of two what comes before what, or neither, as a comparison does.
Compares(R, K) ==
    /\ \A i, j \in K : <<i, j>> \in R => <<j, i>> \notin R
    /\ \A i, j, k \in K : <<i, k>> \in R => <<i, j>> \in R \/ <<j, k>> \in R

\* A stable sort by a comparison orders the indices.
LEMMA StablyOrders ==
    ASSUME NEW n \in Nat, NEW R, Compares(R, 1..n)
    PROVE  Orders(Stably(1..n, R), 1..n)
<1>1. \A i, j \in 1..n :
         <<i, j>> \in Stably(1..n, R)
           <=> <<i, j>> \in R \/ (<<j, i>> \notin R /\ i <= j)
  BY DEF Stably
<1>2. \A i \in 1..n : i \in Int
  OBVIOUS
<1>3. ASSUME NEW i \in 1..n, NEW j \in 1..n, NEW k \in 1..n,
             <<i, j>> \in Stably(1..n, R), <<j, k>> \in Stably(1..n, R)
      PROVE  <<i, k>> \in Stably(1..n, R)
  <2>1. CASE <<i, j>> \in R
    BY <1>1, <1>3, <2>1 DEF Compares
  <2>2. CASE <<i, j>> \notin R
    <3>1. <<j, i>> \notin R /\ i <= j
      BY <1>1, <1>3, <2>2
    <3>2. CASE <<j, k>> \in R
      BY <1>1, <3>1, <3>2 DEF Compares
    <3>3. CASE <<j, k>> \notin R
      <4>1. <<k, j>> \notin R /\ j <= k
        BY <1>1, <1>3, <3>3
      <4>2. <<k, i>> \notin R
        BY <3>1, <4>1 DEF Compares
      <4> QED BY <1>1, <1>2, <3>1, <4>1, <4>2
    <3> QED BY <3>2, <3>3
  <2> QED BY <2>1, <2>2
<1>4. ASSUME NEW i \in 1..n, NEW j \in 1..n, i # j
      PROVE  <<i, j>> \in Stably(1..n, R) <=> <<j, i>> \notin Stably(1..n, R)
  <2>1. <<i, j>> \in R => <<j, i>> \notin R
    BY DEF Compares
  <2>2. i <= j <=> ~(j <= i)
    BY <1>2, <1>4
  <2> QED BY <1>1, <2>1, <2>2
<1>5. \A i \in 1..n : <<i, i>> \in Stably(1..n, R)
  BY <1>1, <1>2 DEF Compares
<1> QED BY <1>3, <1>4, <1>5 DEF Orders

\* Outside of K, f is zero.
ZeroOutside(f, S, K) == \A x \in S \ K : f[x] = 0

\* What is zero outside of K adds nothing.
LEMMA ZerosAddNothing ==
    ASSUME NEW S, IsFiniteSet(S), NEW K \in SUBSET S,
           NEW f, NEW g, Sums(g, S, f), ZeroOutside(f, S, K)
    PROVE  g[S] = g[K]
<1> DEFINE N == {n \in Nat : \A T \in SUBSET S :
                    K \subseteq T /\ Cardinality(T) = n => g[T] = g[K]}
<1>1. \A T \in SUBSET S : IsFiniteSet(T) /\ Cardinality(T) \in Nat
  BY FS_Subset, FS_CardinalityType
<1>2. 0 \in N
  <2>1. \A T \in SUBSET S : Cardinality(T) = 0 => T = {}
    BY <1>1, FS_EmptySet
  <2> QED BY <2>1
<1> HIDE DEF N
<1>3. ASSUME NEW n \in N PROVE n + 1 \in N
  <2>0. n \in Nat BY DEF N
  <2>1. ASSUME NEW T \in SUBSET S, K \subseteq T, Cardinality(T) = n + 1
        PROVE  g[T] = g[K]
    <3>1. CASE T = K BY <3>1
    <3>2. CASE T # K
      <4>1. PICK x \in T : x \notin K BY <2>1, <3>2
      <4>2. Cardinality(T \ {x}) = Cardinality(T) - 1
        BY <1>1, FS_RemoveElement
      <4>3. Cardinality(T \ {x}) = n
        BY <2>0, <2>1, <4>2
      <4>4. T \ {x} \in SUBSET S /\ K \subseteq T \ {x}
        BY <2>1, <4>1
      <4>5. g[T \ {x}] = g[K]
        BY <4>3, <4>4 DEF N
      <4>6. g[T] = f[x] + g[T \ {x}] /\ g[T \ {x}] \in Int /\ f[x] = 0
        BY <4>1, <4>4 DEF Sums, ZeroOutside
      <4> QED BY <4>5, <4>6
    <3> QED BY <3>1, <3>2
  <2>2. \A T \in SUBSET S :
           K \subseteq T /\ Cardinality(T) = n + 1 => g[T] = g[K]
    BY <2>1
  <2>3. n + 1 \in Nat BY <2>0
  <2> QED BY <2>2, <2>3 DEF N
<1>4. N = Nat
  <2>1. N \in SUBSET Nat BY DEF N
  <2> QED BY <1>2, <1>3, <2>1, Induction
<1> QED BY <1>1, <1>4 DEF N

\* Adding up along a listing of K sums what is zero outside of K.
LEMMA SumAlongPart ==
    ASSUME NEW S, IsFiniteSet(S), NEW K \in SUBSET S, NEW f \in [S -> Int],
           NEW g, Sums(g, S, f), ZeroOutside(f, S, K),
           NEW n \in Nat, NEW q, IsListing(q, n, K),
           NEW r, RunsAlong(r, n, f, q)
    PROVE  r[n] = g[S]
<1> DEFINE e == [x \in K |-> f[x]]
           h == [T \in SUBSET K |-> g[T]]
<1>1. e \in [K -> Int]
  OBVIOUS
<1>2. Sums(h, K, e)
  <2>1. \A T \in SUBSET K : h[T] = g[T] /\ g[T] \in Int /\ T \in SUBSET S
    BY DEF Sums
  <2>2. \A T \in SUBSET K : \A x \in T : T \ {x} \in SUBSET K /\ e[x] = f[x]
    OBVIOUS
  <2>3. h \in [SUBSET K -> Int]
    BY <2>1
  <2>4. h[{}] = 0
    BY <2>1 DEF Sums
  <2>5. \A T \in SUBSET K : \A x \in T : g[T] = f[x] + g[T \ {x}]
    BY <2>1 DEF Sums
  <2> HIDE DEF h, e
  <2> QED BY <2>1, <2>2, <2>3, <2>4, <2>5 DEF Sums
<1>3. RunsAlong(r, n, e, q)
  <2>1. \A i \in 1..n : e[q[i]] = f[q[i]]
    BY DEF IsListing
  <2> HIDE DEF e
  <2> QED BY <2>1 DEF RunsAlong
<1>4. r[n] = h[K]
  <2> HIDE DEF h, e
  <2> QED BY <1>1, <1>2, <1>3, SumAlong
<1> QED BY <1>4, ZerosAddNothing

-----------------------------------------------------------------------------
(* Insights.  The totals of a response are folds over rows in the order of *)
(* the query, the time series is sorted and cut the other way, and the     *)
(* SME's totals fold over all fields at once: each of them is the sum over *)
(* the same set of indices.                                                *)

\* The values of a field of n rows, as Total adds them up.
Field(rows, n, field) == [i \in 1..n |-> Insights!OrZero(rows[i][field])]

\* Total adds up a field, from the first row to the last.
LEMMA TotalAddsUp ==
    ASSUME NEW n \in Nat, NEW rows, DOMAIN rows = 1..n, NEW field,
           Field(rows, n, field) \in [1..n -> Int]
    PROVE  \E r : /\ RunningSums(r, n, Field(rows, n, field))
                  /\ Insights!Total(rows, field) = r[n]
<1> DEFINE a == Field(rows, n, field)
           value(h, T) == IF T = {} THEN 0
              ELSE h[T \ {CHOOSE x \in T : \A y \in T : x >= y}]
                   + Insights!OrZero(
                       rows[CHOOSE x \in T : \A y \in T : x >= y][field])
           made(h) == h = [T \in SUBSET (1..n) |-> value(h, T)]
           step == [p \in (1..n) \X Int |-> p[2] + a[p[1]]]
<1>0. 0 \in Int
  OBVIOUS
<1>1. Insights!Total(rows, field) = (CHOOSE h : made(h))[1..n]
  BY Zenon DEF Insights!Total, Insights!FoldLeft, Insights!MapThenFoldSet,
     Insights!Max
<1>2. step \in [(1..n) \X Int -> Int]
  <2>1. \A p \in (1..n) \X Int : p[2] + a[p[1]] \in Int
    OBVIOUS
  <2> QED BY <2>1
<1>3. ASSUME NEW T \in SUBSET (1..n), T # {}, NEW h
      PROVE  /\ Greatest(T) \in 1..n
             /\ value(h, T) = h[T \ {Greatest(T)}] + a[Greatest(T)]
             /\ h[T \ {Greatest(T)}] \in Int =>
                  value(h, T) = step[<<Greatest(T), h[T \ {Greatest(T)}]>>]
  <2>1. Greatest(T) \in 1..n
    BY <1>3, GreatestIs
  <2>2. value(h, T) = h[T \ {Greatest(T)}]
                        + Insights!OrZero(rows[Greatest(T)][field])
    BY Zenon, <1>3 DEF Greatest
  <2>3. a[Greatest(T)] = Insights!OrZero(rows[Greatest(T)][field])
    BY <2>1 DEF Field
  <2> HIDE DEF value, a
  <2> QED BY <2>1, <2>2, <2>3
<1>4. ASSUME NEW h, IsWholeFold(h, n, Int, 0, step) PROVE made(h)
  <2>1. ASSUME NEW T \in SUBSET (1..n) PROVE h[T] = value(h, T)
    <3>1. CASE T = {} BY <3>1, <1>4 DEF IsWholeFold
    <3>2. CASE T # {}
      <4>1. T \ {Greatest(T)} \in SUBSET (1..n) OBVIOUS
      <4>2. h[T \ {Greatest(T)}] \in Int
        BY <1>4, <4>1 DEF IsWholeFold
      <4>3. h[T] = step[<<Greatest(T), h[T \ {Greatest(T)}]>>]
        BY <1>4, <3>2 DEF IsWholeFold
      <4> HIDE DEF value, step
      <4> QED BY <1>3, <3>2, <4>2, <4>3
    <3> QED BY <3>1, <3>2
  <2>2. h = [T \in SUBSET (1..n) |-> h[T]]
    BY <1>4 DEF IsWholeFold
  <2> HIDE DEF value
  <2> QED BY <2>1, <2>2
<1>5. ASSUME NEW h, made(h) PROVE IsLeftFold(h, n, Int, 0, step)
  <2> HIDE DEF step, a
  <2>1. \A T \in SUBSET (1..n) : h[T] = value(h, T)
    <3> HIDE DEF value
    <3> QED BY <1>5
  <2>2. h[{}] = 0
    BY <2>1
  <2> HIDE DEF value
  <2> QED BY <1>3, <2>1, <2>2 DEF IsLeftFold
<1> DEFINE g == CHOOSE h : made(h)
<1> HIDE DEF made, step
<1>6. made(g)
  <2>1. \E h : IsWholeFold(h, n, Int, 0, step)
    BY <1>0, <1>2, LeftFoldExists
  <2> QED BY <1>4, <2>1
<1> HIDE DEF g
<1>7. Runs(RunOf(g, n), n, Int, 0, step)
  BY <1>0, <1>2, <1>5, <1>6, LeftFoldRuns
<1>8. RunningSums(RunOf(g, n), n, a)
  <2> DEFINE r == RunOf(g, n)
  <2> HIDE DEF r, a
  <2>1. \A i \in 1..n : step[<<i, r[i - 1]>>] = r[i - 1] + a[i]
    <3> SUFFICES ASSUME NEW i \in 1..n
                 PROVE  step[<<i, r[i - 1]>>] = r[i - 1] + a[i]
      OBVIOUS
    <3>1. i - 1 \in 0..n OBVIOUS
    <3>2. r[i - 1] \in Int BY <1>7, <3>1 DEF Runs, r
    <3> QED BY <3>2 DEF step
  <2> QED BY <1>7, <2>1 DEF Runs, RunningSums, r
<1>9. RunOf(g, n)[n] = g[1..n]
  BY DEF RunOf
<1> QED BY <1>1, <1>8, <1>9 DEF g

\* Four sums of the SME's, and the ones of Total.
Sum4 == [gained : Int, lost : Int, views : Int, minutes : Int]
Zero4 == [gained |-> 0, lost |-> 0, views |-> 0, minutes |-> 0]
Add4(rows, i, acc) ==
    [gained  |-> acc.gained + Insights!OrZero(rows[i].gained),
     lost    |-> acc.lost + Insights!OrZero(rows[i].lost),
     views   |-> acc.views + Insights!OrZero(rows[i].views),
     minutes |-> acc.minutes + Insights!OrZero(rows[i].minutes)]

\* What the rows hold are integers, or missing.
HoldCounts(rows, n, fields) ==
    \A field \in fields : Field(rows, n, field) \in [1..n -> Int]

Growth == {"gained", "lost", "views", "minutes"}

\* The SME's four sums at once are the four sums of the creator.
LEMMA SmeTotalsAreTotals ==
    ASSUME NEW n \in Nat, NEW rows, DOMAIN rows = 1..n,
           HoldCounts(rows, n, Growth), NEW days
    PROVE  Insights!SmeTotals(rows, days)
             = Insights!aggregateAnalytics(rows, days)
<1> DEFINE value(h, T) == IF T = {} THEN Zero4
              ELSE Add4(rows, CHOOSE x \in T : \A y \in T : x >= y,
                        h[T \ {CHOOSE x \in T : \A y \in T : x >= y}])
           made(h) == h = [T \in SUBSET (1..n) |-> value(h, T)]
           step == [p \in (1..n) \X Sum4 |-> Add4(rows, p[1], p[2])]
           g == CHOOSE h : made(h)
<1>1. Insights!SmeTotals(rows, days)
        = [windowDays |-> days,
           followerGrowth |-> g[1..n].gained - g[1..n].lost,
           views |-> g[1..n].views, minutes |-> g[1..n].minutes]
  BY Zenon DEF Insights!SmeTotals, Insights!FoldLeft,
     Insights!MapThenFoldSet, Insights!Max, Add4, Zero4
<1>2. ASSUME NEW i \in 1..n
      PROVE  /\ Insights!OrZero(rows[i].gained) \in Int
             /\ Insights!OrZero(rows[i].lost) \in Int
             /\ Insights!OrZero(rows[i].views) \in Int
             /\ Insights!OrZero(rows[i].minutes) \in Int
  <2>1. \A field \in Growth : Insights!OrZero(rows[i][field]) \in Int
    BY DEF HoldCounts, Field
  <2>2. /\ "gained" \in Growth /\ "lost" \in Growth
        /\ "views" \in Growth /\ "minutes" \in Growth
    BY DEF Growth
  <2> QED BY <2>1, <2>2
<1>3. Zero4 \in Sum4
  BY DEF Zero4, Sum4
<1>4. step \in [(1..n) \X Sum4 -> Sum4]
  <2>1. \A i \in 1..n, acc \in Sum4 : Add4(rows, i, acc) \in Sum4
    BY SMTT(30), <1>2 DEF Add4, Sum4
  <2> QED BY <2>1
<1>5. ASSUME NEW T \in SUBSET (1..n), T # {}, NEW h
      PROVE  /\ Greatest(T) \in 1..n
             /\ value(h, T) = Add4(rows, Greatest(T), h[T \ {Greatest(T)}])
             /\ h[T \ {Greatest(T)}] \in Sum4 =>
                  value(h, T) = step[<<Greatest(T), h[T \ {Greatest(T)}]>>]
  <2>1. Greatest(T) \in 1..n
    BY <1>5, GreatestIs
  <2>2. value(h, T) = Add4(rows, Greatest(T), h[T \ {Greatest(T)}])
    BY Zenon, <1>5 DEF Greatest
  <2> HIDE DEF value
  <2> QED BY <2>1, <2>2
<1>6. ASSUME NEW h, IsWholeFold(h, n, Sum4, Zero4, step) PROVE made(h)
  <2>1. ASSUME NEW T \in SUBSET (1..n) PROVE h[T] = value(h, T)
    <3>1. CASE T = {} BY <3>1, <1>6 DEF IsWholeFold
    <3>2. CASE T # {}
      <4>1. T \ {Greatest(T)} \in SUBSET (1..n) OBVIOUS
      <4>2. h[T \ {Greatest(T)}] \in Sum4
        BY <1>6, <4>1 DEF IsWholeFold
      <4>3. h[T] = step[<<Greatest(T), h[T \ {Greatest(T)}]>>]
        BY <1>6, <3>2 DEF IsWholeFold
      <4> HIDE DEF value, step
      <4> QED BY <1>5, <3>2, <4>2, <4>3
    <3> QED BY <3>1, <3>2
  <2>2. h = [T \in SUBSET (1..n) |-> h[T]]
    BY <1>6 DEF IsWholeFold
  <2> HIDE DEF value
  <2> QED BY <2>1, <2>2
<1>7. ASSUME NEW h, made(h) PROVE IsLeftFold(h, n, Sum4, Zero4, step)
  <2> HIDE DEF step
  <2>1. \A T \in SUBSET (1..n) : h[T] = value(h, T)
    <3> HIDE DEF value
    <3> QED BY <1>7
  <2>2. h[{}] = Zero4
    BY <2>1
  <2> HIDE DEF value
  <2> QED BY <1>5, <2>1, <2>2 DEF IsLeftFold
<1> HIDE DEF made, step
<1>8. made(g)
  <2>1. \E h : IsWholeFold(h, n, Sum4, Zero4, step)
    BY <1>3, <1>4, LeftFoldExists
  <2> QED BY <1>6, <2>1
<1> HIDE DEF g
<1>9. Runs(RunOf(g, n), n, Sum4, Zero4, step)
  BY <1>3, <1>4, <1>7, <1>8, LeftFoldRuns
<1>10. ASSUME NEW field \in Growth
       PROVE  \E r : /\ RunningSums(r, n, Field(rows, n, field))
                     /\ Insights!Total(rows, field) = r[n]
  BY TotalAddsUp DEF HoldCounts
<1>11. PICK rg : /\ RunningSums(rg, n, Field(rows, n, "gained"))
                 /\ Insights!Total(rows, "gained") = rg[n]
  BY <1>10 DEF Growth
<1>12. PICK rl : /\ RunningSums(rl, n, Field(rows, n, "lost"))
                 /\ Insights!Total(rows, "lost") = rl[n]
  BY <1>10 DEF Growth
<1>13. PICK rv : /\ RunningSums(rv, n, Field(rows, n, "views"))
                 /\ Insights!Total(rows, "views") = rv[n]
  BY <1>10 DEF Growth
<1>14. PICK rm : /\ RunningSums(rm, n, Field(rows, n, "minutes"))
                 /\ Insights!Total(rows, "minutes") = rm[n]
  BY <1>10 DEF Growth
<1> DEFINE four(i) == [gained |-> rg[i], lost |-> rl[i],
                       views |-> rv[i], minutes |-> rm[i]]
           q == [i \in 0..n |-> four(i)]
<1>15. Runs(q, n, Sum4, Zero4, step)
  <2>1. \A i \in 0..n : four(i) \in Sum4
    BY <1>11, <1>12, <1>13, <1>14 DEF RunningSums, Sum4
  <2>2. q \in [0..n -> Sum4]
    BY <2>1
  <2>3. q[0] = Zero4
    BY <1>11, <1>12, <1>13, <1>14 DEF RunningSums, Zero4
  <2>4. ASSUME NEW i \in 1..n PROVE q[i] = step[<<i, q[i - 1]>>]
    <3>1. i \in 0..n /\ i - 1 \in 0..n OBVIOUS
    <3>2. q[i] = four(i) /\ q[i - 1] = four(i - 1) BY <3>1
    <3>3. step[<<i, q[i - 1]>>] = Add4(rows, i, four(i - 1))
      BY <2>1, <3>1, <3>2 DEF step
    <3>4. /\ rg[i] = rg[i - 1] + Insights!OrZero(rows[i].gained)
          /\ rl[i] = rl[i - 1] + Insights!OrZero(rows[i].lost)
          /\ rv[i] = rv[i - 1] + Insights!OrZero(rows[i].views)
          /\ rm[i] = rm[i - 1] + Insights!OrZero(rows[i].minutes)
      BY <1>11, <1>12, <1>13, <1>14 DEF RunningSums, Field
    <3>5. four(i) = Add4(rows, i, four(i - 1))
      BY <3>4 DEF Add4
    <3> QED BY <3>2, <3>3, <3>5
  <2> HIDE DEF q
  <2> QED BY <2>2, <2>3, <2>4 DEF Runs
<1>16. g[1..n] = four(n)
  <2>1. n \in 0..n OBVIOUS
  <2>2. RunOf(g, n)[n] = g[1..n] BY <2>1 DEF RunOf
  <2>3. q[n] = four(n) BY <2>1
  <2> HIDE DEF q, four
  <2>4. \A i \in 0..n : RunOf(g, n)[i] = q[i]
    BY <1>9, <1>15, RunsAreUnique
  <2> QED BY <2>1, <2>2, <2>3, <2>4
<1> QED
  BY <1>1, <1>11, <1>12, <1>13, <1>14, <1>16
     DEF Insights!aggregateAnalytics

\* A rate out of both sums at once is the one out of the sum of each.
LEMMA SmeRateIsRate ==
    ASSUME NEW n \in Nat, NEW rows, DOMAIN rows = 1..n,
           \A i \in 1..n : /\ rows[i].likeCount \in Int
                           /\ rows[i].commentCount \in Int
                           /\ rows[i].viewCount \in Int,
           Null \notin Int
    PROVE  Insights!SmeEngagementRate(rows)
             = Insights!computeEngagementRate(rows)
<1> DEFINE Pair == Int \X Int
           base == <<0, 0>>
           add(i, acc) == <<acc[1] + rows[i].likeCount + rows[i].commentCount,
                            acc[2] + rows[i].viewCount>>
           value(h, T) == IF T = {} THEN base
              ELSE add(CHOOSE x \in T : \A y \in T : x >= y,
                       h[T \ {CHOOSE x \in T : \A y \in T : x >= y}])
           made(h) == h = [T \in SUBSET (1..n) |-> value(h, T)]
           step == [p \in (1..n) \X Pair |-> add(p[1], p[2])]
           g == CHOOSE h : made(h)
<1>1. Insights!SmeEngagementRate(rows)
        = IF g[1..n][2] = 0 THEN <<0, 1>> ELSE g[1..n]
  <2> DEFINE k == CHOOSE h : h = [T \in SUBSET DOMAIN rows |-> value(h, T)]
  <2>1. Insights!SmeEngagementRate(rows)
          = IF k[DOMAIN rows][2] = 0 THEN <<0, 1>> ELSE k[DOMAIN rows]
    BY Zenon DEF Insights!SmeEngagementRate, Insights!FoldLeft,
       Insights!MapThenFoldSet, Insights!Max
  <2>2. k[DOMAIN rows] = g[1..n]
    <3> HIDE DEF value
    <3> QED BY Zenon
  <2> HIDE DEF k, g
  <2> QED BY <2>1, <2>2
<1>2. base \in Pair
  OBVIOUS
<1>3. step \in [(1..n) \X Pair -> Pair]
  <2>1. \A i \in 1..n, acc \in Pair : add(i, acc) \in Pair
    OBVIOUS
  <2> HIDE DEF add, Pair
  <2>2. \A p \in (1..n) \X Pair : p[1] \in 1..n /\ p[2] \in Pair
    OBVIOUS
  <2> QED BY <2>1, <2>2
<1> HIDE DEF base, Pair
<1>4. ASSUME NEW T \in SUBSET (1..n), T # {}, NEW h
      PROVE  /\ Greatest(T) \in 1..n
             /\ value(h, T) = add(Greatest(T), h[T \ {Greatest(T)}])
             /\ h[T \ {Greatest(T)}] \in Pair =>
                  value(h, T) = step[<<Greatest(T), h[T \ {Greatest(T)}]>>]
  <2> HIDE DEF add
  <2>1. Greatest(T) \in 1..n
    BY <1>4, GreatestIs
  <2>2. value(h, T) = add(Greatest(T), h[T \ {Greatest(T)}])
    BY Zenon, <1>4 DEF Greatest
  <2> HIDE DEF value
  <2> QED BY <2>1, <2>2
<1> HIDE DEF add
<1>5. ASSUME NEW h, IsWholeFold(h, n, Pair, base, step) PROVE made(h)
  <2>1. ASSUME NEW T \in SUBSET (1..n) PROVE h[T] = value(h, T)
    <3>1. CASE T = {} BY <3>1, <1>5 DEF IsWholeFold
    <3>2. CASE T # {}
      <4>1. T \ {Greatest(T)} \in SUBSET (1..n) OBVIOUS
      <4>2. h[T \ {Greatest(T)}] \in Pair
        BY <1>5, <4>1 DEF IsWholeFold
      <4>3. h[T] = step[<<Greatest(T), h[T \ {Greatest(T)}]>>]
        BY <1>5, <3>2 DEF IsWholeFold
      <4> HIDE DEF value, step
      <4> QED BY <1>4, <3>2, <4>2, <4>3
    <3> QED BY <3>1, <3>2
  <2>2. h = [T \in SUBSET (1..n) |-> h[T]]
    BY <1>5 DEF IsWholeFold
  <2> HIDE DEF value
  <2> QED BY <2>1, <2>2
<1>6. ASSUME NEW h, made(h) PROVE IsLeftFold(h, n, Pair, base, step)
  <2> HIDE DEF step
  <2>1. \A T \in SUBSET (1..n) : h[T] = value(h, T)
    <3> HIDE DEF value
    <3> QED BY <1>6
  <2>2. h[{}] = base
    BY <2>1
  <2> HIDE DEF value
  <2> QED BY <1>4, <2>1, <2>2 DEF IsLeftFold
<1> HIDE DEF made, step
<1>7. made(g)
  <2>1. \E h : IsWholeFold(h, n, Pair, base, step)
    BY <1>2, <1>3, LeftFoldExists
  <2> QED BY <1>5, <2>1
<1> HIDE DEF g
<1>8. Runs(RunOf(g, n), n, Pair, base, step)
  BY <1>2, <1>3, <1>6, <1>7, LeftFoldRuns
<1>9. ASSUME NEW field \in {"likeCount", "commentCount", "viewCount"}
      PROVE  /\ \A i \in 1..n : Field(rows, n, field)[i] = rows[i][field]
             /\ \E r : /\ RunningSums(r, n, Field(rows, n, field))
                       /\ Insights!Total(rows, field) = r[n]
  <2>1. \A i \in 1..n : rows[i][field] \in Int
    OBVIOUS
  <2>2. \A i \in 1..n : Field(rows, n, field)[i] = rows[i][field]
    BY <2>1 DEF Field, Insights!OrZero
  <2>3. Field(rows, n, field) \in [1..n -> Int]
    BY <2>1, <2>2 DEF Field
  <2> QED BY <2>2, <2>3, TotalAddsUp
<1>10. PICK rl : /\ RunningSums(rl, n, Field(rows, n, "likeCount"))
                 /\ Insights!Total(rows, "likeCount") = rl[n]
  BY <1>9
<1>11. PICK rc : /\ RunningSums(rc, n, Field(rows, n, "commentCount"))
                 /\ Insights!Total(rows, "commentCount") = rc[n]
  BY <1>9
<1>12. PICK rv : /\ RunningSums(rv, n, Field(rows, n, "viewCount"))
                 /\ Insights!Total(rows, "viewCount") = rv[n]
  BY <1>9
<1> DEFINE two(i) == <<rl[i] + rc[i], rv[i]>>
           q == [i \in 0..n |-> two(i)]
<1>13. Runs(q, n, Pair, base, step)
  <2>1. \A i \in 0..n : rl[i] \in Int /\ rc[i] \in Int /\ rv[i] \in Int
    BY <1>10, <1>11, <1>12 DEF RunningSums
  <2>2. \A i \in 0..n : two(i) \in Pair
    BY <2>1 DEF Pair
  <2>3. q \in [0..n -> Pair]
    BY <2>2
  <2>4. q[0] = base
    BY <1>10, <1>11, <1>12 DEF RunningSums, base
  <2>5. ASSUME NEW i \in 1..n PROVE q[i] = step[<<i, q[i - 1]>>]
    <3>1. i \in 0..n /\ i - 1 \in 0..n OBVIOUS
    <3>2. q[i] = two(i) /\ q[i - 1] = two(i - 1) BY <3>1
    <3>3. step[<<i, q[i - 1]>>] = add(i, two(i - 1))
      BY <2>2, <3>1, <3>2 DEF step
    <3>4. /\ rl[i] = rl[i - 1] + rows[i].likeCount
          /\ rc[i] = rc[i - 1] + rows[i].commentCount
          /\ rv[i] = rv[i - 1] + rows[i].viewCount
      BY SMTT(30), <1>9, <1>10, <1>11, <1>12 DEF RunningSums
    <3>5. /\ rl[i] + rc[i]
               = rl[i - 1] + rc[i - 1] + rows[i].likeCount
                   + rows[i].commentCount
          /\ rv[i] = rv[i - 1] + rows[i].viewCount
      <4> DEFINE x == rl[i - 1]  y == rc[i - 1]
                 a == rows[i].likeCount  b == rows[i].commentCount
      <4>1. /\ x \in Int /\ y \in Int /\ a \in Int /\ b \in Int
            /\ rl[i] = x + a /\ rc[i] = y + b
        BY <2>1, <3>1, <3>4
      <4> HIDE DEF x, y, a, b
      <4>2. rl[i] + rc[i] = x + y + a + b
        BY <4>1
      <4> QED BY <3>4, <4>2 DEF x, y, a, b
    <3>6. add(i, two(i - 1))
            = <<rl[i - 1] + rc[i - 1] + rows[i].likeCount
                  + rows[i].commentCount, rv[i - 1] + rows[i].viewCount>>
      BY DEF add
    <3> QED BY <3>2, <3>3, <3>5, <3>6
  <2> HIDE DEF q
  <2> QED BY <2>3, <2>4, <2>5 DEF Runs
<1>14. g[1..n] = two(n)
  <2>1. n \in 0..n OBVIOUS
  <2>2. RunOf(g, n)[n] = g[1..n] BY <2>1 DEF RunOf
  <2>3. q[n] = two(n) BY <2>1
  <2> HIDE DEF q, two
  <2>4. \A i \in 0..n : RunOf(g, n)[i] = q[i]
    BY <1>8, <1>13, RunsAreUnique
  <2> QED BY <2>1, <2>2, <2>3, <2>4
<1> QED
  BY <1>1, <1>10, <1>11, <1>12, <1>14 DEF Insights!computeEngagementRate

\* Ranks are the same inside of CreatorInsights.
LEMMA SameRanks ==
    ASSUME NEW K, NEW R
    PROVE  /\ Insights!ByRank(K, R) = ByRank(K, R)
           /\ Insights!UpTo(K) = UpTo(K)
           /\ Insights!Stably(K, R) = Stably(K, R)
<1>1. Insights!ByRank(K, R) = ByRank(K, R)
  BY Zenon DEF Insights!ByRank, ByRank, Insights!Cardinality, Cardinality
<1> QED
  BY Zenon, <1>1 DEF Insights!UpTo, UpTo, Insights!Stably, Stably

\* t holds the members of s at the indices K, each once.
Selects(t, s, K) ==
    \E m \in Nat : \E q : /\ IsListing(q, m, K)
                          /\ t = [k \in 1..m |-> s[q[k]]]

\* What is placed by its rank is each member once.
LEMMA RankedSelects ==
    ASSUME NEW s, NEW K, IsFiniteSet(K), NEW R, Orders(R, K)
    PROVE  Selects([k \in DOMAIN ByRank(K, R) |-> s[ByRank(K, R)[k]]], s, K)
<1> DEFINE q == ByRank(K, R)
           m == Cardinality(K)
<1>1. IsListing(q, m, K)
  BY RanksList
<1>2. DOMAIN q = 1..m
  BY <1>1 DEF IsListing
<1>3. m \in Nat
  BY FS_CardinalityType
<1> HIDE DEF q, m
<1>4. Selects([k \in DOMAIN q |-> s[q[k]]], s, K)
  BY <1>1, <1>2, <1>3 DEF Selects
<1> QED BY <1>4 DEF q

\* What of some rows is dated from a moment on.
From(rows, e) ==
    LET InIt(row) == row.analyticsDate >= e IN Insights!Filtered(rows, InIt)

\* Where they stand, by their dates and by their days.
DatedFrom(rows, n, e) == {i \in 1..n : rows[i].analyticsDate >= e}
DaysFrom(rows, n, from) ==
    {i \in 1..n : rows[i].analyticsDate \div Day >= from}

\* Keeping the rows dated from a moment on keeps those places, in order.
LEMMA FromSelects ==
    ASSUME NEW n \in Nat, NEW rows, DOMAIN rows = 1..n, NEW e
    PROVE  Selects(From(rows, e), rows, DatedFrom(rows, n, e))
<1> DEFINE K == {i \in 1..n : rows[i].analyticsDate >= e}
<1>1. Orders(UpTo(K), K) /\ IsFiniteSet(K)
  <2>1. K \in SUBSET (1..n) OBVIOUS
  <2> HIDE DEF K
  <2> QED BY <2>1, UpToOrders
<1>2. From(rows, e) = [k \in DOMAIN ByRank(K, UpTo(K)) |->
                          rows[ByRank(K, UpTo(K))[k]]]
  BY ZenonT(40), SameRanks DEF From, Insights!Filtered
<1> HIDE DEF K
<1>3. Selects(From(rows, e), rows, K)
  BY <1>1, <1>2, RankedSelects
<1> QED BY <1>3 DEF K, DatedFrom

\* A comparison of keys.
ByKey(n, key) == {p \in (1..n) \X (1..n) : key[p[1]] < key[p[2]]}

\* Keys that are numbers compare as an order of an array needs.
LEMMA KeysCompare ==
    ASSUME NEW n \in Nat, NEW key \in [1..n -> Int]
    PROVE  Compares(ByKey(n, key), 1..n)
<1>1. \A i, j \in 1..n : <<i, j>> \in ByKey(n, key) <=> key[i] < key[j]
  BY DEF ByKey
<1>2. \A i \in 1..n : key[i] \in Int
  OBVIOUS
<1>3. \A i, j \in 1..n :
         <<i, j>> \in ByKey(n, key) => <<j, i>> \notin ByKey(n, key)
  BY <1>1, <1>2
<1>4. ASSUME NEW i \in 1..n, NEW j \in 1..n, NEW k \in 1..n,
             <<i, k>> \in ByKey(n, key)
      PROVE  <<i, j>> \in ByKey(n, key) \/ <<j, k>> \in ByKey(n, key)
  <2>1. key[i] < key[k] /\ key[i] \in Int /\ key[j] \in Int
          /\ key[k] \in Int
    BY <1>1, <1>2, <1>4
  <2>2. key[i] < key[j] \/ key[j] < key[k]
    BY <2>1
  <2> QED BY <1>1, <2>2
<1> QED BY <1>3, <1>4 DEF Compares

\* Sorting by a comparison loses nothing and repeats nothing.
LEMMA StablySelects ==
    ASSUME NEW n \in Nat, NEW s, DOMAIN s = 1..n, NEW R, Compares(R, 1..n)
    PROVE  Selects([k \in DOMAIN ByRank(1..n, Stably(1..n, R)) |->
                       s[ByRank(1..n, Stably(1..n, R))[k]]], s, 1..n)
<1>1. IsFiniteSet(1..n)
  BY FS_Interval
<1>2. Orders(Stably(1..n, R), 1..n)
  BY StablyOrders
<1> QED BY <1>1, <1>2, RankedSelects

\* The rows of the analytics by their date, and the videos by their views.
Oldest(rows) ==
    Insights!Sorted(rows, LAMBDA a, b : a.analyticsDate < b.analyticsDate)
MostViewed(rows) ==
    Insights!Sorted(rows, LAMBDA a, b : Insights!OrZero(a.viewCount)
                                          > Insights!OrZero(b.viewCount))

\* Sorting by the date loses no row and makes none up.
LEMMA OldestSelects ==
    ASSUME NEW n \in Nat, NEW rows, DOMAIN rows = 1..n,
           \A i \in 1..n : rows[i].analyticsDate \in Int
    PROVE  Selects(Oldest(rows), rows, 1..n)
<1> DEFINE R == {p \in (1..n) \X (1..n) :
                    rows[p[1]].analyticsDate < rows[p[2]].analyticsDate}
           q == ByRank(1..n, Stably(1..n, R))
           key == [i \in 1..n |-> rows[i].analyticsDate]
<1>1. Oldest(rows) = [k \in DOMAIN q |-> rows[q[k]]]
  BY ZenonT(40), SameRanks DEF Oldest, Insights!Sorted
<1>2. R = ByKey(n, key)
  BY DEF ByKey
<1>3. key \in [1..n -> Int]
  OBVIOUS
<1> HIDE DEF key
<1>4. Compares(R, 1..n)
  BY <1>2, <1>3, KeysCompare
<1> HIDE DEF R
<1> QED BY <1>1, <1>4, StablySelects

\* Neither does sorting by the date, the newest first.
LEMMA NewerSelects ==
    ASSUME NEW n \in Nat, NEW rows, DOMAIN rows = 1..n,
           \A i \in 1..n : rows[i].analyticsDate \in Int
    PROVE  Selects(Insights!Sorted(rows, Insights!Newer), rows, 1..n)
<1> DEFINE R == {p \in (1..n) \X (1..n) :
                    Insights!Newer(rows[p[1]], rows[p[2]])}
           q == ByRank(1..n, Stably(1..n, R))
           key == [i \in 1..n |-> -rows[i].analyticsDate]
<1>1. Insights!Sorted(rows, Insights!Newer) = [k \in DOMAIN q |-> rows[q[k]]]
  BY ZenonT(40), SameRanks DEF Insights!Sorted
<1>2. R = ByKey(n, key)
  BY DEF ByKey, Insights!Newer
<1>3. key \in [1..n -> Int]
  OBVIOUS
<1> HIDE DEF key
<1>4. Compares(R, 1..n)
  BY <1>2, <1>3, KeysCompare
<1> HIDE DEF R
<1> QED BY <1>1, <1>4, StablySelects

\* Neither does sorting the videos by their views.
LEMMA MostViewedSelects ==
    ASSUME NEW n \in Nat, NEW rows, DOMAIN rows = 1..n,
           \A i \in 1..n : Insights!OrZero(rows[i].viewCount) \in Int
    PROVE  Selects(MostViewed(rows), rows, 1..n)
<1> DEFINE R == {p \in (1..n) \X (1..n) :
                    Insights!OrZero(rows[p[1]].viewCount)
                      > Insights!OrZero(rows[p[2]].viewCount)}
           q == ByRank(1..n, Stably(1..n, R))
           key == [i \in 1..n |-> -Insights!OrZero(rows[i].viewCount)]
<1>1. MostViewed(rows) = [k \in DOMAIN q |-> rows[q[k]]]
  BY ZenonT(40), SameRanks DEF MostViewed, Insights!Sorted
<1>2. R = ByKey(n, key)
  BY DEF ByKey
<1>3. key \in [1..n -> Int]
  OBVIOUS
<1> HIDE DEF key
<1>4. Compares(R, 1..n)
  BY <1>2, <1>3, KeysCompare
<1> HIDE DEF R
<1> QED BY <1>1, <1>4, StablySelects

\* What SumOver adds of a series, and adding it.
Added(series, n, from, field) ==
    [k \in 1..n |-> IF series[k].date >= from THEN series[k][field] ELSE 0]

\* SumOver is the last of the running sums of what it adds.
LEMMA SumOverAddsUp ==
    ASSUME NEW n \in Nat, NEW series, Len(series) = n, NEW from, NEW field,
           Added(series, n, from, field) \in [1..n -> Int]
    PROVE  \E r : /\ RunningSums(r, n, Added(series, n, from, field))
                  /\ SumOver(series, from, field) = r[n]
<1> DEFINE a == Added(series, n, from, field)
           value(h, k) == IF k = 0 THEN 0
              ELSE h[k - 1] + IF series[k].date >= from
                              THEN series[k][field] ELSE 0
           made(h) == h = [k \in 0..n |-> value(h, k)]
           g == CHOOSE h : made(h)
<1>1. SumOver(series, from, field) = g[n]
  BY Zenon DEF SumOver
<1>2. ASSUME NEW h PROVE made(h) <=> AddsUp(h, n, a)
  <2> DEFINE other(k) == IF k = 0 THEN 0 ELSE h[k - 1] + a[k]
  <2>1. ASSUME NEW k \in 0..n PROVE value(h, k) = other(k)
    <3>1. CASE k = 0 BY <3>1
    <3>2. CASE k # 0
      <4>1. k \in 1..n BY <3>2
      <4>2. a[k] = IF series[k].date >= from THEN series[k][field] ELSE 0
        BY <4>1 DEF Added
      <4> QED BY <3>2, <4>2
    <3> QED BY <3>1, <3>2
  <2>2. AddsUp(h, n, a) <=> h = [k \in 0..n |-> other(k)]
    BY DEF AddsUp
  <2> HIDE DEF value, other
  <2> QED BY <2>1, <2>2
<1> HIDE DEF made, a
<1>3. a \in [1..n -> Int]
  BY DEF a
<1>4. AddsUp(g, n, a)
  BY <1>2, <1>3, PrefixSumsExist
<1>5. RunningSums(g, n, a)
  BY <1>3, <1>4, PrefixSums
<1> HIDE DEF g
<1> QED BY <1>1, <1>5 DEF a

\* The total of the rows of some days is the sum over their days in the time
\* series, however the two are ordered.
LEMMA SeriesSum ==
    ASSUME NEW n \in Nat, NEW rows, DOMAIN rows = 1..n,
           \A i \in 1..n : rows[i].analyticsDate \in Nat,
           NEW field \in Growth, Field(rows, n, field) \in [1..n -> Int],
           Day \in Nat \ {0}, NEW from \in Int, NEW kept,
           Selects(kept, rows, DaysFrom(rows, n, from))
    PROVE  Insights!Total(kept, field)
             = SumOver(Insights!buildTimeSeries(rows), from, field)
<1> DEFINE K == {i \in 1..n : rows[i].analyticsDate \div Day >= from}
           F == Field(rows, n, field)
           f == [i \in 1..n |-> IF i \in K THEN F[i] ELSE 0]
           series == Insights!buildTimeSeries(rows)
<1>1. f \in [1..n -> Int] /\ \A i \in (1..n) \ K : f[i] = 0
  <2> HIDE DEF K, F
  <2>1. F \in [1..n -> Int] BY DEF F
  <2> QED BY <2>1
<1>2. IsFiniteSet(1..n) /\ K \in SUBSET (1..n)
  BY FS_Interval
<1>3. PICK g : Sums(g, 1..n, f)
  BY <1>1, <1>2, SumExists, SumIsOfAll
<1>4. Insights!Total(kept, field) = g[1..n]
  <2>1. PICK m, p : /\ m \in Nat /\ IsListing(p, m, K)
                    /\ kept = [k \in 1..m |-> rows[p[k]]]
    <3>1. Selects(kept, rows, K)
      BY DEF DaysFrom
    <3> HIDE DEF K
    <3> QED BY <3>1 DEF Selects
  <2>0. m \in Nat
    BY <2>1
  <2>2. ASSUME NEW k \in 1..m
        PROVE  p[k] \in K /\ p[k] \in 1..n /\ f[p[k]] = F[p[k]]
               /\ Field(kept, m, field)[k] = F[p[k]]
    <3>1. p[k] \in K /\ p[k] \in 1..n
      BY <2>1 DEF IsListing
    <3>2. Field(kept, m, field)[k] = Insights!OrZero(rows[p[k]][field])
      BY <2>1 DEF Field
    <3>3. F[p[k]] = Insights!OrZero(rows[p[k]][field])
      BY <3>1 DEF Field
    <3>4. f[p[k]] = F[p[k]]
      <4> HIDE DEF K, F
      <4> QED BY <3>1
    <3> HIDE DEF K, F, f
    <3> QED BY <3>1, <3>2, <3>3, <3>4
  <2> HIDE DEF K, f
  <2>3. Field(kept, m, field) \in [1..m -> Int]
    <3>1. \A k \in 1..m : Field(kept, m, field)[k] \in Int
      BY <2>2
    <3>2. Field(kept, m, field) = [k \in 1..m |-> Field(kept, m, field)[k]]
      BY DEF Field
    <3> QED BY <3>1, <3>2
  <2>4. DOMAIN kept = 1..m
    BY <2>1
  <2>5. PICK r : /\ RunningSums(r, m, Field(kept, m, field))
                 /\ Insights!Total(kept, field) = r[m]
    BY <2>0, <2>3, <2>4, TotalAddsUp
  <2>6. RunsAlong(r, m, f, p)
    BY <2>2, <2>5 DEF RunningSums, RunsAlong
  <2>7. ZeroOutside(f, 1..n, K)
    BY <1>1 DEF ZeroOutside
  <2> DEFINE S == 1..n
  <2>8. /\ IsFiniteSet(S) /\ K \in SUBSET S /\ f \in [S -> Int]
        /\ Sums(g, S, f) /\ ZeroOutside(f, S, K) /\ IsListing(p, m, K)
    BY <1>1, <1>2, <1>3, <2>1, <2>7
  <2> HIDE DEF S
  <2>9. r[m] = g[S]
    BY <2>0, <2>6, <2>8, SumAlongPart
  <2> QED BY <2>5, <2>9 DEF S
<1>5. SumOver(series, from, field) = g[1..n]
  <2>1. Selects(Oldest(rows), rows, 1..n)
    BY OldestSelects
  <2>2. PICK m, q : /\ m \in Nat /\ IsListing(q, m, 1..n)
                    /\ Oldest(rows) = [k \in 1..m |-> rows[q[k]]]
    BY <2>1 DEF Selects
  <2>0. m \in Nat
    BY <2>2
  <2>3. series = [k \in DOMAIN Oldest(rows) |->
                   [date |-> Oldest(rows)[k].analyticsDate \div Day,
                    views |-> Insights!OrZero(Oldest(rows)[k].views),
                    minutes |-> Insights!OrZero(Oldest(rows)[k].minutes),
                    gained |-> Insights!OrZero(Oldest(rows)[k].gained),
                    lost |-> Insights!OrZero(Oldest(rows)[k].lost)]]
    BY Zenon DEF Insights!buildTimeSeries, Oldest
  <2>4. series = [k \in 1..m |->
                   [date |-> rows[q[k]].analyticsDate \div Day,
                    views |-> Insights!OrZero(rows[q[k]].views),
                    minutes |-> Insights!OrZero(rows[q[k]].minutes),
                    gained |-> Insights!OrZero(rows[q[k]].gained),
                    lost |-> Insights!OrZero(rows[q[k]].lost)]]
    <3> HIDE DEF series
    <3> QED BY <2>2, <2>3
  <2> HIDE DEF series
  <2>5. Len(series) = m
    BY <2>0, <2>4
  <2>6. ASSUME NEW k \in 1..m
        PROVE  /\ q[k] \in 1..n /\ Added(series, m, from, field)[k] = f[q[k]]
               /\ f[q[k]] \in Int
    <3>1. q[k] \in 1..n /\ f[q[k]] \in Int
      BY <1>1, <2>2 DEF IsListing
    <3>2. /\ series[k].date = rows[q[k]].analyticsDate \div Day
          /\ series[k].views = Insights!OrZero(rows[q[k]].views)
          /\ series[k].minutes = Insights!OrZero(rows[q[k]].minutes)
          /\ series[k].gained = Insights!OrZero(rows[q[k]].gained)
          /\ series[k].lost = Insights!OrZero(rows[q[k]].lost)
      BY <2>4
    <3>3. series[k][field] = Insights!OrZero(rows[q[k]][field])
      BY <3>2 DEF Growth
    <3>4. F[q[k]] = Insights!OrZero(rows[q[k]][field])
      BY <3>1 DEF Field
    <3>5. q[k] \in K <=> series[k].date >= from
      BY <3>1, <3>2
    <3>6. Added(series, m, from, field)[k]
            = IF series[k].date >= from THEN series[k][field] ELSE 0
      BY DEF Added
    <3>7. f[q[k]] = IF q[k] \in K THEN F[q[k]] ELSE 0
      <4> HIDE DEF K, F
      <4> QED BY <3>1
    <3> HIDE DEF K, F, f
    <3> QED BY <3>1, <3>3, <3>4, <3>5, <3>6, <3>7
  <2> HIDE DEF K, f
  <2>7. Added(series, m, from, field) \in [1..m -> Int]
    <3>1. \A k \in 1..m : Added(series, m, from, field)[k] \in Int
      BY <2>6
    <3>2. Added(series, m, from, field)
            = [k \in 1..m |-> Added(series, m, from, field)[k]]
      BY DEF Added
    <3> QED BY <3>1, <3>2
  <2>8. PICK r : /\ RunningSums(r, m, Added(series, m, from, field))
                 /\ SumOver(series, from, field) = r[m]
    <3> DEFINE s == series
    <3>1. Len(s) = m /\ Added(s, m, from, field) \in [1..m -> Int]
      BY <2>5, <2>7
    <3> HIDE DEF s
    <3>2. \E r : /\ RunningSums(r, m, Added(s, m, from, field))
                 /\ SumOver(s, from, field) = r[m]
      BY <2>0, <3>1, SumOverAddsUp
    <3> QED BY <3>2 DEF s
  <2>9. RunsAlong(r, m, f, q)
    BY <2>6, <2>8 DEF RunningSums, RunsAlong
  <2> DEFINE S == 1..n
  <2>10. f \in [S -> Int] /\ Sums(g, S, f) /\ IsListing(q, m, S)
    BY <1>1, <1>3, <2>2
  <2> HIDE DEF S
  <2>11. r[m] = g[S]
    BY <2>0, <2>9, <2>10, SumAlong
  <2> QED BY <2>8, <2>11 DEF S
<1> HIDE DEF series
<1> QED BY <1>4, <1>5 DEF series

\* The first day with a row in the week that ends at a moment.
FirstDay(later) == (later + Day - 1) \div Day - 6

\* It is one of two days.
LEMMA FirstDayIsRecent ==
    ASSUME Day \in Nat \ {0}, NEW later \in Int
    PROVE  /\ FirstDay(later) \in Int
           /\ FirstDay(later) \in {later \div Day - 6, later \div Day - 5}
<1> DEFINE q == later \div Day
           w == (later + Day - 1) \div Day
<1>1. later + Day - 1 \in Int
  OBVIOUS
<1>2. q \in Int /\ Day * q <= later /\ later < Day * q + Day
  BY Quotient
<1>3. w \in Int
  BY <1>1, Quotient
<1> HIDE DEF q, w
<1>4. Day * q <= later + Day - 1
  <2> DEFINE a == Day * q
  <2>1. a \in Int /\ a <= later BY <1>2
  <2> HIDE DEF a
  <2>2. a <= later + Day - 1 BY <2>1
  <2> QED BY <2>2 DEF a
<1>5. later + Day - 1 < Day * (q + 1) + Day
  <2> DEFINE a == Day * q
  <2>1. a \in Int /\ later < a + Day BY <1>2
  <2>2. Day * (q + 1) = a + Day BY <1>2
  <2> HIDE DEF a
  <2> QED BY <2>1, <2>2
<1>6. q <= w /\ w <= q + 1
  <2> DEFINE x == later + Day - 1
             b == q + 1
  <2>1. x \in Int /\ b \in Int
    BY <1>2
  <2>2. Day * q <= x /\ x < Day * b + Day
    BY <1>4, <1>5
  <2>3. w = x \div Day
    BY DEF w
  <2> HIDE DEF x, b
  <2>4. q <= w /\ w <= b
    BY <1>2, <2>1, <2>2, <2>3, QuotientBounds
  <2> QED BY <2>4 DEF b
<1>7. w = q \/ w = q + 1
  BY <1>2, <1>3, <1>6
<1>8. FirstDay(later) = w - 6
  BY DEF FirstDay, w
<1> QED BY <1>2, <1>3, <1>7, <1>8 DEF q

\* A row is dated at a midnight, and so it is of the week where its day is.
LEMMA WeekStartsAtMidnight ==
    ASSUME Day \in Nat \ {0}, NEW d \in Nat, Day * (d \div Day) = d,
           NEW later \in Int
    PROVE  d >= Insights!Since(later, 7) <=> d \div Day >= FirstDay(later)
<1> DEFINE k == d \div Day
           w == (later + Day - 1) \div Day
<1>1. later + Day - 1 \in Int /\ k \in Int
  BY Quotient
<1>2. /\ w \in Int
      /\ Day * w <= later + Day - 1
      /\ later + Day - 1 < Day * w + Day
  BY <1>1, Quotient
<1>3. Insights!Since(later, 7) = later - 6 * Day
  BY DEF Insights!Since
<1> HIDE DEF k, w
<1>4. ASSUME k >= w - 6 PROVE d >= later - 6 * Day
  <2>1. Day * (k + 6) >= Day * w
    <3>1. k + 6 >= w BY <1>1, <1>2, <1>4
    <3>2. k + 6 \in Int BY <1>1
    <3> DEFINE x == k + 6
    <3> HIDE DEF x
    <3> QED BY <1>2, <3>1, <3>2, SMT DEF x
  <2>2. Day * (k + 6) = Day * k + 6 * Day
    BY <1>1
  <2>3. d = Day * k
    BY DEF k
  <2> DEFINE a == Day * k  b == Day * w
  <2>4. a \in Int /\ b \in Int
    BY <1>1, <1>2
  <2>5. a + 6 * Day >= b /\ later - 1 < b
    BY <1>2, <2>1, <2>2
  <2> HIDE DEF a, b
  <2>6. d = a BY <2>3 DEF a
  <2> QED BY <2>4, <2>5, <2>6
<1>5. ASSUME d >= later - 6 * Day PROVE k >= w - 6
  <2> SUFFICES ASSUME k + 6 <= w - 1 PROVE FALSE
    BY <1>1, <1>2
  <2>1. Day * (k + 6) <= Day * (w - 1)
    <3> DEFINE x == k + 6  y == w - 1
    <3>1. x \in Int /\ y \in Int /\ x <= y
      BY <1>1, <1>2
    <3> HIDE DEF x, y
    <3>2. Day * x <= Day * y
      BY <3>1
    <3> QED BY <3>2 DEF x, y
  <2>2. Day * (k + 6) = Day * k + 6 * Day /\ Day * (w - 1) = Day * w - Day
    BY <1>1, <1>2
  <2>3. d = Day * k
    BY DEF k
  <2> DEFINE a == Day * k  b == Day * w
  <2>4. a \in Int /\ b \in Int
    BY <1>1, <1>2
  <2>5. a + 6 * Day <= b - Day /\ b <= later + Day - 1
    BY <1>2, <2>1, <2>2
  <2> HIDE DEF a, b
  <2>6. d = a BY <2>3 DEF a
  <2> QED BY <1>5, <2>4, <2>5, <2>6
<1> QED BY <1>3, <1>4, <1>5 DEF k, w, FirstDay

\* Some rows, n of them.
AreRows(rows, n) ==
    /\ n \in Nat /\ rows = [i \in 1..n |-> rows[i]]
    /\ \A i \in 1..n : Insights!IsRow(rows[i])

AreVideos(rows, n) ==
    /\ n \in Nat /\ rows = [i \in 1..n |-> rows[i]]
    /\ \A i \in 1..n : Insights!IsVideo(rows[i])

\* t are m of s at the indices K.
AreOf(t, m, s, K) ==
    /\ m \in Nat /\ t = [k \in 1..m |-> t[k]]
    /\ \A k \in 1..m : \E i \in K : t[k] = s[i]

\* What is selected is of what it is selected from.
LEMMA SelectedOf ==
    ASSUME NEW t, NEW s, NEW K, Selects(t, s, K)
    PROVE  \E m : AreOf(t, m, s, K)
<1>1. PICK m, q : /\ m \in Nat /\ IsListing(q, m, K)
                  /\ t = [k \in 1..m |-> s[q[k]]]
  BY DEF Selects
<1>2. \A k \in 1..m : q[k] \in K
  BY <1>1 DEF IsListing
<1>3. \A k \in 1..m : t[k] = s[q[k]]
  BY <1>1
<1>4. t = [k \in 1..m |-> t[k]]
  BY <1>1
<1> QED BY <1>1, <1>2, <1>3, <1>4 DEF AreOf

\* The rows of a channel within the window.
LEMMA RowsOfChannel ==
    ASSUME NEW channel, Insights!IsChannel(channel), NEW since
    PROVE  \E n : AreRows(Insights!getAnalyticsSince(channel, since), n)
<1> DEFINE a == channel.analytics
           kept == From(a, since)
           rows == Insights!getAnalyticsSince(channel, since)
<1>1. rows = Insights!Sorted(kept, Insights!Newer)
  BY Zenon DEF Insights!getAnalyticsSince, From
<1>2. PICK n : /\ n \in Nat /\ DOMAIN a = 1..n
               /\ \A i \in 1..n : Insights!IsRow(a[i])
  BY DEF Insights!IsChannel
<1> HIDE DEF a, kept, rows
<1>3. Selects(kept, a, DatedFrom(a, n, since))
  BY <1>2, FromSelects DEF kept
<1>4. PICK m : AreOf(kept, m, a, DatedFrom(a, n, since))
  BY <1>3, SelectedOf
<1>5. DOMAIN kept = 1..m /\ \A k \in 1..m : Insights!IsRow(kept[k])
  <2>1. DOMAIN kept = 1..m
    BY <1>4 DEF AreOf
  <2>2. \A k \in 1..m : \E i \in 1..n : kept[k] = a[i]
    BY <1>4 DEF AreOf, DatedFrom
  <2> QED BY <1>2, <2>1, <2>2
<1>6. \A k \in 1..m : kept[k].analyticsDate \in Int
  BY <1>5 DEF Insights!IsRow
<1>7. Selects(rows, kept, 1..m)
  BY <1>1, <1>4, <1>5, <1>6, NewerSelects DEF AreOf
<1>8. PICK l : AreOf(rows, l, kept, 1..m)
  BY <1>7, SelectedOf
<1>9. \A k \in 1..l : Insights!IsRow(rows[k])
  BY <1>5, <1>8 DEF AreOf
<1> QED BY <1>8, <1>9 DEF AreRows, AreOf, rows

\* The videos of a channel that are shown.
LEMMA VideosOfChannel ==
    ASSUME NEW channel, Insights!IsChannel(channel), NEW limit \in Nat,
           NEW rows \in Insights!getRecentVideosWithScores(channel, limit)
    PROVE  \E n : AreVideos(rows, n)
<1> DEFINE videos == channel.videos
           size == Cardinality(videos)
           n == IF size < limit THEN size ELSE limit
<1>1. Insights!Cardinality(videos) = size
  BY Zenon DEF Insights!Cardinality, Cardinality
<1>2. rows \in [1..n -> videos]
  <2> DEFINE m == IF Insights!Cardinality(videos) < limit
                  THEN Insights!Cardinality(videos) ELSE limit
  <2>1. rows \in [1..m -> videos]
    BY DEF Insights!getRecentVideosWithScores
  <2>2. m = n
    BY <1>1
  <2> QED BY <2>1, <2>2
<1>3. IsFiniteSet(videos) /\ \A v \in videos : Insights!IsVideo(v)
  BY DEF Insights!IsChannel, Insights!IsFiniteSet, IsFiniteSet
<1> HIDE DEF videos
<1>4. size \in Nat
  BY <1>3, FS_CardinalityType
<1> HIDE DEF size
<1>5. n \in Nat
  BY <1>4
<1> HIDE DEF n
<1>6. AreVideos(rows, n)
  BY <1>2, <1>3, <1>5 DEF AreVideos
<1> QED BY <1>6

\* The counts of a row.
LEMMA RowCounts ==
    ASSUME NEW n, NEW rows, AreRows(rows, n), Null \notin Int
    PROVE  HoldCounts(rows, n, Growth)
<1> SUFFICES ASSUME NEW field \in Growth
             PROVE  Field(rows, n, field) \in [1..n -> Int]
  BY DEF HoldCounts
<1>1. \A i \in 1..n : rows[i][field] \in Int \cup {Null}
  BY DEF AreRows, Insights!IsRow, Insights!IsCount, Growth
<1>2. \A i \in 1..n : Insights!OrZero(rows[i][field]) \in Int
  BY <1>1 DEF Insights!OrZero
<1> QED BY <1>2 DEF Field

\* A growth of the insights is that of the days of the time series.
LEMMA GrowthAdds ==
    ASSUME NEW n, NEW rows, AreRows(rows, n), Null \notin Int,
           Day \in Nat \ {0}, NEW from \in Int, NEW kept, NEW days,
           Selects(kept, rows, DaysFrom(rows, n, from))
    PROVE  Adds(Insights!aggregateAnalytics(kept, days),
                Insights!buildTimeSeries(rows), from)
<1>1. /\ n \in Nat /\ DOMAIN rows = 1..n
      /\ \A i \in 1..n : rows[i].analyticsDate \in Nat
  BY DEF AreRows, Insights!IsRow
<1>2. HoldCounts(rows, n, Growth)
  BY RowCounts
<1>3. ASSUME NEW field \in Growth
      PROVE  Insights!Total(kept, field)
               = SumOver(Insights!buildTimeSeries(rows), from, field)
  <2>1. Field(rows, n, field) \in [1..n -> Int]
    BY <1>2 DEF HoldCounts
  <2> QED BY <1>1, <2>1, SeriesSum
<1>4. /\ "gained" \in Growth /\ "lost" \in Growth
      /\ "views" \in Growth /\ "minutes" \in Growth
  BY DEF Growth
<1>5. /\ Insights!Total(kept, "gained")
           = SumOver(Insights!buildTimeSeries(rows), from, "gained")
      /\ Insights!Total(kept, "lost")
           = SumOver(Insights!buildTimeSeries(rows), from, "lost")
      /\ Insights!Total(kept, "views")
           = SumOver(Insights!buildTimeSeries(rows), from, "views")
      /\ Insights!Total(kept, "minutes")
           = SumOver(Insights!buildTimeSeries(rows), from, "minutes")
  BY <1>3, <1>4
<1> QED BY <1>5 DEF Adds, Insights!aggregateAnalytics

\* The month is of all the rows, and the week of its days.
LEMMA GrowthsAdd ==
    ASSUME NEW n, NEW rows, AreRows(rows, n), Null \notin Int,
           Day \in Nat \ {0}, NEW later \in Int, NEW days
    PROVE  /\ Adds(Insights!aggregateAnalytics(rows, days),
                   Insights!buildTimeSeries(rows), 0)
           /\ Adds(Insights!aggregateAnalytics(Insights!Week(rows, later), 7),
                   Insights!buildTimeSeries(rows), FirstDay(later))
<1>1. /\ n \in Nat /\ rows = [i \in 1..n |-> rows[i]] /\ DOMAIN rows = 1..n
      /\ \A i \in 1..n :
           /\ rows[i].analyticsDate \in Nat
           /\ Day * (rows[i].analyticsDate \div Day) = rows[i].analyticsDate
  BY DEF AreRows, Insights!IsRow
<1>2. Selects(rows, rows, DaysFrom(rows, n, 0))
  <2> DEFINE K == DaysFrom(rows, n, 0)
             q == [i \in 1..n |-> i]
  <2>1. \A i \in 1..n : rows[i].analyticsDate \div Day >= 0
    <3> SUFFICES ASSUME NEW i \in 1..n
                 PROVE  rows[i].analyticsDate \div Day >= 0
      OBVIOUS
    <3>1. rows[i].analyticsDate \in Nat BY <1>1
    <3> QED BY <3>1, QuotientBounds
  <2>2. K = 1..n
    BY <2>1 DEF DaysFrom
  <2>3. IsListing(q, n, 1..n)
    BY DEF IsListing
  <2>4. rows = [i \in 1..n |-> rows[q[i]]]
    BY <1>1
  <2> HIDE DEF q, K
  <2>5. Selects(rows, rows, K)
    BY <1>1, <2>2, <2>3, <2>4 DEF Selects
  <2> QED BY <2>5 DEF K
<1>3. Insights!Week(rows, later) = From(rows, Insights!Since(later, 7))
  BY Zenon DEF Insights!Week, From
<1>4. DatedFrom(rows, n, Insights!Since(later, 7))
        = DaysFrom(rows, n, FirstDay(later))
  BY <1>1, WeekStartsAtMidnight DEF DatedFrom, DaysFrom
<1>5. Selects(Insights!Week(rows, later), rows,
              DaysFrom(rows, n, FirstDay(later)))
  BY <1>1, <1>3, <1>4, FromSelects
<1>6. FirstDay(later) \in Int /\ 0 \in Int
  BY FirstDayIsRecent
<1>7. Adds(Insights!aggregateAnalytics(rows, days),
           Insights!buildTimeSeries(rows), 0)
  BY <1>2, <1>6, GrowthAdds
<1> QED BY <1>5, <1>6, <1>7, GrowthAdds

\* The SME is shown the same top content.
LEMMA SmeTopIsTop ==
    ASSUME NEW rows
    PROVE  Insights!SmeTopContent(rows) = Insights!buildTopContent(rows)
<1> DEFINE sorted == MostViewed(rows)
           rate(v) == IF Insights!OrZero(v.viewCount) > 0
                      THEN <<Insights!OrZero(v.likeCount)
                               + Insights!OrZero(v.commentCount), v.viewCount>>
                      ELSE <<0, 1>>
           smeRate(v) == IF Insights!OrZero(v.viewCount) > 0
                         THEN <<Insights!OrZero(v.likeCount)
                                  + Insights!OrZero(v.commentCount),
                                Insights!OrZero(v.viewCount)>>
                         ELSE <<0, 1>>
           item(v, r) == [id |-> v.id,
                          viewCount |-> Insights!OrZero(v.viewCount),
                          likeCount |-> Insights!OrZero(v.likeCount),
                          commentCount |-> Insights!OrZero(v.commentCount),
                          engagementRate |-> r, rank |-> v.rank]
<1>1. Insights!SmeTopContent(rows)
        = [i \in DOMAIN sorted |-> item(sorted[i], smeRate(sorted[i]))]
  BY Zenon DEF Insights!SmeTopContent, MostViewed
<1>2. Insights!buildTopContent(rows)
        = [i \in DOMAIN sorted |-> item(sorted[i], rate(sorted[i]))]
  BY Zenon DEF Insights!buildTopContent, MostViewed
<1>3. ASSUME NEW v PROVE rate(v) = smeRate(v)
  <2>1. ~(0 > 0) OBVIOUS
  <2>2. CASE Insights!OrZero(v.viewCount) > 0
    <3>1. Insights!OrZero(v.viewCount) = v.viewCount
      BY <2>1, <2>2 DEF Insights!OrZero
    <3> QED BY <2>2, <3>1
  <2>3. CASE ~(Insights!OrZero(v.viewCount) > 0)
    BY <2>3
  <2> QED BY <2>2, <2>3
<1> HIDE DEF rate, smeRate, item, sorted
<1> QED BY <1>1, <1>2, <1>3

\* Its counts are integers.
LEMMA TopCounts ==
    ASSUME NEW n, NEW rows, AreVideos(rows, n), Null \notin Int
    PROVE  \E m : /\ m \in Nat
                  /\ DOMAIN Insights!buildTopContent(rows) = 1..m
                  /\ \A i \in 1..m :
                       LET item == Insights!buildTopContent(rows)[i]
                       IN  /\ item.likeCount \in Int
                           /\ item.commentCount \in Int
                           /\ item.viewCount \in Int
<1> DEFINE sorted == MostViewed(rows)
           top == Insights!buildTopContent(rows)
<1>1. /\ n \in Nat /\ DOMAIN rows = 1..n
      /\ \A i \in 1..n : /\ Insights!OrZero(rows[i].viewCount) \in Int
                         /\ Insights!OrZero(rows[i].likeCount) \in Int
                         /\ Insights!OrZero(rows[i].commentCount) \in Int
  BY DEF AreVideos, Insights!IsVideo, Insights!IsCount, Insights!OrZero
<1>2. Selects(sorted, rows, 1..n)
  BY <1>1, MostViewedSelects
<1> HIDE DEF sorted
<1>3. PICK m : AreOf(sorted, m, rows, 1..n)
  BY <1>2, SelectedOf
<1>4. DOMAIN top = DOMAIN sorted
      /\ \A i \in DOMAIN sorted :
           /\ top[i].viewCount = Insights!OrZero(sorted[i].viewCount)
           /\ top[i].likeCount = Insights!OrZero(sorted[i].likeCount)
           /\ top[i].commentCount = Insights!OrZero(sorted[i].commentCount)
  <2> DEFINE rate(v) == IF Insights!OrZero(v.viewCount) > 0
                        THEN <<Insights!OrZero(v.likeCount)
                                 + Insights!OrZero(v.commentCount),
                               v.viewCount>>
                        ELSE <<0, 1>>
             item(v) == [id |-> v.id,
                         viewCount |-> Insights!OrZero(v.viewCount),
                         likeCount |-> Insights!OrZero(v.likeCount),
                         commentCount |-> Insights!OrZero(v.commentCount),
                         engagementRate |-> rate(v), rank |-> v.rank]
  <2>1. top = [i \in DOMAIN sorted |-> item(sorted[i])]
    BY Zenon DEF Insights!buildTopContent, MostViewed, sorted
  <2> HIDE DEF rate, top
  <2> QED BY <2>1
<1> HIDE DEF top
<1>5. DOMAIN sorted = 1..m
  BY <1>3 DEF AreOf
<1> QED BY <1>1, <1>3, <1>4, <1>5 DEF top, AreOf

\* An SME is shown of a channel what its creator is shown.
LEMMA SmePerformanceIsPerformance ==
    ASSUME NEW channel, channel # Null, Insights!IsChannel(channel),
           NEW limit \in Nat,
           NEW videos \in Insights!getRecentVideosWithScores(channel, limit),
           NEW days, NEW now, NEW later \in Int, Null \notin Int
    PROVE  Insights!SmePerformance(channel, videos, days, now, later)
             = Insights!getPerformanceInsights(channel, videos, days, now,
                                               later)
<1> DEFINE analytics == Insights!getAnalyticsSince(channel,
                                                   Insights!Since(now, days))
           week == Insights!Week(analytics, later)
           month == Insights!aggregateAnalytics(analytics, days)
           top == Insights!buildTopContent(videos)
           rate == Insights!computeEngagementRate(top)
<1>1. PICK n : AreRows(analytics, n)
  BY RowsOfChannel
<1>2. Insights!SmeTotals(analytics, days) = month
  <2>1. n \in Nat /\ DOMAIN analytics = 1..n
    BY <1>1 DEF AreRows
  <2> HIDE DEF analytics
  <2> QED BY <1>1, <2>1, RowCounts, SmeTotalsAreTotals
<1>3. Insights!SmeTotals(week, 7) = Insights!aggregateAnalytics(week, 7)
  <2> DEFINE e == Insights!Since(later, 7)
             K == DatedFrom(analytics, n, e)
  <2> HIDE DEF analytics
  <2>1. n \in Nat /\ DOMAIN analytics = 1..n
    BY <1>1 DEF AreRows
  <2>2. week = From(analytics, e)
    BY Zenon DEF Insights!Week, From
  <2>3. Selects(week, analytics, K)
    BY <2>1, <2>2, FromSelects
  <2> HIDE DEF week
  <2>4. PICK m : AreOf(week, m, analytics, K)
    BY <2>3, SelectedOf
  <2>5. \A k \in 1..m : \E i \in 1..n : week[k] = analytics[i]
    BY <2>4 DEF AreOf, DatedFrom
  <2> HIDE DEF K, e
  <2>6. AreRows(week, m)
    BY <1>1, <2>4, <2>5 DEF AreRows, AreOf
  <2>7. m \in Nat /\ DOMAIN week = 1..m
    BY <2>4 DEF AreOf
  <2> QED BY <2>6, <2>7, RowCounts, SmeTotalsAreTotals
<1>4. Insights!SmeTopContent(videos) = top
  BY SmeTopIsTop
<1>5. Insights!SmeEngagementRate(top) = rate
  <2>1. PICK k : AreVideos(videos, k)
    BY VideosOfChannel
  <2>2. PICK m : /\ m \in Nat /\ DOMAIN top = 1..m
                 /\ \A i \in 1..m : /\ top[i].likeCount \in Int
                                    /\ top[i].commentCount \in Int
                                    /\ top[i].viewCount \in Int
    BY <2>1, TopCounts
  <2> HIDE DEF top
  <2> QED BY <2>2, SmeRateIsRate
<1>6. Insights!SmeTimeSeries(analytics) = Insights!buildTimeSeries(analytics)
  BY Zenon DEF Insights!SmeTimeSeries, Insights!buildTimeSeries
<1> DEFINE shown(m, w, t, r, s) ==
              [windowDays |-> days, weeklyGrowth |-> w, monthlyGrowth |-> m,
               youtube |-> [followerGrowth |-> m.followerGrowth,
                            views |-> m.views, engagementRate |-> r],
               engagementRate |-> r, topContent |-> t, timeSeries |-> s]
<1>7. Insights!SmePerformance(channel, videos, days, now, later)
        = shown(Insights!SmeTotals(analytics, days),
                Insights!SmeTotals(week, 7),
                Insights!SmeTopContent(videos),
                Insights!SmeEngagementRate(Insights!SmeTopContent(videos)),
                Insights!SmeTimeSeries(analytics))
  BY Zenon DEF Insights!SmePerformance, Insights!Week
<1>8. Insights!getPerformanceInsights(channel, videos, days, now, later)
        = shown(month, Insights!aggregateAnalytics(week, 7), top, rate,
                Insights!buildTimeSeries(analytics))
  BY Zenon DEF Insights!getPerformanceInsights
<1> HIDE DEF shown, month, rate, top, week, analytics
<1> QED BY <1>2, <1>3, <1>4, <1>5, <1>6, <1>7, <1>8

\* A channel that is shown is one of the channels.
LEMMA LatestIsOne ==
    ASSUME NEW channels, AreChannels(channels),
           NEW channel \in Insights!getLatestChannelForUser(channels),
           channel # Null
    PROVE  Insights!IsChannel(channel)
  BY DEF AreChannels, Insights!getLatestChannelForUser

\* What the handlers are given: a channel, and videos of it.
LEMMA QueriedIsShown ==
    ASSUME NEW channels, NEW limit, NEW q \in Insights!Queried(channels, limit)
    PROVE  /\ q.channel \in Insights!getLatestChannelForUser(channels)
           /\ q.channel # Null =>
                q.videos \in Insights!getRecentVideosWithScores(q.channel,
                                                                limit)
<1>1. PICK channel \in Insights!getLatestChannelForUser(channels) :
         q \in {[channel |-> channel, videos |-> rows] :
                   rows \in IF channel = Null THEN {<<>>}
                            ELSE Insights!getRecentVideosWithScores(channel,
                                                                    limit)}
  BY DEF Insights!Queried
<1> QED BY <1>1

\* The figures of a channel add up.
LEMMA FiguresOfChannel ==
    ASSUME NEW channel, channel # Null, Insights!IsChannel(channel),
           NEW profile, NEW days, NEW videos, NEW now, NEW later \in Int,
           Null \notin Int, Day \in Nat \ {0}
    PROVE  FiguresAdd(Insights!getPerformanceInsights(channel, videos, days,
                                                      now, later),
                      Insights!getAudienceInsights(profile, channel, days,
                                                   now).audience, later)
<1> DEFINE rows == Insights!getAnalyticsSince(channel,
                                              Insights!Since(now, days))
           p == Insights!getPerformanceInsights(channel, videos, days, now,
                                                later)
           a == Insights!getAudienceInsights(profile, channel, days,
                                             now).audience
<1>1. PICK n : AreRows(rows, n)
  BY RowsOfChannel
<1>2. /\ p.monthlyGrowth = Insights!aggregateAnalytics(rows, days)
      /\ p.weeklyGrowth
           = Insights!aggregateAnalytics(Insights!Week(rows, later), 7)
      /\ p.timeSeries = Insights!buildTimeSeries(rows)
  BY DEF Insights!getPerformanceInsights
<1>3. /\ a.views = Insights!Total(rows, "views")
      /\ a.gained = Insights!Total(rows, "gained")
      /\ a.lost = Insights!Total(rows, "lost")
  BY DEF Insights!getAudienceInsights
<1> HIDE DEF rows, p, a
<1>4. /\ Adds(p.monthlyGrowth, p.timeSeries, 0)
      /\ Adds(p.weeklyGrowth, p.timeSeries, FirstDay(later))
  BY <1>1, <1>2, GrowthsAdd
<1>5. FirstDay(later) \in {later \div Day - 6, later \div Day - 5}
  BY FirstDayIsRecent
<1>6. /\ p.monthlyGrowth.views = a.views
      /\ p.monthlyGrowth.followerGrowth = a.gained - a.lost
  BY <1>2, <1>3 DEF Insights!aggregateAnalytics
<1>7. \E from \in {later \div Day - 6, later \div Day - 5} :
         Adds(p.weeklyGrowth, p.timeSeries, from)
  BY <1>4, <1>5
<1> QED BY <1>4, <1>6, <1>7 DEF FiguresAdd, p, a

\* Without a channel there is nothing to add up.
LEMMA FiguresOfNobody ==
    ASSUME NEW profile, NEW days, NEW videos, NEW now, NEW later
    PROVE  FiguresAdd(Insights!getPerformanceInsights(Null, videos, days, now,
                                                      later),
                      Insights!getAudienceInsights(profile, Null, days,
                                                   now).audience, later)
<1> DEFINE p == Insights!getPerformanceInsights(Null, videos, days, now, later)
           a == Insights!getAudienceInsights(profile, Null, days, now).audience
           none(window) == [windowDays |-> window, followerGrowth |-> 0,
                            views |-> 0, minutes |-> 0]
<1>2. p = Insights!buildEmptyPerformance(days)
  BY DEF Insights!getPerformanceInsights
<1>3. /\ p.monthlyGrowth = none(days) /\ p.weeklyGrowth = none(7)
      /\ p.timeSeries = <<>>
  BY <1>2 DEF Insights!buildEmptyPerformance
<1>4. a.views = 0 /\ a.gained = 0 /\ a.lost = 0
  BY DEF Insights!getAudienceInsights, Insights!EmptyAudience
<1> HIDE DEF p, a
<1>5. ASSUME NEW from, NEW field PROVE SumOver(<<>>, from, field) = 0
  <2>1. Added(<<>>, 0, from, field) \in [1..0 -> Int]
    BY DEF Added
  <2>2. 0 \in Nat /\ Len(<<>>) = 0
    OBVIOUS
  <2>3. PICK r : /\ RunningSums(r, 0, Added(<<>>, 0, from, field))
                 /\ SumOver(<<>>, from, field) = r[0]
    BY <2>1, <2>2, SumOverAddsUp
  <2> QED BY <2>3 DEF RunningSums
<1>6. ASSUME NEW window, NEW from PROVE Adds(none(window), <<>>, from)
  BY <1>5 DEF Adds
<1>7. /\ p.monthlyGrowth.views = 0 /\ p.monthlyGrowth.followerGrowth = 0
  BY <1>3
<1> HIDE DEF none
<1>8. \E from \in {later \div Day - 6, later \div Day - 5} :
         Adds(p.weeklyGrowth, p.timeSeries, from)
  BY <1>3, <1>6
<1>9. Adds(p.monthlyGrowth, p.timeSeries, 0)
  BY <1>3, <1>6
<1> QED BY <1>4, <1>7, <1>8, <1>9 DEF FiguresAdd, p, a

\* The content and the top content list the same videos.
LEMMA ContentIsTopContent ==
    ASSUME NEW channel, channel # Null, Insights!IsChannel(channel),
           NEW limit \in Nat, Null \notin Int,
           NEW videos \in Insights!getRecentVideosWithScores(channel, limit)
    PROVE  SameVideos(
             Insights!getContentInsights(channel, videos, limit).items,
             Insights!buildTopContent(videos))
<1> DEFINE items == Insights!getContentInsights(channel, videos, limit).items
           top == Insights!buildTopContent(videos)
           sorted == MostViewed(videos)
           counts(v) == <<v.id, Insights!OrZero(v.viewCount),
                          Insights!OrZero(v.likeCount),
                          Insights!OrZero(v.commentCount)>>
<1>1. PICK n : AreVideos(videos, n)
  BY VideosOfChannel
<1>2. /\ n \in Nat /\ DOMAIN videos = 1..n
      /\ \A i \in 1..n : Insights!OrZero(videos[i].viewCount) \in Int
  BY <1>1 DEF AreVideos, Insights!IsVideo, Insights!IsCount, Insights!OrZero
<1>3. DOMAIN items = 1..n
      /\ \A i \in 1..n : Counts(items[i]) = counts(videos[i])
  <2> DEFINE item(v) == [id |-> v.id,
                         viewCount |-> Insights!OrZero(v.viewCount),
                         likeCount |-> Insights!OrZero(v.likeCount),
                         commentCount |-> Insights!OrZero(v.commentCount),
                         rank |-> v.rank]
  <2>1. items = [i \in DOMAIN videos |-> item(videos[i])]
    BY DEF Insights!getContentInsights
  <2>2. \A v : Counts(item(v)) = counts(v)
    BY DEF Counts
  <2> HIDE DEF items, item, counts
  <2> QED BY <1>2, <2>1, <2>2
<1>4. DOMAIN top = DOMAIN sorted
      /\ \A i \in DOMAIN sorted : Counts(top[i]) = counts(sorted[i])
  <2> DEFINE rate(v) == IF Insights!OrZero(v.viewCount) > 0
                        THEN <<Insights!OrZero(v.likeCount)
                                 + Insights!OrZero(v.commentCount),
                               v.viewCount>>
                        ELSE <<0, 1>>
             item(v) == [id |-> v.id,
                         viewCount |-> Insights!OrZero(v.viewCount),
                         likeCount |-> Insights!OrZero(v.likeCount),
                         commentCount |-> Insights!OrZero(v.commentCount),
                         engagementRate |-> rate(v), rank |-> v.rank]
  <2>1. top = [i \in DOMAIN sorted |-> item(sorted[i])]
    BY Zenon DEF Insights!buildTopContent, MostViewed, sorted
  <2> HIDE DEF rate, top, sorted
  <2>2. \A v : Counts(item(v)) = counts(v)
    BY DEF Counts
  <2> HIDE DEF item, counts
  <2> QED BY <2>1, <2>2
<1>5. PICK m, q : /\ m \in Nat /\ IsListing(q, m, 1..n)
                  /\ sorted = [k \in 1..m |-> videos[q[k]]]
  <2>1. Selects(sorted, videos, 1..n)
    BY <1>2, MostViewedSelects
  <2> HIDE DEF sorted
  <2> QED BY <2>1 DEF Selects
<1> HIDE DEF items, top, sorted, counts
<1>6. /\ DOMAIN sorted = 1..m
      /\ \A k \in 1..m : q[k] \in 1..n /\ sorted[k] = videos[q[k]]
      /\ \A i \in 1..n : \E k \in 1..m : q[k] = i
  BY <1>5 DEF IsListing
<1>7. \A k \in 1..m : Counts(top[k]) = Counts(items[q[k]])
  BY <1>3, <1>4, <1>6
<1>8. {Counts(items[i]) : i \in DOMAIN items}
        = {Counts(top[i]) : i \in DOMAIN top}
  BY <1>3, <1>4, <1>6, <1>7
<1> QED BY <1>8 DEF SameVideos, items, top

\* An SME is shown what the creator is shown.
LEMMA SmeIsShownTheSame ==
    ASSUME NEW channel, channel # Null, Insights!IsChannel(channel),
           NEW limit \in Nat, NEW profile, NEW days, NEW now,
           NEW later \in Int, Null \notin Int,
           NEW videos \in Insights!getRecentVideosWithScores(channel, limit)
    PROVE  Insights!getCreatorProfileForSme(profile, channel, videos, days,
                                            now, later).contentPerformance
             = Insights!getPerformanceInsights(channel, videos, days, now,
                                               later)
<1> DEFINE p == Insights!getPerformanceInsights(channel, videos, days, now,
                                                later)
<1>1. Insights!SmePerformance(channel, videos, days, now, later) = p
  BY SmePerformanceIsPerformance
<1> HIDE DEF p
<1>2. Insights!getCreatorProfileForSme(profile, channel, videos, days, now,
                                       later).contentPerformance = p
  BY <1>1 DEF Insights!getCreatorProfileForSme
<1> QED BY <1>2 DEF p

\* The growth of a channel is the same whichever of its videos are shown.
LEMMA GrowthIsOfChannel ==
    ASSUME NEW channel, channel # Null, NEW videos, NEW others, NEW days,
           NEW now, NEW later
    PROVE  SameGrowth(Insights!getPerformanceInsights(channel, videos, days,
                                                      now, later),
                      Insights!getPerformanceInsights(channel, others, days,
                                                      now, later))
  BY DEF SameGrowth, Insights!getPerformanceInsights

-----------------------------------------------------------------------------
(* What is kept of a list, and lists one after the other.                  *)

\* The members of s at the indices K, in their order.
KeptAt(s, K) == [k \in DOMAIN ByRank(K, UpTo(K)) |-> s[ByRank(K, UpTo(K))[k]]]

\* An index that comes after the others has the next rank.
LEMMA RankOfNext ==
    ASSUME NEW n \in Nat, NEW K \in SUBSET (1..n)
    PROVE  LET L == K \cup {n + 1}
               N == Cardinality(K)
           IN  /\ L \in SUBSET (1..(n + 1))
               /\ N \in Nat /\ Cardinality(L) = N + 1
               /\ \A i \in K : RankIn(L, UpTo(L))[i] = RankIn(K, UpTo(K))[i]
               /\ RankIn(L, UpTo(L))[n + 1] = N + 1
<1> DEFINE m == n + 1
           L == K \cup {m}
           N == Cardinality(K)
<1>1. IsFiniteSet(K) /\ N \in Nat
  BY UpToOrders, FS_CardinalityType
<1>2. m \notin K /\ L \in SUBSET (1..m)
  OBVIOUS
<1>3. Cardinality(L) = N + 1
  <2> HIDE DEF m
  <2> QED BY <1>1, <1>2, FS_AddElement
<1>4. ASSUME NEW i \in K
      PROVE  RankIn(L, UpTo(L))[i] = RankIn(K, UpTo(K))[i]
  <2>1. {j \in L : <<j, i>> \in UpTo(L)} = {j \in K : <<j, i>> \in UpTo(K)}
    BY DEF UpTo
  <2> HIDE DEF L
  <2>2. i \in L
    BY DEF L
  <2> QED BY <2>1, <2>2 DEF RankIn
<1>5. RankIn(L, UpTo(L))[m] = N + 1
  <2>1. m \in L /\ \A j \in L : j <= m
    OBVIOUS
  <2>2. {j \in L : <<j, m>> \in UpTo(L)} = L
    <3> HIDE DEF L, m
    <3> QED BY <2>1 DEF UpTo
  <2> HIDE DEF L, m
  <2> QED BY <1>3, <2>1, <2>2 DEF RankIn
<1> QED BY <1>1, <1>2, <1>3, <1>4, <1>5

\* What is kept is a sequence.
LEMMA KeptTyped ==
    ASSUME NEW n \in Nat, NEW S, NEW s \in [1..n -> S], NEW K \in SUBSET (1..n)
    PROVE  KeptAt(s, K) \in Seq(S)
<1> DEFINE q == ByRank(K, UpTo(K))
           m == Cardinality(K)
<1>1. Orders(UpTo(K), K) /\ IsFiniteSet(K)
  BY UpToOrders
<1>2. IsListing(q, m, K) /\ m \in Nat
  BY <1>1, RanksList, FS_CardinalityType
<1> HIDE DEF m, q
<1>3. DOMAIN q = 1..m /\ \A k \in 1..m : q[k] \in 1..n
  BY <1>2 DEF IsListing
<1>4. [k \in DOMAIN q |-> s[q[k]]] \in [1..m -> S]
  BY <1>3
<1>5. [k \in DOMAIN q |-> s[q[k]]] \in Seq(S)
  BY <1>2, <1>4, SeqDef
<1> QED BY <1>5 DEF KeptAt, q

\* Keeping the next index too appends what is there.
LEMMA KeptNext ==
    ASSUME NEW n \in Nat, NEW S, NEW s, \A i \in 1..(n + 1) : s[i] \in S,
           NEW K \in SUBSET (1..n)
    PROVE  KeptAt(s, K \cup {n + 1}) = Append(KeptAt(s, K), s[n + 1])
<1> DEFINE m == n + 1
           L == K \cup {m}
           N == Cardinality(K)
           q == ByRank(K, UpTo(K))
           p == ByRank(L, UpTo(L))
           rank == RankIn(K, UpTo(K))
           next == RankIn(L, UpTo(L))
<1>1. /\ L \in SUBSET (1..m) /\ N \in Nat /\ Cardinality(L) = N + 1
      /\ \A i \in K : next[i] = rank[i]
      /\ next[m] = N + 1
  BY RankOfNext
<1>2. m \in Nat
  OBVIOUS
<1>3. m \in L /\ K \subseteq L
  OBVIOUS
<1> HIDE DEF m, L
<1>4. Places(q, K, UpTo(K))
  BY UpToOrders, RanksPlace
<1>5. Places(p, L, UpTo(L))
  BY <1>1, <1>2, UpToOrders, RanksPlace
<1> HIDE DEF q, p, rank, next
<1>6. /\ q = [k \in 1..N |-> q[k]]
      /\ \A k \in 1..N : q[k] \in K /\ rank[q[k]] = k
  BY <1>4 DEF Places, rank
<1>7. /\ p = [k \in 1..(N + 1) |-> p[k]]
      /\ \A i, j \in L : next[i] = next[j] => i = j
      /\ \A k \in 1..(N + 1) : p[k] \in L /\ next[p[k]] = k
  BY <1>1, <1>5 DEF Places, next
<1> HIDE DEF N
<1>8. \A k \in 1..N : k \in 1..(N + 1) /\ p[k] = q[k]
  <2> SUFFICES ASSUME NEW k \in 1..N
               PROVE  k \in 1..(N + 1) /\ p[k] = q[k]
    OBVIOUS
  <2>1. k \in 1..(N + 1)
    BY <1>1
  <2>2. q[k] \in L /\ next[q[k]] = k
    BY <1>1, <1>3, <1>6
  <2>3. p[k] \in L /\ next[p[k]] = k
    BY <1>7, <2>1
  <2> QED BY <1>7, <2>1, <2>2, <2>3
<1>9. N + 1 \in 1..(N + 1) /\ p[N + 1] = m
  BY <1>1, <1>3, <1>7
<1>10. [k \in DOMAIN q |-> s[q[k]]] \in Seq(S)
  <2>1. \A k \in 1..N : s[q[k]] \in S
    <3>1. \A i \in K : i \in 1..(n + 1)
      OBVIOUS
    <3> QED BY <1>6, <3>1
  <2>2. [k \in DOMAIN q |-> s[q[k]]] \in [1..N -> S]
    BY <1>6, <2>1
  <2> QED BY <1>1, <2>2, SeqDef
<1> DEFINE t == [k \in DOMAIN q |-> s[q[k]]]
<1>11. t = [k \in 1..N |-> s[q[k]]] /\ Len(t) = N
  BY <1>1, <1>6
<1>12. s[m] \in S
  BY DEF m
<1> HIDE DEF t
<1>13. Append(t, s[m]) = [k \in 1..(N + 1) |-> IF k <= N THEN t[k] ELSE s[m]]
  <2>1. /\ Append(t, s[m]) \in Seq(S)
        /\ Len(Append(t, s[m])) = N + 1
        /\ \A i \in 1..N : Append(t, s[m])[i] = t[i]
        /\ Append(t, s[m])[N + 1] = s[m]
    BY <1>10, <1>11, <1>12, AppendProperties DEF t
  <2> DEFINE a == Append(t, s[m])
  <2>2. a = [k \in 1..(N + 1) |-> a[k]]
    BY <2>1
  <2>3. \A k \in 1..(N + 1) : a[k] = IF k <= N THEN t[k] ELSE s[m]
    BY <1>1, <2>1
  <2> HIDE DEF a
  <2>4. a = [k \in 1..(N + 1) |-> IF k <= N THEN t[k] ELSE s[m]]
    BY <2>2, <2>3
  <2> QED BY <2>4 DEF a
<1>14. \A k \in 1..(N + 1) : s[p[k]] = IF k <= N THEN t[k] ELSE s[m]
  <2> SUFFICES ASSUME NEW k \in 1..(N + 1)
               PROVE  s[p[k]] = IF k <= N THEN t[k] ELSE s[m]
    OBVIOUS
  <2>1. CASE k <= N
    <3>1. k \in 1..N BY <1>1, <2>1
    <3> QED BY <1>8, <1>11, <2>1, <3>1
  <2>2. CASE ~(k <= N)
    <3>1. k = N + 1 BY <1>1, <2>2
    <3> QED BY <1>9, <2>2, <3>1
  <2> QED BY <2>1, <2>2
<1>15. [k \in DOMAIN p |-> s[p[k]]] = Append(t, s[m])
  <2>1. DOMAIN p = 1..(N + 1)
    BY <1>7
  <2> QED BY <1>13, <1>14, <2>1
<1> QED BY <1>15 DEF KeptAt, t, p, q, L, m

\* r appends the members of s at K, one after the other.
Picking(r, n, s, K) ==
    /\ r[0] = <<>>
    /\ \A i \in 1..n : r[i] = IF i \in K THEN Append(r[i - 1], s[i])
                              ELSE r[i - 1]

\* What a computation that appends the members at K ends with.
LEMMA KeptRuns ==
    ASSUME NEW n \in Nat, NEW s, NEW K \in SUBSET (1..n),
           NEW r, Picking(r, n, s, K)
    PROVE  \A i \in 0..n : r[i] = KeptAt(s, K \cap (1..i))
<1>A. /\ r[0] = <<>>
      /\ \A i \in 1..n : r[i] = IF i \in K THEN Append(r[i - 1], s[i])
                                ELSE r[i - 1]
  BY DEF Picking
<1> DEFINE S == {s[i] : i \in 1..n}
<1>0. \A i \in 1..n : s[i] \in S
  OBVIOUS
<1> HIDE DEF S
<1> DEFINE N == {i \in Nat : i <= n => r[i] = KeptAt(s, K \cap (1..i))}
<1>1. 0 \in N
  <2>1. K \cap (1..0) = {}
    OBVIOUS
  <2>2. Cardinality({}) = 0
    BY FS_EmptySet
  <2>3. ByRank({}, UpTo({})) = <<>>
    BY <2>2 DEF ByRank
  <2>4. KeptAt(s, {}) = <<>>
    BY <2>3 DEF KeptAt
  <2> QED BY <1>A, <2>1, <2>4
<1>2. ASSUME NEW i \in N PROVE i + 1 \in N
  <2> SUFFICES ASSUME i + 1 <= n
               PROVE  r[i + 1] = KeptAt(s, K \cap (1..(i + 1)))
    OBVIOUS
  <2>1. i + 1 \in 1..n /\ (i + 1) - 1 = i /\ i \in Nat
    OBVIOUS
  <2>2. r[i] = KeptAt(s, K \cap (1..i))
    BY <2>1
  <2> HIDE DEF N
  <2>3. CASE i + 1 \in K
    <3>1. K \cap (1..(i + 1)) = (K \cap (1..i)) \cup {i + 1}
      BY <2>1, <2>3
    <3>2. \A j \in 1..(i + 1) : s[j] \in S
      BY <1>0, <2>1
    <3>3. K \cap (1..i) \in SUBSET (1..i)
      OBVIOUS
    <3>4. KeptAt(s, (K \cap (1..i)) \cup {i + 1})
             = Append(KeptAt(s, K \cap (1..i)), s[i + 1])
      BY <2>1, <3>2, <3>3, KeptNext
    <3> QED BY <1>A, <2>1, <2>2, <2>3, <3>1, <3>4
  <2>4. CASE i + 1 \notin K
    <3>1. K \cap (1..(i + 1)) = K \cap (1..i)
      BY <2>1, <2>4
    <3> QED BY <1>A, <2>1, <2>2, <2>4, <3>1
  <2> QED BY <2>3, <2>4
<1>3. N = Nat
  <2>1. N \in SUBSET Nat OBVIOUS
  <2> HIDE DEF N
  <2> QED BY <1>1, <1>2, <2>1, Induction
<1> HIDE DEF N
<1>4. \A i \in 0..n : i \in N /\ i <= n
  BY <1>3
<1> QED BY <1>4 DEF N

\* No earlier comment has the id of the i-th.
IsFirst(c, i) == \A k \in 1..(i - 1) : c[k].commentId # c[i].commentId

\* Where comments are listed for the first time.
Firsts(c, n) == {i \in 1..n : IsFirst(c, i)}

Members(s, n) == {s[i] : i \in 1..n}

\* Appends what stands at K, one after the other.
Picks(s, n, K) ==
    [p \in (1..n) \X Seq(Members(s, n)) |->
        IF p[1] \in K THEN Append(p[2], s[p[1]]) ELSE p[2]]

\* It makes sequences of sequences.
LEMMA PicksTyped ==
    ASSUME NEW n \in Nat, NEW s, NEW K
    PROVE  /\ Picks(s, n, K)
                \in [(1..n) \X Seq(Members(s, n)) -> Seq(Members(s, n))]
           /\ <<>> \in Seq(Members(s, n))
<1> DEFINE S == Members(s, n)
<1>1. \A i \in 1..n : s[i] \in S
  BY DEF Members
<1> HIDE DEF S
<1>2. \A i \in 1..n, t \in Seq(S) : Append(t, s[i]) \in Seq(S)
  BY <1>1, AppendProperties
<1>3. <<>> \in Seq(S)
  OBVIOUS
<1> DEFINE f == [p \in (1..n) \X Seq(S) |->
                    IF p[1] \in K THEN Append(p[2], s[p[1]]) ELSE p[2]]
<1>4. f \in [(1..n) \X Seq(S) -> Seq(S)]
  BY <1>2
<1> QED BY <1>3, <1>4 DEF Picks, S

\* g folds by picking.
Picked(g, n, s, K) ==
    IsLeftFold(g, n, Seq(Members(s, n)), <<>>, Picks(s, n, K))

\* A fold that picks ends with what is kept.
LEMMA PicksKeep ==
    ASSUME NEW n \in Nat, NEW s, NEW K \in SUBSET (1..n),
           NEW g, Picked(g, n, s, K)
    PROVE  g[1..n] = KeptAt(s, K)
<1> DEFINE S == Members(s, n)
           step == Picks(s, n, K)
           r == RunOf(g, n)
<1>1. step \in [(1..n) \X Seq(S) -> Seq(S)] /\ <<>> \in Seq(S)
  BY PicksTyped
<1>2. \A i \in 1..n : s[i] \in S
  BY DEF Members
<1>3. \A i \in 1..n, t \in Seq(S) :
         step[<<i, t>>] = IF i \in K THEN Append(t, s[i]) ELSE t
  BY DEF Picks
<1> HIDE DEF S, step
<1>4. Runs(r, n, Seq(S), <<>>, step)
  BY <1>1, LeftFoldRuns DEF Picked, S, step
<1> HIDE DEF r
<1>5. Picking(r, n, s, K)
  <2>1. \A i \in 1..n : i - 1 \in 0..n
    OBVIOUS
  <2> QED BY <1>3, <1>4, <2>1 DEF Runs, Picking
<1>6. r[n] = KeptAt(s, K \cap (1..n))
  <2>1. n \in 0..n
    OBVIOUS
  <2>2. \A i \in 0..n : r[i] = KeptAt(s, K \cap (1..i))
    BY <1>5, KeptRuns
  <2> QED BY <2>1, <2>2
<1>7. K \cap (1..n) = K
  OBVIOUS
<1>8. r[n] = g[1..n]
  BY DEF r, RunOf
<1> QED BY <1>6, <1>7, <1>8

\* The API keeps each comment where it is listed for the first time.
LEMMA ApiDedupes ==
    ASSUME NEW n \in Nat, NEW c, DOMAIN c = 1..n
    PROVE  Api!DedupeCommentsById(c) = KeptAt(c, Firsts(c, n))
<1> DEFINE K == Firsts(c, n)
           S == Members(c, n)
           step == Picks(c, n, K)
           index == [i \in DOMAIN c |-> i]
           last(T) == CHOOSE x \in T : \A y \in T : x >= y
           value(h, T) ==
               IF T = {} THEN <<>>
               ELSE IF IsFirst(c, index[last(T)])
                    THEN Append(h[T \ {last(T)}], c[index[last(T)]])
                    ELSE h[T \ {last(T)}]
           made(h) == h = [T \in SUBSET DOMAIN index |-> value(h, T)]
<1>1. Api!DedupeCommentsById(c) = (CHOOSE h : made(h))[DOMAIN index]
  BY ZenonT(40) DEF Api!DedupeCommentsById, Api!FoldLeft, Api!MapThenFoldSet,
     Api!Max, IsFirst
<1>2. DOMAIN index = 1..n /\ \A i \in 1..n : index[i] = i
  OBVIOUS
<1>3. step \in [(1..n) \X Seq(S) -> Seq(S)] /\ <<>> \in Seq(S)
  BY PicksTyped
<1>4. \A i \in 1..n, t \in Seq(S) :
         step[<<i, t>>] = IF i \in K THEN Append(t, c[i]) ELSE t
  BY DEF Picks
<1>5. \A i \in 1..n : i \in K <=> IsFirst(c, i)
  BY DEF Firsts
<1>6. K \in SUBSET (1..n)
  BY DEF Firsts
<1> HIDE DEF S, K, step, index
<1>7. ASSUME NEW T \in SUBSET (1..n), T # {}, NEW h,
             h[T \ {Greatest(T)}] \in Seq(S)
      PROVE  value(h, T) = step[<<Greatest(T), h[T \ {Greatest(T)}]>>]
  <2>1. Greatest(T) \in 1..n
    BY <1>7, GreatestIs
  <2>2. last(T) = Greatest(T)
    BY DEF Greatest
  <2> HIDE DEF last
  <2>3. value(h, T) = IF IsFirst(c, index[last(T)])
                      THEN Append(h[T \ {last(T)}], c[index[last(T)]])
                      ELSE h[T \ {last(T)}]
    BY <1>7
  <2>4. value(h, T) = IF IsFirst(c, Greatest(T))
                      THEN Append(h[T \ {Greatest(T)}], c[Greatest(T)])
                      ELSE h[T \ {Greatest(T)}]
    BY <1>2, <2>1, <2>2, <2>3
  <2> QED BY <1>4, <1>5, <1>7, <2>1, <2>4
<1>8. ASSUME NEW h, IsWholeFold(h, n, Seq(S), <<>>, step) PROVE made(h)
  <2>1. ASSUME NEW T \in SUBSET (1..n) PROVE h[T] = value(h, T)
    <3>1. CASE T = {} BY <3>1, <1>8 DEF IsWholeFold
    <3>2. CASE T # {}
      <4>1. T \ {Greatest(T)} \in SUBSET (1..n) OBVIOUS
      <4>2. h[T \ {Greatest(T)}] \in Seq(S)
        BY <1>8, <4>1 DEF IsWholeFold
      <4>3. h[T] = step[<<Greatest(T), h[T \ {Greatest(T)}]>>]
        BY <1>8, <3>2 DEF IsWholeFold
      <4> HIDE DEF value
      <4> QED BY <1>7, <3>2, <4>2, <4>3
    <3> QED BY <3>1, <3>2
  <2>2. h = [T \in SUBSET (1..n) |-> h[T]]
    BY <1>8 DEF IsWholeFold
  <2> HIDE DEF value
  <2> QED BY <1>2, <2>1, <2>2
<1>9. ASSUME NEW h, made(h) PROVE IsLeftFold(h, n, Seq(S), <<>>, step)
  <2>1. \A T \in SUBSET (1..n) : h[T] = value(h, T)
    <3> HIDE DEF value
    <3> QED BY <1>2, <1>9
  <2>2. h[{}] = <<>>
    BY <2>1
  <2> HIDE DEF value
  <2> QED BY <1>7, <2>1, <2>2 DEF IsLeftFold
<1> DEFINE g == CHOOSE h : made(h)
<1> HIDE DEF made
<1>10. made(g)
  <2>1. \E h : IsWholeFold(h, n, Seq(S), <<>>, step)
    BY <1>3, LeftFoldExists
  <2> QED BY <1>8, <2>1
<1> HIDE DEF g
<1>11. Picked(g, n, c, K)
  BY <1>9, <1>10 DEF Picked, S, step
<1>12. g[1..n] = KeptAt(c, K)
  BY <1>6, <1>11, PicksKeep
<1> QED BY <1>1, <1>2, <1>12 DEF g, K

\* The ids of comments, and those of the first i.
Ids(t) == {t[k].commentId : k \in DOMAIN t}
Listed(c, i) == {c[k].commentId : k \in 1..i}

\* Appends a comment whose id is new.
Dedupes(c, n) ==
    [p \in (1..n) \X Seq(Members(c, n)) |->
        IF c[p[1]].commentId \in Ids(p[2]) THEN p[2]
        ELSE Append(p[2], c[p[1]])]

Deduped(g, c, n) ==
    IsLeftFold(g, n, Seq(Members(c, n)), <<>>, Dedupes(c, n))

\* It makes sequences of comments.
LEMMA DedupesTyped ==
    ASSUME NEW n \in Nat, NEW c
    PROVE  /\ Dedupes(c, n)
                \in [(1..n) \X Seq(Members(c, n)) -> Seq(Members(c, n))]
           /\ <<>> \in Seq(Members(c, n))
<1> DEFINE S == Members(c, n)
<1>1. \A i \in 1..n : c[i] \in S
  BY DEF Members
<1> HIDE DEF S
<1>2. \A i \in 1..n, t \in Seq(S) : Append(t, c[i]) \in Seq(S)
  BY <1>1, AppendProperties
<1>3. <<>> \in Seq(S)
  OBVIOUS
<1> DEFINE f == [p \in (1..n) \X Seq(S) |->
                    IF c[p[1]].commentId \in Ids(p[2]) THEN p[2]
                    ELSE Append(p[2], c[p[1]])]
<1>4. f \in [(1..n) \X Seq(S) -> Seq(S)]
  BY <1>2
<1> QED BY <1>3, <1>4 DEF Dedupes, S

\* The ids of an appended sequence.
LEMMA AppendedIds ==
    ASSUME NEW S, NEW t \in Seq(S), NEW x \in S
    PROVE  Ids(Append(t, x)) = Ids(t) \cup {x.commentId}
<1> DEFINE m == Len(t)
           a == Append(t, x)
<1>1. /\ a \in Seq(S) /\ Len(a) = m + 1
      /\ \A i \in 1..m : a[i] = t[i]
      /\ a[m + 1] = x
  BY AppendProperties
<1>2. m \in Nat /\ DOMAIN t = 1..m /\ DOMAIN a = 1..(m + 1)
  BY <1>1
<1> HIDE DEF m, a
<1>3. \A k \in 1..(m + 1) : k \in 1..m \/ k = m + 1
  BY <1>2
<1>4. ASSUME NEW k \in 1..(m + 1)
      PROVE  a[k].commentId \in Ids(t) \cup {x.commentId}
  BY <1>1, <1>2, <1>3 DEF Ids
<1>5. ASSUME NEW k \in 1..m PROVE t[k].commentId \in Ids(a)
  <2>1. k \in 1..(m + 1) /\ a[k] = t[k]
    BY <1>1, <1>2
  <2> QED BY <1>2, <2>1 DEF Ids
<1>6. x.commentId \in Ids(a)
  <2>1. m + 1 \in 1..(m + 1)
    BY <1>2
  <2> QED BY <1>1, <1>2, <2>1 DEF Ids
<1>7. Ids(a) = Ids(t) \cup {x.commentId}
  BY <1>2, <1>4, <1>5, <1>6 DEF Ids
<1> QED BY <1>7 DEF a

\* A fold that dedupes picks the first of each id.
LEMMA DedupesPick ==
    ASSUME NEW n \in Nat, NEW c, NEW g, Deduped(g, c, n)
    PROVE  g[1..n] = KeptAt(c, Firsts(c, n))
<1> DEFINE S == Members(c, n)
           step == Dedupes(c, n)
           r == RunOf(g, n)
           K == Firsts(c, n)
<1>1. step \in [(1..n) \X Seq(S) -> Seq(S)] /\ <<>> \in Seq(S)
  BY DedupesTyped
<1>2. \A i \in 1..n : c[i] \in S
  BY DEF Members
<1>3. \A i \in 1..n, t \in Seq(S) :
         step[<<i, t>>] = IF c[i].commentId \in Ids(t) THEN t
                          ELSE Append(t, c[i])
  BY DEF Dedupes
<1> HIDE DEF S, step
<1>4. Runs(r, n, Seq(S), <<>>, step)
  BY <1>1, LeftFoldRuns DEF Deduped, S, step
<1> HIDE DEF r
<1>5. /\ r[0] = <<>>
      /\ \A i \in 0..n : r[i] \in Seq(S)
      /\ \A i \in 1..n : r[i] = IF c[i].commentId \in Ids(r[i - 1])
                                THEN r[i - 1] ELSE Append(r[i - 1], c[i])
  <2>1. \A i \in 1..n : i - 1 \in 0..n
    OBVIOUS
  <2> QED BY <1>3, <1>4, <2>1 DEF Runs
<1> DEFINE N == {i \in Nat : i <= n => Ids(r[i]) = Listed(c, i)}
<1>6. 0 \in N
  <2>1. Ids(<<>>) = {} /\ Listed(c, 0) = {}
    BY DEF Ids, Listed
  <2> QED BY <1>5, <2>1
<1>7. ASSUME NEW i \in N PROVE i + 1 \in N
  <2> SUFFICES ASSUME i + 1 <= n
               PROVE  Ids(r[i + 1]) = Listed(c, i + 1)
    OBVIOUS
  <2>1. i + 1 \in 1..n /\ (i + 1) - 1 = i /\ i \in Nat /\ i \in 0..n
    OBVIOUS
  <2>2. Ids(r[i]) = Listed(c, i)
    BY <2>1
  <2> HIDE DEF N
  <2>3. Listed(c, i + 1) = Listed(c, i) \cup {c[i + 1].commentId}
    <3>1. \A k \in 1..(i + 1) : k \in 1..i \/ k = i + 1
      BY <2>1
    <3>2. \A k \in 1..i : k \in 1..(i + 1)
      BY <2>1
    <3>3. i + 1 \in 1..(i + 1)
      BY <2>1
    <3> QED BY <3>1, <3>2, <3>3 DEF Listed
  <2>4. CASE c[i + 1].commentId \in Ids(r[i])
    BY <1>5, <2>1, <2>2, <2>3, <2>4
  <2>5. CASE c[i + 1].commentId \notin Ids(r[i])
    <3>1. r[i + 1] = Append(r[i], c[i + 1])
      BY <1>5, <2>1, <2>5
    <3>2. r[i] \in Seq(S) /\ c[i + 1] \in S
      BY <1>2, <1>5, <2>1
    <3>3. Ids(Append(r[i], c[i + 1])) = Ids(r[i]) \cup {c[i + 1].commentId}
      BY <3>2, AppendedIds
    <3> QED BY <2>2, <2>3, <3>1, <3>3
  <2> QED BY <2>4, <2>5
<1>8. N = Nat
  <2>1. N \in SUBSET Nat OBVIOUS
  <2> HIDE DEF N
  <2> QED BY <1>6, <1>7, <2>1, Induction
<1>9. ASSUME NEW i \in 1..n
      PROVE  c[i].commentId \in Ids(r[i - 1]) <=> i \notin K
  <2>1. i - 1 \in Nat /\ i - 1 <= n
    OBVIOUS
  <2>2. i - 1 \in N
    <3> HIDE DEF N
    <3> QED BY <1>8, <2>1
  <2>3. Ids(r[i - 1]) = Listed(c, i - 1)
    BY <2>1, <2>2
  <2>4. c[i].commentId \in Listed(c, i - 1) <=> ~IsFirst(c, i)
    BY DEF Listed, IsFirst
  <2> QED BY <2>3, <2>4 DEF Firsts
<1>10. Picking(r, n, c, K)
  BY <1>5, <1>9 DEF Picking
<1>11. K \in SUBSET (1..n) /\ K \cap (1..n) = K
  BY DEF Firsts
<1> HIDE DEF K
<1>12. r[n] = KeptAt(c, K \cap (1..n))
  <2>1. n \in 0..n
    OBVIOUS
  <2>2. \A i \in 0..n : r[i] = KeptAt(c, K \cap (1..i))
    BY <1>10, <1>11, KeptRuns
  <2> QED BY <2>1, <2>2
<1>13. r[n] = g[1..n]
  BY DEF r, RunOf
<1> QED BY <1>11, <1>12, <1>13 DEF K

\* So does the worker.
LEMMA WorkerDedupes ==
    ASSUME NEW n \in Nat, NEW c, DOMAIN c = 1..n
    PROVE  Worker!DedupeComments(c) = KeptAt(c, Firsts(c, n))
<1> DEFINE S == Members(c, n)
           step == Dedupes(c, n)
           last(T) == CHOOSE x \in T : \A y \in T : x >= y
           value(h, T) ==
               IF T = {} THEN <<>>
               ELSE IF \E i \in DOMAIN h[T \ {last(T)}] :
                          h[T \ {last(T)}][i].commentId = c[last(T)].commentId
                    THEN h[T \ {last(T)}]
                    ELSE Append(h[T \ {last(T)}], c[last(T)])
           made(h) == h = [T \in SUBSET DOMAIN c |-> value(h, T)]
<1>1. Worker!DedupeComments(c) = (CHOOSE h : made(h))[DOMAIN c]
  BY ZenonT(40) DEF Worker!DedupeComments, Worker!FoldLeft,
     Worker!MapThenFoldSet, Worker!Max
<1>2. step \in [(1..n) \X Seq(S) -> Seq(S)] /\ <<>> \in Seq(S)
  BY DedupesTyped
<1>3. \A i \in 1..n, t \in Seq(S) :
         step[<<i, t>>] = IF c[i].commentId \in Ids(t) THEN t
                          ELSE Append(t, c[i])
  BY DEF Dedupes
<1> HIDE DEF S, step
<1>4. ASSUME NEW T \in SUBSET (1..n), T # {}, NEW h,
             h[T \ {Greatest(T)}] \in Seq(S)
      PROVE  value(h, T) = step[<<Greatest(T), h[T \ {Greatest(T)}]>>]
  <2>1. Greatest(T) \in 1..n
    BY <1>4, GreatestIs
  <2>2. last(T) = Greatest(T)
    BY DEF Greatest
  <2> HIDE DEF last
  <2> DEFINE t == h[T \ {Greatest(T)}]
  <2>3. value(h, T) = IF c[Greatest(T)].commentId \in Ids(t) THEN t
                      ELSE Append(t, c[Greatest(T)])
    BY <1>4, <2>2 DEF Ids
  <2>4. t \in Seq(S)
    BY <1>4
  <2> HIDE DEF t, value
  <2> QED BY <1>3, <2>1, <2>3, <2>4 DEF t
<1>5. ASSUME NEW h, IsWholeFold(h, n, Seq(S), <<>>, step) PROVE made(h)
  <2>1. ASSUME NEW T \in SUBSET (1..n) PROVE h[T] = value(h, T)
    <3>1. CASE T = {} BY <3>1, <1>5 DEF IsWholeFold
    <3>2. CASE T # {}
      <4>1. T \ {Greatest(T)} \in SUBSET (1..n) OBVIOUS
      <4>2. h[T \ {Greatest(T)}] \in Seq(S)
        BY <1>5, <4>1 DEF IsWholeFold
      <4>3. h[T] = step[<<Greatest(T), h[T \ {Greatest(T)}]>>]
        BY <1>5, <3>2 DEF IsWholeFold
      <4> HIDE DEF value
      <4> QED BY <1>4, <3>2, <4>2, <4>3
    <3> QED BY <3>1, <3>2
  <2>2. h = [T \in SUBSET (1..n) |-> h[T]]
    BY <1>5 DEF IsWholeFold
  <2> HIDE DEF value
  <2> QED BY <2>1, <2>2
<1>6. ASSUME NEW h, made(h) PROVE IsLeftFold(h, n, Seq(S), <<>>, step)
  <2>1. \A T \in SUBSET (1..n) : h[T] = value(h, T)
    <3> HIDE DEF value
    <3> QED BY <1>6
  <2>2. h[{}] = <<>>
    BY <2>1
  <2> HIDE DEF value
  <2> QED BY <1>4, <2>1, <2>2 DEF IsLeftFold
<1> DEFINE g == CHOOSE h : made(h)
<1> HIDE DEF made
<1>7. made(g)
  <2>1. \E h : IsWholeFold(h, n, Seq(S), <<>>, step)
    BY <1>2, LeftFoldExists
  <2> QED BY <1>5, <2>1
<1> HIDE DEF g
<1>8. Deduped(g, c, n)
  BY <1>6, <1>7 DEF Deduped, S, step
<1>9. g[1..n] = KeptAt(c, Firsts(c, n))
  BY <1>8, DedupesPick
<1> QED BY <1>1, <1>9 DEF g

\* The members of a sequence.
In(t) == {t[k] : k \in DOMAIN t}

\* No two members have one key.
OneEach(t, key) ==
    \A i, j \in DOMAIN t : key[t[i]] = key[t[j]] => i = j

\* One sequence after the other, of which no key is in both.
LEMMA Concatenated ==
    ASSUME NEW S, NEW s \in Seq(S), NEW t \in Seq(S), NEW key
    PROVE  /\ s \o t \in Seq(S)
           /\ In(s \o t) = In(s) \cup In(t)
           /\ /\ OneEach(s, key) /\ OneEach(t, key)
              /\ \A x \in In(s), y \in In(t) : key[x] # key[y]
              => OneEach(s \o t, key)
<1> DEFINE m == Len(s)
           n == Len(t)
           a == s \o t
<1>1. /\ a \in Seq(S) /\ Len(a) = m + n
      /\ \A i \in 1..Len(a) : a[i] = IF i <= m THEN s[i] ELSE t[i - m]
  BY ConcatProperties
<1>2. /\ m \in Nat /\ n \in Nat
      /\ DOMAIN s = 1..m /\ DOMAIN t = 1..n /\ DOMAIN a = 1..(m + n)
  BY <1>1
<1> HIDE DEF m, n, a
<1>3. \A i \in 1..(m + n) : /\ i <= m => i \in 1..m /\ a[i] = s[i]
                            /\ ~(i <= m) => i - m \in 1..n /\ a[i] = t[i - m]
  BY <1>1, <1>2
<1>4. \A i \in 1..m : i \in 1..(m + n) /\ i <= m
  BY <1>2
<1>5. \A i \in 1..n : i + m \in 1..(m + n) /\ ~(i + m <= m) /\ (i + m) - m = i
  BY <1>2
<1>6. In(a) = In(s) \cup In(t)
  <2>1. ASSUME NEW i \in 1..(m + n) PROVE a[i] \in In(s) \cup In(t)
    BY <1>2, <1>3 DEF In
  <2>2. ASSUME NEW i \in 1..m PROVE s[i] \in In(a)
    BY <1>2, <1>3, <1>4 DEF In
  <2>3. ASSUME NEW i \in 1..n PROVE t[i] \in In(a)
    <3>1. i + m \in 1..(m + n) /\ a[i + m] = t[(i + m) - m] /\ (i + m) - m = i
      BY <1>3, <1>5
    <3>2. a[i + m] = t[i]
      BY <3>1
    <3> QED BY <1>2, <3>1, <3>2 DEF In
  <2> QED BY <1>2, <2>1, <2>2, <2>3 DEF In
<1>7. ASSUME OneEach(s, key), OneEach(t, key),
             \A x \in In(s), y \in In(t) : key[x] # key[y],
             NEW i \in 1..(m + n), NEW j \in 1..(m + n),
             key[a[i]] = key[a[j]]
      PROVE  i = j
  <2>1. CASE i <= m /\ j <= m
    BY <1>2, <1>3, <1>7, <2>1 DEF OneEach
  <2>2. CASE ~(i <= m) /\ ~(j <= m)
    <3>1. /\ i - m \in DOMAIN t /\ j - m \in DOMAIN t
          /\ a[i] = t[i - m] /\ a[j] = t[j - m]
      BY <1>2, <1>3, <2>2
    <3>2. key[t[i - m]] = key[t[j - m]]
      BY <1>7, <3>1
    <3>3. i - m = j - m
      BY <1>7, <3>1, <3>2 DEF OneEach
    <3> QED BY <1>2, <3>3
  <2>3. CASE i <= m /\ ~(j <= m)
    <3>1. a[i] \in In(s) /\ a[j] \in In(t)
      BY <1>2, <1>3, <2>3 DEF In
    <3> QED BY <1>7, <3>1
  <2>4. CASE ~(i <= m) /\ j <= m
    <3>1. a[j] \in In(s) /\ a[i] \in In(t)
      BY <1>2, <1>3, <2>4 DEF In
    <3> QED BY <1>7, <3>1
  <2> QED BY <2>1, <2>2, <2>3, <2>4
<1>8. /\ OneEach(s, key) /\ OneEach(t, key)
      /\ \A x \in In(s), y \in In(t) : key[x] # key[y]
      => OneEach(a, key)
  BY <1>2, <1>7 DEF OneEach
<1> QED BY <1>1, <1>6, <1>8 DEF a

\* r puts one sequence after the other.
Joining(r, n, w) ==
    r[0] = <<>> /\ \A i \in 1..n : r[i] = r[i - 1] \o w[i]

\* FlattenSeq puts the sequences one after the other.
LEMMA FlattenJoins ==
    ASSUME NEW n \in Nat, NEW S, NEW w \in [1..n -> Seq(S)]
    PROVE  \E r \in [0..n -> Seq(S)] :
              Joining(r, n, w) /\ Worker!FlattenSeq(w) = r[n]
<1> DEFINE step == [p \in (1..n) \X Seq(S) |-> p[2] \o w[p[1]]]
<1>1. \A i \in 1..n, t \in Seq(S) : t \o w[i] \in Seq(S)
  BY ConcatProperties
<1>2. step \in [(1..n) \X Seq(S) -> Seq(S)] /\ <<>> \in Seq(S)
  BY <1>1
<1>3. \A i \in 1..n, t \in Seq(S) : step[<<i, t>>] = t \o w[i]
  OBVIOUS
<1> HIDE DEF step
<1>4. PICK g : IsWholeFold(g, n, Seq(S), <<>>, step)
  BY <1>2, LeftFoldExists
<1>5. IsLeftFold(g, n, Seq(S), <<>>, step)
  BY <1>4 DEF IsWholeFold, IsLeftFold
<1> DEFINE r == RunOf(g, n)
<1>6. Runs(r, n, Seq(S), <<>>, step)
  BY <1>2, <1>5, LeftFoldRuns
<1> HIDE DEF r
<1>7. r \in [0..n -> Seq(S)] /\ Joining(r, n, w)
  <2>1. \A i \in 1..n : i - 1 \in 0..n
    OBVIOUS
  <2> QED BY <1>3, <1>6, <2>1 DEF Runs, Joining
<1>8. Len(w) = n /\ DOMAIN w = 1..n
  BY SeqDef
<1>9. CASE n = 0
  <2>1. w = <<>>
    BY <1>8, <1>9
  <2>2. Worker!FlattenSeq(w) = w
    BY <1>8, <1>9 DEF Worker!FlattenSeq
  <2> QED BY <1>7, <1>9, <2>1, <2>2 DEF Joining
<1>10. CASE n # 0
  <2> DEFINE value(h, i) == IF i = 1 THEN w[i] ELSE h[i - 1] \o w[i]
             made(h) == h = [i \in 1..Len(w) |-> value(h, i)]
  <2>1. Worker!FlattenSeq(w) = (CHOOSE h : made(h))[Len(w)]
    <3>1. Len(w) # 0
      BY <1>8, <1>10
    <3> QED BY Zenon, <3>1 DEF Worker!FlattenSeq
  <2>2. made([i \in 1..n |-> r[i]])
    <3> DEFINE f == [i \in 1..n |-> r[i]]
    <3>1. ASSUME NEW i \in 1..n PROVE r[i] = value(f, i)
      <4>1. CASE i = 1
        <5>0. 1 \in 1..n /\ 1 - 1 = 0
          BY <4>1
        <5>1. r[1] = <<>> \o w[1]
          BY <1>7, <5>0 DEF Joining
        <5>2. w[1] \in Seq(S)
          BY <4>1
        <5> QED BY <4>1, <5>1, <5>2, ConcatEmptySeq
      <4>2. CASE i # 1
        <5>1. i - 1 \in 1..n
          BY <4>2
        <5> QED BY <1>7, <4>2, <5>1 DEF Joining
      <4> QED BY <4>1, <4>2
    <3> HIDE DEF value
    <3>2. f = [i \in 1..n |-> value(f, i)]
      BY <3>1
    <3> HIDE DEF f
    <3>3. made(f)
      BY <1>8, <3>2
    <3> QED BY <3>3 DEF f
  <2> DEFINE f == CHOOSE h : made(h)
  <2> HIDE DEF made
  <2>3. made(f)
    BY <2>2
  <2> HIDE DEF f
  <2>4. \A i \in 1..n : f[i] = value(f, i)
    <3> HIDE DEF value
    <3> QED BY <1>8, <2>3 DEF made
  <2> DEFINE N == {i \in Nat : i + 1 <= n => f[i + 1] = r[i + 1]}
  <2>5. 0 \in N
    <3>1. 1 \in 1..n /\ 0 + 1 = 1 /\ 1 - 1 = 0
      BY <1>10
    <3>2. f[1] = w[1] /\ r[1] = <<>> \o w[1] /\ w[1] \in Seq(S)
      BY <1>7, <2>4, <3>1 DEF Joining
    <3>3. f[1] = r[1]
      BY <3>2, ConcatEmptySeq
    <3> QED BY <3>1, <3>3
  <2>6. ASSUME NEW i \in N PROVE i + 1 \in N
    <3> SUFFICES ASSUME (i + 1) + 1 <= n
                 PROVE  f[(i + 1) + 1] = r[(i + 1) + 1]
      OBVIOUS
    <3> DEFINE k == (i + 1) + 1
    <3>1. k \in 1..n /\ k # 1 /\ k - 1 = i + 1 /\ f[i + 1] = r[i + 1]
      OBVIOUS
    <3> HIDE DEF k, N
    <3>2. f[k] = f[k - 1] \o w[k] /\ r[k] = r[k - 1] \o w[k]
      BY <1>7, <2>4, <3>1 DEF Joining
    <3>3. f[k] = r[k]
      BY <3>1, <3>2
    <3> QED BY <3>3 DEF k
  <2>7. N = Nat
    <3>1. N \in SUBSET Nat OBVIOUS
    <3> HIDE DEF N
    <3> QED BY <2>5, <2>6, <3>1, Induction
  <2>8. f[n] = r[n]
    <3>1. n - 1 \in Nat /\ (n - 1) + 1 = n
      BY <1>10
    <3>2. n - 1 \in N
      <4> HIDE DEF N
      <4> QED BY <2>7, <3>1
    <3> QED BY <3>1, <3>2
  <2> QED BY <1>7, <1>8, <2>1, <2>8 DEF f
<1> QED BY <1>9, <1>10

\* No key is in two of the sequences, nor twice in one.
Apart(w, n, key) ==
    /\ \A k \in 1..n : OneEach(w[k], key)
    /\ \A k, l \in 1..n : k # l =>
          \A x \in In(w[k]), y \in In(w[l]) : key[x] # key[y]

\* What FlattenSeq makes has the members of all the sequences, each once if
\* each was there once.
LEMMA Flattened ==
    ASSUME NEW n \in Nat, NEW S, NEW w \in [1..n -> Seq(S)], NEW key
    PROVE  LET f == Worker!FlattenSeq(w)
           IN  /\ f \in Seq(S)
               /\ In(f) = UNION {In(w[k]) : k \in 1..n}
               /\ Apart(w, n, key) => OneEach(f, key)
<1>1. PICK r \in [0..n -> Seq(S)] :
             Joining(r, n, w) /\ Worker!FlattenSeq(w) = r[n]
  BY FlattenJoins
<1> DEFINE All(i) == UNION {In(w[k]) : k \in 1..i}
           N == {i \in Nat : i <= n =>
                    /\ In(r[i]) = All(i)
                    /\ Apart(w, n, key) => OneEach(r[i], key)}
<1>2. 0 \in N
  <2>1. In(<<>>) = {} /\ OneEach(<<>>, key)
    BY DEF In, OneEach
  <2>2. All(0) = {}
    OBVIOUS
  <2> HIDE DEF All
  <2> QED BY <1>1, <2>1, <2>2 DEF Joining
<1>3. ASSUME NEW i \in N PROVE i + 1 \in N
  <2> SUFFICES ASSUME i + 1 <= n
               PROVE  /\ In(r[i + 1]) = All(i + 1)
                      /\ Apart(w, n, key) => OneEach(r[i + 1], key)
    BY DEF N
  <2>1. /\ i + 1 \in 1..n /\ (i + 1) - 1 = i /\ i \in Nat /\ i \in 0..n
        /\ In(r[i]) = All(i)
        /\ Apart(w, n, key) => OneEach(r[i], key)
    BY DEF N
  <2> HIDE DEF N
  <2>2. r[i + 1] = r[i] \o w[i + 1]
    BY <1>1, <2>1 DEF Joining
  <2>3. r[i] \in Seq(S) /\ w[i + 1] \in Seq(S)
    BY <2>1
  <2>4. /\ In(r[i + 1]) = In(r[i]) \cup In(w[i + 1])
        /\ /\ OneEach(r[i], key) /\ OneEach(w[i + 1], key)
           /\ \A x \in In(r[i]), y \in In(w[i + 1]) : key[x] # key[y]
           => OneEach(r[i + 1], key)
    BY <2>2, <2>3, Concatenated
  <2>5. All(i + 1) = All(i) \cup In(w[i + 1])
    <3>1. \A k \in 1..(i + 1) : k \in 1..i \/ k = i + 1
      BY <2>1
    <3>2. (\A k \in 1..i : k \in 1..(i + 1)) /\ i + 1 \in 1..(i + 1)
      BY <2>1
    <3> QED BY <3>1, <3>2
  <2>6. ASSUME Apart(w, n, key)
        PROVE  \A x \in In(r[i]), y \in In(w[i + 1]) : key[x] # key[y]
    <3> SUFFICES ASSUME NEW x \in In(r[i]), NEW y \in In(w[i + 1])
                 PROVE  key[x] # key[y]
      OBVIOUS
    <3>1. PICK k \in 1..i : x \in In(w[k])
      BY <2>1
    <3>2. k \in 1..n /\ k # i + 1
      BY <2>1
    <3> QED BY <2>1, <2>6, <3>1, <3>2 DEF Apart
  <2>7. Apart(w, n, key) => OneEach(w[i + 1], key)
    BY <2>1 DEF Apart
  <2> HIDE DEF All
  <2> QED BY <2>1, <2>4, <2>5, <2>6, <2>7
<1>4. N = Nat
  <2>1. N \in SUBSET Nat BY DEF N
  <2> HIDE DEF N
  <2> QED BY <1>2, <1>3, <2>1, Induction
<1>5. n \in N /\ n \in 0..n
  <2> HIDE DEF N
  <2> QED BY <1>4
<1>6. In(r[n]) = All(n) /\ (Apart(w, n, key) => OneEach(r[n], key))
  BY <1>5
<1> HIDE DEF N
<1>7. r[n] \in Seq(S)
  BY <1>5
<1> QED BY <1>1, <1>6, <1>7

-----------------------------------------------------------------------------
(* The videos.                                                             *)

\* Arrays are the same inside of both copies.
LEMMA RanksOfCopies ==
    ASSUME NEW K, NEW R
    PROVE  /\ Api!ByRank(K, R) = ByRank(K, R)
           /\ Worker!ByRank(K, R) = ByRank(K, R)
           /\ Api!UpTo(K) = UpTo(K)
           /\ Worker!UpTo(K) = UpTo(K)
<1>1. Api!ByRank(K, R) = ByRank(K, R)
  BY Zenon DEF Api!ByRank, ByRank, Api!Cardinality, Cardinality
<1>2. Worker!ByRank(K, R) = ByRank(K, R)
  BY Zenon DEF Worker!ByRank, ByRank, Worker!Cardinality, Cardinality
<1> QED
  BY Zenon, <1>1, <1>2 DEF Api!UpTo, Worker!UpTo, UpTo

\* So is FlattenSeq.
LEMMA CopiesFlatten ==
    ASSUME NEW w PROVE Api!FlattenSeq(w) = Worker!FlattenSeq(w)
  BY Zenon DEF Api!FlattenSeq, Worker!FlattenSeq

\* The videos that are stored: those with an id and a title.
VideosAt(videos) ==
    {i \in DOMAIN videos : /\ videos[i].id # Null
                           /\ Api!Field(videos[i].snippet, "title") # Null}

VideoRow(v, duration) ==
    [youtubeVideoId |-> v.id,
     videoTitle |-> Api!Field(v.snippet, "title"),
     durationSeconds |-> duration,
     viewCount |-> Api!ParseNumberishInt(v.viewCount),
     likeCount |-> Api!ParseNumberishInt(v.likeCount),
     commentCount |-> Api!ParseNumberishInt(v.commentCount)]

\* How long a video takes, which only the worker stores.
Duration(v) == IF v.contentDetails # Null
               THEN Worker!ParseIso8601Duration(v.contentDetails) ELSE Null

\* The API sanitizes a video and normalizes what is left.
LEMMA ApiVideo ==
    ASSUME NEW v, Null \notin Int
    PROVE  Api!NormalizeVideo(Api!SanitizeVideo(v)) = VideoRow(v, Null)
<1>1. \A n : Api!ParseNumberishInt(Api!OrElse(n, 0)) = Api!ParseNumberishInt(n)
  BY DEF Api!ParseNumberishInt, Api!OrElse
<1>2. \A t : Api!OrElse(Api!Field(Null, "title"), t) = t
  BY DEF Api!OrElse, Api!Field
<1> QED
  BY <1>1, <1>2 DEF Api!NormalizeVideo, Api!SanitizeVideo, VideoRow

\* The worker's copy of it.
LEMMA WorkerVideo ==
    ASSUME NEW v
    PROVE  Worker!NormalizeVideo(Worker!MapVideo(v)) = VideoRow(v, Duration(v))
<1>1. \A n : Worker!ParseNumberishInt(n) = Api!ParseNumberishInt(n)
  BY DEF Api!ParseNumberishInt, Worker!ParseNumberishInt
<1>2. \A t : Worker!OrElse(t, t) = t
  BY DEF Worker!OrElse
<1>3. Worker!Field(v.snippet, "title") = Api!Field(v.snippet, "title")
  BY DEF Worker!Field, Api!Field
<1> QED
  BY <1>1, <1>2, <1>3
  DEF Worker!NormalizeVideo, Worker!MapVideo, VideoRow, Duration

\* Both store the same videos, but for their durations.
LEMMA VideosStored ==
    ASSUME NEW videos, NEW ids, IsVideoList(videos, ids), Null \notin Int
    PROVE  LET R == ByRank(VideosAt(videos), UpTo(VideosAt(videos)))
           IN  /\ Api!NormalizeVideos([i \in DOMAIN videos |->
                                          Api!SanitizeVideo(videos[i])])
                  = [k \in DOMAIN R |-> VideoRow(videos[R[k]], Null)]
               /\ Worker!NormalizeVideos([i \in DOMAIN videos |->
                                             Worker!MapVideo(videos[i])])
                  = [k \in DOMAIN R |->
                        VideoRow(videos[R[k]], Duration(videos[R[k]]))]

<1> DEFINE K == VideosAt(videos)
           R == ByRank(K, UpTo(K))
           a == [i \in DOMAIN videos |-> Api!SanitizeVideo(videos[i])]
           w == [i \in DOMAIN videos |-> Worker!MapVideo(videos[i])]
           n == Len(videos)
<1>1. /\ n \in Nat /\ DOMAIN videos = 1..n
      /\ \A i \in 1..n :
           videos[i].snippet # Null => videos[i].snippet.title # Null
  BY DEF IsVideoList, IsList
<1>2. \A k \in DOMAIN R : R[k] \in K
  <2>1. K \in SUBSET (1..n)
    BY <1>1 DEF VideosAt
  <2> HIDE DEF K, n
  <2>2. IsFiniteSet(K) /\ Orders(UpTo(K), K)
    BY <1>1, <2>1, UpToOrders
  <2>3. IsListing(R, Cardinality(K), K)
    BY <2>2, RanksList
  <2> HIDE DEF R
  <2> QED BY <2>3 DEF IsListing
<1>3. \A i \in DOMAIN videos :
         /\ Api!NormalizeVideo(a[i]) = VideoRow(videos[i], Null)
         /\ Worker!NormalizeVideo(w[i])
              = VideoRow(videos[i], Duration(videos[i]))
  BY ApiVideo, WorkerVideo
<1>4. K = {i \in DOMAIN a : /\ a[i].id # Null
                            /\ a[i].snippet # Null \/ a[i].title # Null}
  BY DEF Api!SanitizeVideo, VideosAt
<1>5. K = {i \in DOMAIN w : /\ w[i].id # Null
                            /\ w[i].snippet # Null \/ w[i].title # Null}
  BY <1>1 DEF Worker!MapVideo, Worker!Field, Api!Field, VideosAt
<1>6. DOMAIN a = DOMAIN videos /\ DOMAIN w = DOMAIN videos
      /\ K \subseteq DOMAIN videos
  BY DEF VideosAt
<1> HIDE DEF a, w, K
<1>7. Api!NormalizeVideos(a) = [k \in DOMAIN R |-> VideoRow(videos[R[k]], Null)]
  <2>1. Api!NormalizeVideos(a)
          = [k \in DOMAIN [j \in DOMAIN R |-> a[R[j]]] |->
               Api!NormalizeVideo([j \in DOMAIN R |-> a[R[j]]][k])]
    BY ZenonT(40), <1>4, RanksOfCopies
    DEF Api!NormalizeVideos, Api!Filtered
  <2> HIDE DEF R
  <2>2. \A k \in DOMAIN R : Api!NormalizeVideo([j \in DOMAIN R |-> a[R[j]]][k])
                              = VideoRow(videos[R[k]], Null)
    BY <1>2, <1>3, <1>6
  <2>3. DOMAIN [j \in DOMAIN R |-> a[R[j]]] = DOMAIN R
    OBVIOUS
  <2> QED BY Zenon, <2>1, <2>2, <2>3
<1>8. Worker!NormalizeVideos(w)
        = [k \in DOMAIN R |-> VideoRow(videos[R[k]], Duration(videos[R[k]]))]
  <2>1. Worker!NormalizeVideos(w)
          = [k \in DOMAIN [j \in DOMAIN R |-> w[R[j]]] |->
               Worker!NormalizeVideo([j \in DOMAIN R |-> w[R[j]]][k])]
    BY ZenonT(40), <1>5, RanksOfCopies
    DEF Worker!NormalizeVideos, Worker!Filtered
  <2> HIDE DEF R
  <2>2. \A k \in DOMAIN R :
           Worker!NormalizeVideo([j \in DOMAIN R |-> w[R[j]]][k])
             = VideoRow(videos[R[k]], Duration(videos[R[k]]))
    BY <1>2, <1>3, <1>6
  <2>3. DOMAIN [j \in DOMAIN R |-> w[R[j]]] = DOMAIN R
    OBVIOUS
  <2> QED BY Zenon, <2>1, <2>2, <2>3
<1> QED BY <1>7, <1>8 DEF a, w, K

-----------------------------------------------------------------------------
(* The comments of a video.                                                *)

\* The threads that name a comment, and what is kept of one.
NamedAt(items) ==
    {i \in DOMAIN items :
        items[i].snippet
          /\ Api!OrElse(items[i].comment, items[i].thread) # Null}

CommentOf(item, type) ==
    [commentId |-> Api!OrElse(item.comment, item.thread),
     likeCount |-> Api!OrElse(item.likes, 0), commentType |-> type]

CommentsIn(items, type) ==
    [k \in DOMAIN ByRank(NamedAt(items), UpTo(NamedAt(items))) |->
        CommentOf(items[ByRank(NamedAt(items), UpTo(NamedAt(items)))[k]],
                  type)]

\* Both copies make the same comments of a list of threads.
LEMMA ThreadsFetched ==
    ASSUME NEW items, NEW type
    PROVE  /\ Api!FetchCommentThreads(items, type) = CommentsIn(items, type)
           /\ Worker!FetchCommentThreads(items, type)
                = CommentsIn(items, type)
<1> DEFINE K == NamedAt(items)
           R == ByRank(K, UpTo(K))
           kept == [k \in DOMAIN R |-> items[R[k]]]
<1>1. \A a, b : Worker!OrElse(a, b) = Api!OrElse(a, b)
  BY DEF Worker!OrElse, Api!OrElse
<1>2. /\ DOMAIN kept = DOMAIN R
      /\ \A k \in DOMAIN R : kept[k] = items[R[k]]
  OBVIOUS
<1>3. K = {i \in DOMAIN items :
              items[i].snippet
                /\ Worker!OrElse(items[i].comment, items[i].thread) # Null}
  BY Zenon, <1>1 DEF NamedAt
<1>4. Api!FetchCommentThreads(items, type)
        = [k \in DOMAIN kept |-> CommentOf(kept[k], type)]
  BY ZenonT(40), RanksOfCopies
  DEF Api!FetchCommentThreads, Api!Filtered, CommentOf, NamedAt
<1>5. Worker!FetchCommentThreads(items, type)
        = [k \in DOMAIN kept |-> CommentOf(kept[k], type)]
  <2>1. Worker!FetchCommentThreads(items, type)
        = [k \in DOMAIN kept |->
              [commentId |-> Worker!OrElse(kept[k].comment, kept[k].thread),
               likeCount |-> Worker!OrElse(kept[k].likes, 0),
               commentType |-> type]]
    <3> HIDE DEF K
    <3> QED BY ZenonT(40), <1>3, RanksOfCopies
        DEF Worker!FetchCommentThreads, Worker!Filtered
  <2> HIDE DEF kept
  <2> QED BY ZenonT(40), <1>1, <2>1 DEF CommentOf
<1>6. CommentsIn(items, type) = [k \in DOMAIN kept |-> CommentOf(kept[k], type)]
  <2>1. CommentsIn(items, type)
          = [k \in DOMAIN R |-> CommentOf(items[R[k]], type)]
    BY Zenon DEF CommentsIn
  <2> HIDE DEF R, kept
  <2> QED BY Zenon, <1>2, <2>1
<1> QED BY <1>4, <1>5, <1>6

\* They are of one type, and have the ids the threads name.
LEMMA CommentsListed ==
    ASSUME NEW items, IsList(items), NEW type
    PROVE  LET t == CommentsIn(items, type)
           IN  /\ t \in Seq(In(t))
               /\ Ids(t) = Named(items)
               /\ \A k \in DOMAIN t : t[k].commentType = type
<1> DEFINE K == NamedAt(items)
           m == Cardinality(K)
           R == ByRank(K, UpTo(K))
           n == Len(items)
           t == CommentsIn(items, type)
<1>1. n \in Nat /\ DOMAIN items = 1..n
  BY DEF IsList
<1>2. IsListing(R, m, K) /\ m \in Nat /\ K \subseteq 1..n
  <2>1. K \in SUBSET (1..n)
    BY Zenon, <1>1 DEF NamedAt
  <2> HIDE DEF K, n
  <2>2. IsFiniteSet(K) /\ Orders(UpTo(K), K)
    BY <1>1, <2>1, UpToOrders
  <2> QED BY <2>1, <2>2, RanksList, FS_CardinalityType
<1>3. t = [k \in DOMAIN R |-> CommentOf(items[R[k]], type)]
  BY Zenon DEF CommentsIn
<1>4. \A i \in DOMAIN items :
        i \in K <=> items[i].snippet
                      /\ Api!OrElse(items[i].comment, items[i].thread) # Null
  BY Zenon DEF NamedAt
<1> HIDE DEF K, R, m, n
<1>5. /\ DOMAIN R = 1..m /\ \A k \in 1..m : R[k] \in K
      /\ \A i \in K : \E k \in 1..m : R[k] = i
  BY <1>2 DEF IsListing
<1>6. t = [k \in 1..m |-> CommentOf(items[R[k]], type)]
  BY <1>3, <1>5
<1> HIDE DEF t
<1>7. t \in Seq(In(t))
  <2>1. \A k \in 1..m : t[k] \in In(t)
    BY <1>6 DEF In
  <2> DEFINE S == In(t)
  <2> HIDE DEF S
  <2>2. t \in [1..m -> S]
    BY <1>6, <2>1 DEF S
  <2>3. t \in Seq(S)
    BY <1>2, <2>2, SeqDef
  <2> QED BY <2>3 DEF S
<1>8. \A k \in 1..m : /\ t[k].commentType = type
                      /\ t[k].commentId
                           = Api!OrElse(items[R[k]].comment, items[R[k]].thread)
  BY <1>6 DEF CommentOf
<1>9. Ids(t) = {Api!OrElse(items[i].comment, items[i].thread) : i \in K}
  <2>1. Ids(t) = {t[k].commentId : k \in 1..m}
    BY <1>6 DEF Ids
  <2> QED BY <1>5, <1>8, <2>1
<1>10. \A a, b : {a, b} # {Null} <=> Api!OrElse(a, b) # Null
  BY DEF Api!OrElse
<1>11. Named(items) = {Api!OrElse(items[i].comment, items[i].thread) : i \in K}
  <2>1. ASSUME NEW i \in K
        PROVE  Api!OrElse(items[i].comment, items[i].thread) \in Named(items)
    <3>1. i \in DOMAIN items
      BY <1>1, <1>2
    <3>2. /\ items[i] \in {x \in {items[j] : j \in DOMAIN items} :
                             x.snippet /\ {x.comment, x.thread} # {Null}}
      BY Zenon, <1>4, <1>10, <3>1
    <3> QED BY Zenon, <3>2 DEF Named, Api!OrElse
  <2>2. ASSUME NEW x \in Named(items)
        PROVE  \E i \in K :
                  x = Api!OrElse(items[i].comment, items[i].thread)
    <3>1. PICK y \in {z \in {items[j] : j \in DOMAIN items} :
                         z.snippet /\ {z.comment, z.thread} # {Null}} :
                 x = IF y.comment # Null THEN y.comment ELSE y.thread
      BY Zenon DEF Named
    <3>2. PICK i \in DOMAIN items : y = items[i]
      BY Zenon
    <3>3. i \in K
      BY Zenon, <1>4, <1>10, <3>1, <3>2
    <3> QED BY Zenon, <3>1, <3>2, <3>3 DEF Api!OrElse
  <2> QED BY <2>1, <2>2
<1>12. DOMAIN t = 1..m
  BY <1>6
<1> QED BY <1>7, <1>8, <1>9, <1>11, <1>12 DEF t

\* q leads to the first comment of each id, once.
ListsOnce(q, m, c, n) ==
    /\ KeptAt(c, Firsts(c, n)) = [k \in 1..m |-> c[q[k]]]
    /\ \A k, l \in 1..m : c[q[k]].commentId = c[q[l]].commentId => k = l
    /\ \A k \in 1..m : IsFirst(c, q[k])
    /\ \A i \in 1..n : \E k \in 1..m : c[q[k]].commentId = c[i].commentId

\* Every list of comments that is kept by its firsts has each id once, and
\* every id that is listed.
LEMMA FirstsOnce ==
    ASSUME NEW n \in Nat, NEW S, NEW c \in [1..n -> S]
    PROVE  \E m \in Nat : \E q \in [1..m -> 1..n] : ListsOnce(q, m, c, n)
<1> DEFINE K == Firsts(c, n)
           m == Cardinality(K)
           q == ByRank(K, UpTo(K))
<1>1. K \in SUBSET (1..n) /\ \A i \in 1..n : i \in K <=> IsFirst(c, i)
  BY DEF Firsts
<1> HIDE DEF K
<1>2. IsFiniteSet(K) /\ Orders(UpTo(K), K)
  BY <1>1, UpToOrders
<1>3. IsListing(q, m, K) /\ m \in Nat
  BY <1>2, RanksList, FS_CardinalityType
<1>4. KeptAt(c, K) = [k \in DOMAIN q |-> c[q[k]]]
  BY Zenon DEF KeptAt
<1> HIDE DEF q, m
<1>5. /\ q \in [1..m -> K] /\ DOMAIN q = 1..m
      /\ \A k, l \in 1..m : q[k] = q[l] => k = l
      /\ \A i \in K : \E k \in 1..m : q[k] = i
  BY <1>3 DEF IsListing
<1>6. q \in [1..m -> 1..n]
  BY <1>1, <1>5
<1>7. KeptAt(c, K) = [k \in 1..m |-> c[q[k]]]
  BY <1>4, <1>5
<1>8. \A k \in 1..m : IsFirst(c, q[k])
  BY <1>1, <1>5
<1>9. ASSUME NEW k \in 1..m, NEW l \in 1..m,
             c[q[k]].commentId = c[q[l]].commentId
      PROVE  k = l
  <2>1. q[k] \in 1..n /\ q[l] \in 1..n
    BY <1>6
  <2>2. ~(q[k] < q[l])
    <3> SUFFICES ASSUME q[k] < q[l] PROVE FALSE
      OBVIOUS
    <3>1. q[k] \in 1..(q[l] - 1)
      BY <2>1
    <3> QED BY <1>8, <1>9, <3>1 DEF IsFirst
  <2>3. ~(q[l] < q[k])
    <3> SUFFICES ASSUME q[l] < q[k] PROVE FALSE
      OBVIOUS
    <3>1. q[l] \in 1..(q[k] - 1)
      BY <2>1
    <3> QED BY <1>8, <1>9, <3>1 DEF IsFirst
  <2>4. q[k] = q[l]
    BY <2>1, <2>2, <2>3
  <2> QED BY <1>5, <2>4
<1>10. ASSUME NEW i \in 1..n
       PROVE  \E k \in 1..m : c[q[k]].commentId = c[i].commentId
  <2> DEFINE T == {j \in 1..n : c[j].commentId = c[i].commentId}
  <2>1. T \in SUBSET Nat /\ i \in T
    OBVIOUS
  <2>2. PICK f \in T : \A j \in T : f <= j
    <3> HIDE DEF T
    <3> QED BY <2>1, LeastNatural
  <2>3. f \in 1..n /\ c[f].commentId = c[i].commentId
    BY <2>2
  <2>4. ASSUME NEW j \in 1..(f - 1) PROVE c[j].commentId # c[f].commentId
    <3>1. j \in 1..n /\ ~(f <= j)
      BY <2>3
    <3> QED BY <2>2, <2>3, <3>1
  <2>5. f \in K
    BY <1>1, <2>3, <2>4 DEF IsFirst
  <2> QED BY <1>5, <2>3, <2>5
<1> USE <1>3, <1>6
<1>11. WITNESS m \in Nat
<1>12. WITNESS q \in [1..m -> 1..n]
<1> QED BY <1>7, <1>8, <1>9, <1>10 DEF ListsOnce, K

\* The comments of a video, and the rows they make.
ListedOf(thread) ==
    CommentsIn(thread.top, "top") \o CommentsIn(thread.latest, "latest")

CommentRow(id, c) ==
    [videoId |-> id, youtubeCommentId |-> c.commentId,
     commentType |-> c.commentType, likeCount |-> c.likeCount]

UniqueOf(thread) ==
    KeptAt(ListedOf(thread),
           Firsts(ListedOf(thread), Len(ListedOf(thread))))

CommentRows(id, thread) ==
    [k \in DOMAIN UniqueOf(thread) |-> CommentRow(id, UniqueOf(thread)[k])]

\* The ids and the types of what is listed of a video.
LEMMA ListedBoth ==
    ASSUME NEW thread, IsList(thread.top), IsList(thread.latest)
    PROVE  LET c == ListedOf(thread)
           IN  /\ Len(c) \in Nat /\ DOMAIN c = 1..Len(c)
               /\ c \in [1..Len(c) -> In(c)]
               /\ Ids(c) = Named(thread.top) \cup Named(thread.latest)
               /\ \A i \in 1..Len(c) :
                    IsFirst(c, i) =>
                      c[i].commentType = IF c[i].commentId \in Named(thread.top)
                                         THEN "top" ELSE "latest"
<1> DEFINE s == CommentsIn(thread.top, "top")
           t == CommentsIn(thread.latest, "latest")
           S == In(s) \cup In(t)
           m == Len(s)
           n == Len(t)
           c == s \o t
<1>1. /\ s \in Seq(In(s)) /\ Ids(s) = Named(thread.top)
      /\ \A k \in DOMAIN s : s[k].commentType = "top"
  BY CommentsListed
<1>2. /\ t \in Seq(In(t)) /\ Ids(t) = Named(thread.latest)
      /\ \A k \in DOMAIN t : t[k].commentType = "latest"
  BY CommentsListed
<1> HIDE DEF s, t
<1>3. s \in Seq(S) /\ t \in Seq(S)
  <2> DEFINE A == In(s)
             B == In(t)
  <2>1. /\ s \in Seq(A) /\ t \in Seq(B)
        /\ A \subseteq A \cup B /\ B \subseteq A \cup B
    BY <1>1, <1>2
  <2> HIDE DEF A, B
  <2>2. s \in Seq(A \cup B) /\ t \in Seq(A \cup B)
    BY <2>1, SeqMonotonic
  <2> QED BY <2>2 DEF A, B
<1> HIDE DEF S
<1>4. /\ c \in Seq(S) /\ Len(c) = m + n
      /\ \A i \in 1..Len(c) : c[i] = IF i <= m THEN s[i] ELSE t[i - m]
  BY <1>3, ConcatProperties
<1>5. /\ m \in Nat /\ n \in Nat
      /\ DOMAIN s = 1..m /\ DOMAIN t = 1..n /\ DOMAIN c = 1..(m + n)
  BY <1>3, <1>4
<1> HIDE DEF m, n, c
<1>6. \A i \in 1..(m + n) : /\ i <= m => i \in 1..m /\ c[i] = s[i]
                            /\ ~(i <= m) => i - m \in 1..n /\ c[i] = t[i - m]
  BY <1>4, <1>5
<1>7. \A i \in 1..m : i \in 1..(m + n) /\ i <= m
  BY <1>5
<1>8. \A i \in 1..n : i + m \in 1..(m + n) /\ ~(i + m <= m) /\ (i + m) - m = i
  BY <1>5
<1>9. Ids(c) = Ids(s) \cup Ids(t)
  <2>1. ASSUME NEW i \in 1..(m + n)
        PROVE  c[i].commentId \in Ids(s) \cup Ids(t)
    BY <1>5, <1>6 DEF Ids
  <2>2. ASSUME NEW i \in 1..m PROVE s[i].commentId \in Ids(c)
    <3>1. c[i] = s[i] /\ i \in DOMAIN c
      BY <1>5, <1>6, <1>7
    <3> QED BY <3>1 DEF Ids
  <2>3. ASSUME NEW i \in 1..n PROVE t[i].commentId \in Ids(c)
    <3>1. i + m \in 1..(m + n) /\ c[i + m] = t[(i + m) - m] /\ (i + m) - m = i
      BY <1>6, <1>8
    <3>2. c[i + m] = t[i] /\ i + m \in DOMAIN c
      BY <1>5, <3>1
    <3> QED BY <3>2 DEF Ids
  <2> QED BY <1>5, <2>1, <2>2, <2>3 DEF Ids
<1>10. ASSUME NEW i \in 1..(m + n), IsFirst(c, i)
       PROVE  c[i].commentType = IF c[i].commentId \in Ids(s)
                                 THEN "top" ELSE "latest"
  <2>1. CASE i <= m
    <3>1. i \in DOMAIN s /\ c[i] = s[i]
      BY <1>5, <1>6, <2>1
    <3>2. c[i].commentId \in Ids(s)
      BY <3>1 DEF Ids
    <3> QED BY <1>1, <3>1, <3>2
  <2>2. CASE ~(i <= m)
    <3>1. i - m \in DOMAIN t /\ c[i] = t[i - m]
      BY <1>5, <1>6, <2>2
    <3>2. ASSUME c[i].commentId \in Ids(s) PROVE FALSE
      <4>1. PICK k \in 1..m : c[i].commentId = s[k].commentId
        BY <1>5, <3>2 DEF Ids
      <4>2. k \in 1..(i - 1) /\ c[k] = s[k]
        BY <1>5, <1>6, <1>7, <2>2
      <4> QED BY <1>10, <4>1, <4>2 DEF IsFirst
    <3> QED BY <1>2, <3>1, <3>2
  <2> QED BY <2>1, <2>2
<1>11. Len(c) = m + n /\ m + n \in Nat
  BY <1>4, <1>5
<1>12. c \in [1..(m + n) -> In(c)]
  <2>1. \A i \in 1..(m + n) : c[i] \in In(c)
    BY <1>5 DEF In
  <2> DEFINE I == In(c)
  <2> HIDE DEF I
  <2>2. c \in [1..(m + n) -> I]
    <3>1. c \in [1..(m + n) -> S]
      BY <1>4, <1>11, SeqDef
    <3>2. c = [i \in 1..(m + n) |-> c[i]]
      BY <3>1
    <3>3. \A i \in 1..(m + n) : c[i] \in I
      BY <2>1 DEF I
    <3> QED BY <3>2, <3>3
  <2> QED BY <2>2 DEF I
<1> QED BY <1>1, <1>2, <1>5, <1>9, <1>10, <1>11, <1>12 DEF ListedOf, c, s, t

-----------------------------------------------------------------------------
(* The comments of all videos.                                             *)

\* The rows of a video have each id once, and every id.
LEMMA RowsListed ==
    ASSUME NEW thread, IsList(thread.top), IsList(thread.latest), NEW id
    PROVE  LET r == CommentRows(id, thread)
               top == Named(thread.top)
           IN  /\ r \in Seq(In(r))
               /\ \A k, l \in DOMAIN r :
                    r[k].youtubeCommentId = r[l].youtubeCommentId => k = l
               /\ \A x \in In(r) :
                    /\ x.youtubeCommentId \in top \cup Named(thread.latest)
                    /\ x.videoId = id
                    /\ x.commentType = IF x.youtubeCommentId \in top
                                       THEN "top" ELSE "latest"
               /\ \A y \in top \cup Named(thread.latest) :
                    \E x \in In(r) : x.youtubeCommentId = y
<1> DEFINE c == ListedOf(thread)
           n == Len(c)
           r == CommentRows(id, thread)
           top == Named(thread.top)
           all == top \cup Named(thread.latest)
<1>1. /\ n \in Nat /\ DOMAIN c = 1..n /\ c \in [1..n -> In(c)]
      /\ Ids(c) = all
      /\ \A i \in 1..n :
           IsFirst(c, i) =>
             c[i].commentType = IF c[i].commentId \in top
                                THEN "top" ELSE "latest"
  BY ListedBoth
<1>2. UniqueOf(thread) = KeptAt(c, Firsts(c, n))
  BY DEF UniqueOf
<1> HIDE DEF c, n, top, all
<1>3. PICK m \in Nat : \E q \in [1..m -> 1..n] : ListsOnce(q, m, c, n)
  <2> DEFINE S == In(c)
  <2>1. c \in [1..n -> S]
    BY <1>1
  <2> HIDE DEF S
  <2> QED BY <1>1, <2>1, FirstsOnce
<1>11. PICK q \in [1..m -> 1..n] : ListsOnce(q, m, c, n)
  BY <1>3
<1>12. /\ KeptAt(c, Firsts(c, n)) = [k \in 1..m |-> c[q[k]]]
       /\ \A k, l \in 1..m :
            c[q[k]].commentId = c[q[l]].commentId => k = l
       /\ \A k \in 1..m : IsFirst(c, q[k])
       /\ \A i \in 1..n : \E k \in 1..m :
            c[q[k]].commentId = c[i].commentId
  BY <1>11 DEF ListsOnce
<1>4. r = [k \in 1..m |-> CommentRow(id, c[q[k]])]
  <2>1. r = [k \in DOMAIN UniqueOf(thread) |->
               CommentRow(id, UniqueOf(thread)[k])]
    BY DEF CommentRows
  <2> QED BY <1>2, <1>12, <2>1
<1> HIDE DEF r
<1>5. \A k \in 1..m : /\ r[k].videoId = id
                      /\ r[k].youtubeCommentId = c[q[k]].commentId
                      /\ r[k].commentType = c[q[k]].commentType
                      /\ q[k] \in 1..n
  BY <1>12, <1>4 DEF CommentRow
<1>6. DOMAIN r = 1..m
  BY <1>4
<1>7. r \in Seq(In(r))
  <2> DEFINE S == In(r)
  <2>1. \A k \in 1..m : r[k] \in S
    BY <1>6 DEF In
  <2> HIDE DEF S
  <2>2. r \in [1..m -> S]
    BY <1>4, <2>1
  <2>3. r \in Seq(S)
    BY <1>12, <2>2, SeqDef
  <2> QED BY <2>3 DEF S
<1>8. \A k, l \in 1..m :
         r[k].youtubeCommentId = r[l].youtubeCommentId => k = l
  BY <1>12, <1>5
<1>9. ASSUME NEW x \in In(r)
      PROVE  /\ x.youtubeCommentId \in all
             /\ x.videoId = id
             /\ x.commentType = IF x.youtubeCommentId \in top
                                THEN "top" ELSE "latest"
  <2>1. PICK k \in 1..m : x = r[k]
    BY <1>6 DEF In
  <2>2. c[q[k]].commentId \in Ids(c)
    BY <1>1, <1>5 DEF Ids
  <2> QED BY <1>1, <1>12, <1>5, <2>1, <2>2
<1>10. ASSUME NEW y \in all PROVE \E x \in In(r) : x.youtubeCommentId = y
  <2>1. PICK i \in 1..n : y = c[i].commentId
    BY <1>1 DEF Ids
  <2>2. PICK k \in 1..m : c[q[k]].commentId = c[i].commentId
    BY <1>12
  <2>3. r[k] \in In(r) /\ r[k].youtubeCommentId = y
    BY <1>5, <1>6, <2>1, <2>2 DEF In
  <2> QED BY <2>3
<1> QED BY <1>6, <1>7, <1>8, <1>9, <1>10 DEF r, top, all

\* The rows of all the videos, nothing of those that are not stored.
RowsByVideo(ids, threads, stored) ==
    [k \in DOMAIN ids |-> IF ids[k] \in stored
                          THEN CommentRows(ids[k], threads[ids[k]]) ELSE <<>>]

\* The ids of the videos that are stored.
IdsStored(rows) == {rows[i].youtubeVideoId : i \in DOMAIN rows}

\* Both copies put them one after the other.
LEMMA ApiComments ==
    ASSUME NEW ids, NEW threads, IsThreadList(threads, ids),
           NEW videos, NEW rows
    PROVE  Api!PersistVideoComments(
               rows, Api!FetchVideoComments(ids, threads, videos))
             = Worker!FlattenSeq(RowsByVideo(ids, threads, IdsStored(rows)))
<1> DEFINE e == Api!FetchVideoComments(ids, threads, videos)
           stored == IdsStored(rows)
           Unique(x) == Api!DedupeCommentsById(x.topComments
                                                 \o x.latestComments)
           Entry(x) ==
               IF x.videoId \notin stored THEN <<>>
               ELSE [i \in DOMAIN Unique(x) |->
                        [videoId |-> x.videoId,
                         youtubeCommentId |-> Unique(x)[i].commentId,
                         commentType |-> Unique(x)[i].commentType,
                         likeCount |-> Unique(x)[i].likeCount]]
<1>1. Api!PersistVideoComments(rows, e)
        = Api!FlattenSeq([i \in DOMAIN e |-> Entry(e[i])])
  BY ZenonT(40) DEF Api!PersistVideoComments, IdsStored
<1>2. /\ DOMAIN e = DOMAIN ids
      /\ \A k \in DOMAIN ids :
           /\ e[k].videoId = ids[k]
           /\ e[k].topComments = CommentsIn(threads[ids[k]].top, "top")
           /\ e[k].latestComments
                = CommentsIn(threads[ids[k]].latest, "latest")
  BY ThreadsFetched DEF Api!FetchVideoComments
<1> HIDE DEF e
<1>3. ASSUME NEW k \in DOMAIN ids
      PROVE  Unique(e[k]) = UniqueOf(threads[ids[k]])
  <2> DEFINE c == ListedOf(threads[ids[k]])
  <2>1. e[k].topComments \o e[k].latestComments = c
    BY Zenon, <1>2 DEF ListedOf
  <2>2. Len(c) \in Nat /\ DOMAIN c = 1..Len(c)
    BY ListedBoth DEF IsThreadList
  <2>3. Unique(e[k]) = Api!DedupeCommentsById(c)
    BY Zenon, <2>1
  <2> HIDE DEF c
  <2>4. Api!DedupeCommentsById(c) = KeptAt(c, Firsts(c, Len(c)))
    BY <2>2, ApiDedupes
  <2> QED BY Zenon, <2>3, <2>4 DEF UniqueOf, c
<1>4. ASSUME NEW k \in DOMAIN ids
      PROVE  Entry(e[k]) = IF ids[k] \in stored
                           THEN CommentRows(ids[k], threads[ids[k]]) ELSE <<>>
  BY ZenonT(40), <1>2, <1>3 DEF CommentRows, CommentRow
<1> HIDE DEF Entry
<1>5. [i \in DOMAIN e |-> Entry(e[i])] = RowsByVideo(ids, threads, stored)
  BY <1>2, <1>4 DEF RowsByVideo
<1> QED BY Zenon, <1>1, <1>5, CopiesFlatten DEF e

\* The worker's copy does the same.
LEMMA WorkerComments ==
    ASSUME NEW ids, NEW threads, IsThreadList(threads, ids), NEW rows
    PROVE  Worker!PersistVideoComments(
               Worker!FetchVideoComments(ids, threads), rows)
             = Worker!FlattenSeq(RowsByVideo(ids, threads, IdsStored(rows)))
<1> DEFINE e == Worker!FetchVideoComments(ids, threads)
           stored == IdsStored(rows)
           Unique(x) == Worker!DedupeComments(x.topComments
                                                \o x.latestComments)
           Row(id, c) == [videoId |-> id, youtubeCommentId |-> c.commentId,
                          commentType |-> c.commentType,
                          likeCount |-> c.likeCount]
           Entry(x) ==
               IF \E i \in DOMAIN rows : rows[i].youtubeVideoId = x.videoId
               THEN [i \in DOMAIN Unique(x) |->
                        Row(x.videoId, Unique(x)[i])]
               ELSE <<>>
<1>1. Worker!PersistVideoComments(e, rows)
        = Worker!FlattenSeq([i \in DOMAIN e |-> Entry(e[i])])
  BY ZenonT(40) DEF Worker!PersistVideoComments
<1>2. /\ DOMAIN e = DOMAIN ids
      /\ \A k \in DOMAIN ids :
           /\ e[k].videoId = ids[k]
           /\ e[k].topComments = CommentsIn(threads[ids[k]].top, "top")
           /\ e[k].latestComments
                = CommentsIn(threads[ids[k]].latest, "latest")
  BY ThreadsFetched DEF Worker!FetchVideoComments
<1> HIDE DEF e
<1>3. ASSUME NEW k \in DOMAIN ids
      PROVE  Unique(e[k]) = UniqueOf(threads[ids[k]])
  <2> DEFINE c == ListedOf(threads[ids[k]])
  <2>1. e[k].topComments \o e[k].latestComments = c
    BY Zenon, <1>2 DEF ListedOf
  <2>2. Len(c) \in Nat /\ DOMAIN c = 1..Len(c)
    BY ListedBoth DEF IsThreadList
  <2>3. Unique(e[k]) = Worker!DedupeComments(c)
    BY Zenon, <2>1
  <2> HIDE DEF c
  <2>4. Worker!DedupeComments(c) = KeptAt(c, Firsts(c, Len(c)))
    BY <2>2, WorkerDedupes
  <2> QED BY Zenon, <2>3, <2>4 DEF UniqueOf, c
<1>4. \A id : id \in stored
                <=> \E i \in DOMAIN rows : rows[i].youtubeVideoId = id
  BY DEF IdsStored
<1>5. ASSUME NEW k \in DOMAIN ids
      PROVE  Entry(e[k]) = IF ids[k] \in stored
                           THEN CommentRows(ids[k], threads[ids[k]]) ELSE <<>>
  <2> HIDE DEF stored
  <2> QED BY ZenonT(40), <1>2, <1>3, <1>4 DEF CommentRows, CommentRow
<1> HIDE DEF Entry
<1>6. [i \in DOMAIN e |-> Entry(e[i])] = RowsByVideo(ids, threads, stored)
  BY <1>2, <1>5 DEF RowsByVideo
<1> QED BY Zenon, <1>1, <1>6 DEF e

\* The rows of each video that is stored, and the comments of a video.
OfVideo(w, ids, threads, stored, k) ==
    IF ids[k] \in stored
    THEN /\ \A x \in In(w[k]) :
              /\ x.youtubeCommentId \in Named(threads[ids[k]].top)
                                          \cup Named(threads[ids[k]].latest)
              /\ x.videoId = ids[k]
              /\ x.commentType
                   = IF x.youtubeCommentId \in Named(threads[ids[k]].top)
                     THEN "top" ELSE "latest"
         /\ \A y \in Named(threads[ids[k]].top)
                       \cup Named(threads[ids[k]].latest) :
              \E x \in In(w[k]) : x.youtubeCommentId = y
    ELSE In(w[k]) = {}

\* No comment has two rows, and every comment has one.
LEMMA CommentsStored ==
    ASSUME NEW ids, NEW threads, IsThreadList(threads, ids), IsList(ids),
           NEW stored
    PROVE  LET w == RowsByVideo(ids, threads, stored)
               f == Worker!FlattenSeq(w)
           IN  /\ \A i, j \in DOMAIN f :
                    f[i].youtubeCommentId = f[j].youtubeCommentId => i = j
               /\ In(f) = UNION {In(w[k]) : k \in DOMAIN ids}
               /\ \A k \in DOMAIN ids : OfVideo(w, ids, threads, stored, k)
<1> DEFINE w == RowsByVideo(ids, threads, stored)
           f == Worker!FlattenSeq(w)
           n == Len(ids)
           S == UNION {In(w[k]) : k \in DOMAIN ids}
           key == [x \in S |-> x.youtubeCommentId]
           top(k) == Named(threads[ids[k]].top)
           all(k) == top(k) \cup Named(threads[ids[k]].latest)
<1>1. n \in Nat /\ DOMAIN ids = 1..n
  BY DEF IsList
<1>2. \A k \in DOMAIN ids :
         w[k] = IF ids[k] \in stored THEN CommentRows(ids[k], threads[ids[k]])
                ELSE <<>>
  BY DEF RowsByVideo
<1>3. DOMAIN w = DOMAIN ids
  BY DEF RowsByVideo
<1>4. In(<<>>) = {} /\ <<>> \in Seq(In(<<>>))
  BY DEF In
<1> HIDE DEF w
<1>5. ASSUME NEW k \in DOMAIN ids
      PROVE  /\ w[k] \in Seq(In(w[k]))
             /\ \A i, j \in DOMAIN w[k] :
                  w[k][i].youtubeCommentId = w[k][j].youtubeCommentId
                    => i = j
             /\ OfVideo(w, ids, threads, stored, k)
  <2>1. CASE ids[k] \in stored
    <3>1. IsList(threads[ids[k]].top) /\ IsList(threads[ids[k]].latest)
      BY DEF IsThreadList
    <3>2. w[k] = CommentRows(ids[k], threads[ids[k]])
      BY <1>2, <2>1
    <3> QED BY <2>1, <3>1, <3>2, RowsListed DEF OfVideo
  <2>2. CASE ids[k] \notin stored
    <3>1. w[k] = <<>>
      BY <1>2, <2>2
    <3> QED BY <1>4, <2>2, <3>1 DEF OfVideo
  <2> QED BY <2>1, <2>2
<1>6. \A k \in DOMAIN ids : In(w[k]) \subseteq S
  OBVIOUS
<1> HIDE DEF S
<1>7. w \in [1..n -> Seq(S)]
  <2>1. ASSUME NEW k \in 1..n PROVE w[k] \in Seq(S)
    <3> DEFINE I == In(w[k])
    <3>1. w[k] \in Seq(I) /\ I \subseteq S
      BY <1>1, <1>5, <1>6
    <3> HIDE DEF I
    <3> QED BY <3>1, SeqMonotonic
  <2>2. w = [k \in 1..n |-> w[k]]
    BY <1>1 DEF RowsByVideo, w
  <2> QED BY <2>1, <2>2
<1>8. \A x \in S : key[x] = x.youtubeCommentId
  OBVIOUS
<1> HIDE DEF key
<1>9. Apart(w, n, key)
  <2>1. ASSUME NEW k \in 1..n PROVE OneEach(w[k], key)
    <3>1. \A i \in DOMAIN w[k] : w[k][i] \in S
      BY <1>1, <1>6 DEF In
    <3> QED BY <1>1, <1>5, <1>8, <3>1 DEF OneEach
  <2>2. ASSUME NEW k \in 1..n, NEW l \in 1..n, k # l,
               NEW x \in In(w[k]), NEW y \in In(w[l])
        PROVE  key[x] # key[y]
    <3>1. x.youtubeCommentId \in all(k)
      BY <1>1, <1>5, <2>2 DEF OfVideo
    <3>2. y.youtubeCommentId \in all(l)
      BY <1>1, <1>5, <2>2 DEF OfVideo
    <3>3. all(k) \cap all(l) = {}
      BY <1>1, <2>2 DEF IsThreadList
    <3>4. x \in S /\ y \in S
      BY <1>1, <1>6
    <3> QED BY <1>8, <3>1, <3>2, <3>3, <3>4
  <2> QED BY <2>1, <2>2 DEF Apart
<1>10. /\ f \in Seq(S)
       /\ In(f) = UNION {In(w[k]) : k \in 1..n}
       /\ OneEach(f, key)
  BY <1>1, <1>7, <1>9, Flattened
<1> HIDE DEF f
<1>11. \A i, j \in DOMAIN f :
          f[i].youtubeCommentId = f[j].youtubeCommentId => i = j
  <2>1. \A i \in DOMAIN f : f[i] \in S
    BY <1>10
  <2> QED BY <1>8, <1>10, <2>1 DEF OneEach
<1> QED BY <1>1, <1>5, <1>10, <1>11 DEF w, f

-----------------------------------------------------------------------------
(* The metrics.                                                            *)

\* The metrics of one row of the daily report: those with a value.
MetricRow(user, row, i) ==
    [userId |-> user, metricName |-> Api!MetricNames[i],
     metricValue |-> Api!Cell(row, i), periodStart |-> row.value]

MetricsAt(row) == {i \in 1..10 : Api!Cell(row, i) # Null}

MetricsOf(user, row) ==
    KeptAt([i \in 1..10 |-> MetricRow(user, row, i)], MetricsAt(row))

ApiMetrics(user, row) ==
    Api!FoldLeft(LAMBDA done, i :
                     IF Api!Cell(row, i) = Null THEN done
                     ELSE Append(done, [userId |-> user,
                                        metricName |-> Api!MetricNames[i],
                                        metricValue |-> Api!Cell(row, i),
                                        periodStart |-> row.value]),
                 <<>>, [i \in DOMAIN Api!MetricNames |-> i])

\* The names are ten, the first eight of which the worker knows too.
LEMMA Names ==
    /\ DOMAIN Api!MetricNames = 1..10
    /\ DOMAIN Worker!MetricNames = 1..8
    /\ \A i \in 1..8 : Worker!MetricNames[i] = Api!MetricNames[i]
  BY DEF Api!MetricNames, Worker!MetricNames

\* The API appends the metrics that have a value.
LEMMA ApiMetricsKept ==
    ASSUME NEW user, NEW row
    PROVE  ApiMetrics(user, row) = MetricsOf(user, row)
<1> DEFINE n == 10
           c == [i \in 1..n |-> MetricRow(user, row, i)]
           K == MetricsAt(row)
           S == Members(c, n)
           step == Picks(c, n, K)
           index == [i \in DOMAIN Api!MetricNames |-> i]
           last(T) == CHOOSE x \in T : \A y \in T : x >= y
           value(h, T) ==
               IF T = {} THEN <<>>
               ELSE IF Api!Cell(row, index[last(T)]) = Null
                    THEN h[T \ {last(T)}]
                    ELSE Append(h[T \ {last(T)}],
                                MetricRow(user, row, index[last(T)]))
           made(h) == h = [T \in SUBSET DOMAIN index |-> value(h, T)]
<1>1. ApiMetrics(user, row) = (CHOOSE h : made(h))[DOMAIN index]
  BY ZenonT(40) DEF ApiMetrics, MetricRow, Api!FoldLeft, Api!MapThenFoldSet,
     Api!Max
<1>2. DOMAIN index = 1..n /\ \A i \in 1..n : index[i] = i
  BY Names
<1>3. step \in [(1..n) \X Seq(S) -> Seq(S)] /\ <<>> \in Seq(S)
  <2>1. n \in Nat
    OBVIOUS
  <2> HIDE DEF n, c, K
  <2> QED BY <2>1, PicksTyped
<1>4. \A i \in 1..n, t \in Seq(S) :
         step[<<i, t>>] = IF i \in K THEN Append(t, c[i]) ELSE t
  <2> HIDE DEF c, K
  <2> QED BY DEF Picks
<1>5. \A i \in 1..n : i \in K <=> Api!Cell(row, i) # Null
  BY DEF MetricsAt
<1>6. K \in SUBSET (1..n) /\ n \in Nat
  BY DEF MetricsAt
<1>7. \A i \in 1..n : c[i] = MetricRow(user, row, i)
  OBVIOUS
<1> HIDE DEF S, K, step, index, c, n
<1>8. ASSUME NEW T \in SUBSET (1..n), T # {}, NEW h,
             h[T \ {Greatest(T)}] \in Seq(S)
      PROVE  value(h, T) = step[<<Greatest(T), h[T \ {Greatest(T)}]>>]
  <2>1. Greatest(T) \in 1..n
    BY <1>6, <1>8, GreatestIs
  <2>2. last(T) = Greatest(T)
    BY DEF Greatest
  <2> HIDE DEF last
  <2>3. value(h, T) = IF Api!Cell(row, index[last(T)]) = Null
                      THEN h[T \ {last(T)}]
                      ELSE Append(h[T \ {last(T)}],
                                  MetricRow(user, row, index[last(T)]))
    BY <1>8
  <2>4. value(h, T) = IF Api!Cell(row, Greatest(T)) = Null
                      THEN h[T \ {Greatest(T)}]
                      ELSE Append(h[T \ {Greatest(T)}], c[Greatest(T)])
    BY <1>2, <1>7, <2>1, <2>2, <2>3
  <2> QED BY <1>4, <1>5, <1>8, <2>1, <2>4
<1>9. ASSUME NEW h, IsWholeFold(h, n, Seq(S), <<>>, step) PROVE made(h)
  <2>1. ASSUME NEW T \in SUBSET (1..n) PROVE h[T] = value(h, T)
    <3>1. CASE T = {} BY <3>1, <1>9 DEF IsWholeFold
    <3>2. CASE T # {}
      <4>1. T \ {Greatest(T)} \in SUBSET (1..n) OBVIOUS
      <4>2. h[T \ {Greatest(T)}] \in Seq(S)
        BY <1>9, <4>1 DEF IsWholeFold
      <4>3. h[T] = step[<<Greatest(T), h[T \ {Greatest(T)}]>>]
        BY <1>9, <3>2 DEF IsWholeFold
      <4> HIDE DEF value
      <4> QED BY <1>8, <3>2, <4>2, <4>3
    <3> QED BY <3>1, <3>2
  <2>2. h = [T \in SUBSET (1..n) |-> h[T]]
    BY <1>9 DEF IsWholeFold
  <2> HIDE DEF value
  <2> QED BY <1>2, <2>1, <2>2
<1>10. ASSUME NEW h, made(h) PROVE IsLeftFold(h, n, Seq(S), <<>>, step)
  <2>1. \A T \in SUBSET (1..n) : h[T] = value(h, T)
    <3> HIDE DEF value
    <3> QED BY <1>2, <1>10
  <2>2. h[{}] = <<>>
    BY <2>1
  <2> HIDE DEF value
  <2> QED BY <1>8, <2>1, <2>2 DEF IsLeftFold
<1> DEFINE g == CHOOSE h : made(h)
<1> HIDE DEF made
<1>11. made(g)
  <2>1. \E h : IsWholeFold(h, n, Seq(S), <<>>, step)
    BY <1>3, <1>6, LeftFoldExists
  <2> QED BY <1>9, <2>1
<1> HIDE DEF g
<1>12. Picked(g, n, c, K)
  BY <1>10, <1>11 DEF Picked, S, step
<1>13. g[1..n] = KeptAt(c, K)
  BY <1>6, <1>12, PicksKeep
<1>14. KeptAt(c, K) = MetricsOf(user, row)
  BY Zenon DEF MetricsOf, c, n, K
<1> QED BY <1>1, <1>2, <1>13, <1>14 DEF g

\* What the worker makes of the row.
WorkerMetrics(user, row) ==
    LET present(i) == Worker!Cell(row, i) # Null
        named == Worker!Filtered([i \in DOMAIN Worker!MetricNames |-> i],
                                 present)
    IN  [k \in DOMAIN named |->
            [userId |-> user, metricName |-> Worker!MetricNames[named[k]],
             metricValue |-> Worker!Cell(row, named[k]),
             periodStart |-> row.value]]

\* The worker filters their names, of which the report has no more than eight.
LEMMA WorkerMetricsKept ==
    ASSUME NEW user, NEW row, DOMAIN row.cells \subseteq 1..8
    PROVE  WorkerMetrics(user, row) = MetricsOf(user, row)
<1> DEFINE K == MetricsAt(row)
           R == ByRank(K, UpTo(K))
           index == [i \in DOMAIN Worker!MetricNames |-> i]
           named == [k \in DOMAIN R |-> index[R[k]]]
           c == [i \in 1..10 |-> MetricRow(user, row, i)]
<1>1. \A i : Worker!Cell(row, i) = Api!Cell(row, i)
  BY DEF Worker!Cell, Api!Cell
<1>2. DOMAIN index = 1..8 /\ \A i \in 1..8 : index[i] = i
  BY Names
<1> HIDE DEF index
<1>3. K \in SUBSET (1..8)
  BY DEF MetricsAt, Api!Cell
<1>4. K = {i \in DOMAIN index : Worker!Cell(row, index[i]) # Null}
  BY <1>1, <1>2, <1>3 DEF MetricsAt
<1> HIDE DEF K
<1>5. \A k \in DOMAIN R : R[k] \in 1..8
  <2>1. 8 \in Nat
    OBVIOUS
  <2>2. IsFiniteSet(K) /\ Orders(UpTo(K), K)
    BY <1>3, <2>1, UpToOrders
  <2>3. IsListing(R, Cardinality(K), K)
    BY <2>2, RanksList
  <2> HIDE DEF R
  <2> QED BY <1>3, <2>3 DEF IsListing
<1>6. WorkerMetrics(user, row)
        = [k \in DOMAIN named |->
              [userId |-> user, metricName |-> Worker!MetricNames[named[k]],
               metricValue |-> Worker!Cell(row, named[k]),
               periodStart |-> row.value]]
  <2> DEFINE L == {i \in DOMAIN index : Worker!Cell(row, index[i]) # Null}
             W == Worker!ByRank(L, Worker!UpTo(L))
             f == [k \in DOMAIN W |-> index[W[k]]]
  <2>1. WorkerMetrics(user, row)
        = [k \in DOMAIN f |->
              [userId |-> user, metricName |-> Worker!MetricNames[f[k]],
               metricValue |-> Worker!Cell(row, f[k]),
               periodStart |-> row.value]]
    BY ZenonT(40) DEF WorkerMetrics, Worker!Filtered, index
  <2>2. W = R
    BY Zenon, <1>4, RanksOfCopies
  <2> HIDE DEF W, R
  <2>3. f = named
    BY Zenon, <2>2
  <2> HIDE DEF f, named
  <2> QED BY Zenon, <2>1, <2>3
<1>7. MetricsOf(user, row) = [k \in DOMAIN R |-> c[R[k]]]
  BY Zenon DEF MetricsOf, KeptAt, K
<1> HIDE DEF R
<1>8. DOMAIN named = DOMAIN R /\ \A k \in DOMAIN R : named[k] = R[k]
  BY <1>2, <1>5
<1>9. \A k \in DOMAIN R :
         c[R[k]] = [userId |-> user,
                    metricName |-> Worker!MetricNames[named[k]],
                    metricValue |-> Worker!Cell(row, named[k]),
                    periodStart |-> row.value]
  <2> SUFFICES ASSUME NEW k \in DOMAIN R
               PROVE  c[R[k]] = [userId |-> user,
                                 metricName |-> Worker!MetricNames[named[k]],
                                 metricValue |-> Worker!Cell(row, named[k]),
                                 periodStart |-> row.value]
    OBVIOUS
  <2>1. R[k] \in 1..8 /\ R[k] \in 1..10 /\ named[k] = R[k]
    BY <1>5, <1>8
  <2>2. c[R[k]] = MetricRow(user, row, R[k])
    BY <2>1
  <2>3. Worker!MetricNames[R[k]] = Api!MetricNames[R[k]]
    BY <2>1, Names
  <2> HIDE DEF c, named
  <2> QED BY Zenon, <1>1, <2>1, <2>2, <2>3 DEF MetricRow
<1> HIDE DEF c, named
<1> QED BY <1>6, <1>7, <1>8, <1>9

\* Both copies store the same metrics.
LEMMA MetricsStored ==
    ASSUME NEW user, NEW rows, \A i \in DOMAIN rows :
             DOMAIN rows[i].cells \subseteq 1..8
    PROVE  Api!BuildContentMetricsFromAnalytics(user, rows)
             = Worker!BuildContentMetricsFromAnalytics(user, rows)
<1>1. Api!BuildContentMetricsFromAnalytics(user, rows)
        = Api!FlattenSeq([i \in DOMAIN rows |-> ApiMetrics(user, rows[i])])
  BY ZenonT(40) DEF Api!BuildContentMetricsFromAnalytics, ApiMetrics
<1>2. Worker!BuildContentMetricsFromAnalytics(user, rows)
        = Worker!FlattenSeq([i \in DOMAIN rows |->
                                WorkerMetrics(user, rows[i])])
  BY ZenonT(40) DEF Worker!BuildContentMetricsFromAnalytics, WorkerMetrics
<1>3. \A i \in DOMAIN rows :
         ApiMetrics(user, rows[i]) = WorkerMetrics(user, rows[i])
  BY ApiMetricsKept, WorkerMetricsKept
<1>4. [i \in DOMAIN rows |-> ApiMetrics(user, rows[i])]
        = [i \in DOMAIN rows |-> WorkerMetrics(user, rows[i])]
  BY <1>3
<1> QED BY Zenon, <1>1, <1>2, <1>4, CopiesFlatten

-----------------------------------------------------------------------------
(* The channel.                                                            *)

\* The thumbnail of a channel.
UrlOf(raw) == Api!GetThumbnailUrl(Api!Field(raw.snippet, "thumbnails"))

\* Both copies store the same of a channel, but for the upload playlist.
LEMMA ChannelStored ==
    ASSUME NEW user, NEW raw, IsChannel(user, raw), Null \notin Int
    PROVE  LET a == Api!NormalizeChannel(raw.id, Api!SanitizeChannel(raw), user)
               w == Worker!NormalizeChannel(raw.id, raw, user)
           IN  (IF a = Null THEN Null
                ELSE [a EXCEPT !.uploadPlaylistId = Null])
               = (IF w = Null THEN Null
                  ELSE [w EXCEPT !.uploadPlaylistId = Null])
<1> DEFINE a == Api!NormalizeChannel(raw.id, Api!SanitizeChannel(raw), user)
           w == Worker!NormalizeChannel(raw.id, raw, user)
           r == Api!SanitizeChannel(raw)
           title == Api!Field(raw.snippet, "title")
           Row(uploads) == ChannelRow(user, raw, title, UrlOf(raw), uploads)
<1>1. /\ raw.title = Null /\ raw.thumbnails = Null
      /\ raw # Null /\ r # Null
  BY DEF IsChannel
<1>2. UrlOf(raw) \in Sizes
  BY DEF UrlOf, Api!GetThumbnailUrl, Sizes
<1>3. Row(Null) # Null /\ Row(raw.uploads) # Null
  BY <1>2 DEF IsChannel
<1>4. /\ r.snippet = Null /\ r.title = title /\ r.uploads = Null
      /\ r.thumbnails = Api!Field(raw.snippet, "thumbnails")
      /\ r.subscriberCount = Api!OrElse(raw.subscriberCount, 0)
  BY DEF Api!SanitizeChannel
<1>5. Api!ParseNumberishInt(Api!OrElse(raw.subscriberCount, 0))
        = Api!ParseNumberishInt(raw.subscriberCount)
  BY DEF Api!ParseNumberishInt, Api!OrElse
<1> HIDE DEF r
<1>6. a = IF title = Null THEN Null ELSE Row(Null)
  <2>1. a = Api!NormalizeChannel(raw.id, r, user)
    BY DEF r
  <2>2. /\ Api!OrElse(Api!Field(Api!Field(r, "snippet"), "title"),
                      Api!Field(r, "title")) = title
        /\ Api!OrElse(Api!Field(r.snippet, "thumbnails"), r.thumbnails)
             = Api!Field(raw.snippet, "thumbnails")
    BY <1>1, <1>4 DEF Api!OrElse, Api!Field
  <2>3. Api!ParseNumberishInt(r.subscriberCount)
          = Api!ParseNumberishInt(raw.subscriberCount)
    BY <1>4, <1>5
  <2> HIDE DEF title, a
  <2> QED
    BY Zenon, <1>1, <1>4, <2>1, <2>2, <2>3
    DEF Api!NormalizeChannel, ChannelRow, UrlOf
<1>7. w = IF title = Null THEN Null ELSE Row(raw.uploads)
  <2>1. /\ \A x, f : Worker!Field(x, f) = Api!Field(x, f)
        /\ \A x : Worker!GetThumbnailUrl(x) = Api!GetThumbnailUrl(x)
        /\ \A x : Worker!ParseNumberishInt(x) = Api!ParseNumberishInt(x)
    BY DEF Api!Field, Worker!Field, Api!GetThumbnailUrl,
           Worker!GetThumbnailUrl, Api!ParseNumberishInt,
           Worker!ParseNumberishInt
  <2>2. /\ Worker!OrElse(Worker!Field(Worker!Field(raw, "snippet"), "title"),
                         Worker!Field(raw, "title")) = title
        /\ Worker!OrElse(Worker!Field(raw.snippet, "thumbnails"),
                         raw.thumbnails)
             = Api!Field(raw.snippet, "thumbnails")
    BY <1>1, <2>1 DEF Worker!OrElse, Api!Field
  <2> HIDE DEF title, w
  <2> QED
    BY Zenon, <1>1, <2>1, <2>2
    DEF w, Worker!NormalizeChannel, ChannelRow, UrlOf
<1>8. /\ [Row(Null) EXCEPT !.uploadPlaylistId = Null] = Row(Null)
      /\ [Row(raw.uploads) EXCEPT !.uploadPlaylistId = Null] = Row(Null)
  <2>1. ASSUME NEW uploads
        PROVE  [Row(uploads) EXCEPT !.uploadPlaylistId = Null] = Row(Null)
    <3> DEFINE subscribers == Api!ParseNumberishInt(raw.subscriberCount)
               url == UrlOf(raw)
               id == raw.id
    <3>1. \A x : Row(x)
             = [userId |-> user, youtubeChannelId |-> id,
                channelTitle |-> title, thumbnailUrl |-> url,
                subscriberCount |-> subscribers, uploadPlaylistId |-> x,
                isApproved |-> FALSE]
      BY Zenon DEF ChannelRow
    <3> HIDE DEF title, subscribers, url, id, Row
    <3> DEFINE p == Row(uploads)
               q == Row(Null)
               F == {"userId", "youtubeChannelId", "channelTitle",
                     "thumbnailUrl", "subscriberCount", "uploadPlaylistId",
                     "isApproved"}
    <3>2. DOMAIN p = F /\ DOMAIN q = F
      BY <3>1
    <3>3. /\ p = [f \in F |-> p[f]] /\ q = [f \in F |-> q[f]]
          /\ \A f \in F : q[f] = IF f = "uploadPlaylistId" THEN Null
                                 ELSE p[f]
      <4>1. p = [f \in F |-> p[f]]
        BY <3>1
      <4>2. q = [f \in F |-> q[f]]
        BY <3>1
      <4>3. /\ p.userId = q.userId
            /\ p.youtubeChannelId = q.youtubeChannelId
            /\ p.channelTitle = q.channelTitle
            /\ p.thumbnailUrl = q.thumbnailUrl
            /\ p.subscriberCount = q.subscriberCount
            /\ q.uploadPlaylistId = Null
            /\ p.isApproved = q.isApproved
        BY <3>1
      <4> HIDE DEF p, q
      <4> QED BY <4>1, <4>2, <4>3
    <3> HIDE DEF p, q, F
    <3>4. [p EXCEPT !.uploadPlaylistId = Null] = q
      BY <3>2, <3>3
    <3> QED BY <3>4 DEF p, q
  <2> HIDE DEF Row
  <2> QED BY <2>1
<1> HIDE DEF a, w, Row, title
<1>9. CASE title = Null
  BY <1>6, <1>7, <1>9 DEF a, w
<1>10. CASE title # Null
  <2>1. a = Row(Null) /\ w = Row(raw.uploads) /\ a # Null /\ w # Null
    BY <1>3, <1>6, <1>7, <1>10
  <2> QED BY <1>8, <2>1 DEF a, w
<1> QED BY <1>9, <1>10

-----------------------------------------------------------------------------
(* The demographics.                                                       *)

\* The rows of a report that say something.
TypedAt(rows) ==
    {i \in DOMAIN rows : rows[i].value # Null /\ Api!Cell(rows[i], 1) # Null}

TypedRows(rows) ==
    [k \in DOMAIN ByRank(TypedAt(rows), UpTo(TypedAt(rows))) |->
        rows[ByRank(TypedAt(rows), UpTo(TypedAt(rows)))[k]]]

\* They are a list without a value that is there twice.
LEMMA TypedListed ==
    ASSUME NEW rows, IsReport(rows)
    PROVE  \E m \in Nat : /\ DOMAIN TypedRows(rows) = 1..m
                          /\ \A k, l \in 1..m :
                               TypedRows(rows)[k].value
                                 = TypedRows(rows)[l].value => k = l
<1> DEFINE K == TypedAt(rows)
           m == Cardinality(K)
           R == ByRank(K, UpTo(K))
           n == Len(rows)
           t == TypedRows(rows)
<1>1. /\ n \in Nat /\ DOMAIN rows = 1..n
      /\ \A i, j \in 1..n : rows[i].value = rows[j].value => i = j
  BY DEF IsReport, IsList
<1>2. K \in SUBSET (1..n)
  BY <1>1 DEF TypedAt
<1>3. t = [k \in DOMAIN R |-> rows[R[k]]]
  BY Zenon DEF TypedRows
<1> HIDE DEF K, n, t
<1>4. IsListing(R, m, K) /\ m \in Nat
  <2>1. IsFiniteSet(K) /\ Orders(UpTo(K), K)
    BY <1>1, <1>2, UpToOrders
  <2> QED BY <2>1, RanksList, FS_CardinalityType
<1> HIDE DEF R, m
<1>5. /\ DOMAIN R = 1..m /\ \A k \in 1..m : R[k] \in 1..n
      /\ \A k, l \in 1..m : R[k] = R[l] => k = l
  BY <1>2, <1>4 DEF IsListing
<1>6. /\ DOMAIN t = 1..m
      /\ \A k, l \in 1..m : t[k].value = t[l].value => k = l
  BY <1>1, <1>3, <1>5
<1> QED BY <1>4, <1>6 DEF t

\* Both copies keep them.
LEMMA SharesKept ==
    ASSUME NEW rows
    PROVE  /\ Api!MapAgeGroupRows(rows)
                = [i \in DOMAIN TypedRows(rows) |->
                     [ageGroup |-> TypedRows(rows)[i].value,
                      viewerPercentage |-> <<TypedRows(rows)[i].cells[1], 1>>]]
           /\ Worker!MapAgeGroupRows(rows) = Api!MapAgeGroupRows(rows)
           /\ Api!MapGenderRows(rows)
                = [i \in DOMAIN TypedRows(rows) |->
                     [gender |-> TypedRows(rows)[i].value,
                      viewerPercentage |-> <<TypedRows(rows)[i].cells[1], 1>>]]
           /\ Worker!MapGenderRows(rows) = Api!MapGenderRows(rows)
<1> DEFINE K == TypedAt(rows)
           R == ByRank(K, UpTo(K))
           t == [k \in DOMAIN R |-> rows[R[k]]]
<1>1. TypedRows(rows) = t
  BY Zenon DEF TypedRows
<1>2. Worker!Typed(rows) = t
  <2>1. \A i, row : Worker!Cell(row, i) = Api!Cell(row, i)
    BY DEF Worker!Cell, Api!Cell
  <2>2. K = {i \in DOMAIN rows :
               rows[i].value # Null /\ Worker!Cell(rows[i], 1) # Null}
    BY Zenon, <2>1 DEF TypedAt
  <2> HIDE DEF K
  <2> QED BY ZenonT(40), <2>2, RanksOfCopies DEF Worker!Typed, Worker!Filtered
<1>3. Api!MapAgeGroupRows(rows)
        = [i \in DOMAIN t |-> [ageGroup |-> t[i].value,
                               viewerPercentage |-> <<t[i].cells[1], 1>>]]
  BY ZenonT(40), RanksOfCopies DEF Api!MapAgeGroupRows, Api!Filtered, TypedAt
<1>4. Api!MapGenderRows(rows)
        = [i \in DOMAIN t |-> [gender |-> t[i].value,
                               viewerPercentage |-> <<t[i].cells[1], 1>>]]
  BY ZenonT(40), RanksOfCopies DEF Api!MapGenderRows, Api!Filtered, TypedAt
<1> HIDE DEF t
<1> QED
  BY Zenon, <1>1, <1>2, <1>3, <1>4
  DEF Worker!MapAgeGroupRows, Worker!MapGenderRows

\* So they do with the countries, if no views are negative.
LEMMA CountriesKept ==
    ASSUME NEW rows, \A i \in DOMAIN rows :
             Api!Cell(rows[i], 1) \in Nat \cup {Null}
    PROVE  /\ \E share :
                Api!MapCountryRows(rows)
                  = [i \in DOMAIN TypedRows(rows) |->
                       [country |-> TypedRows(rows)[i].value,
                        viewerPercentage |-> share[i]]]
           /\ Worker!MapCountryRows(rows) = Api!MapCountryRows(rows)
<1> DEFINE K == TypedAt(rows)
           R == ByRank(K, UpTo(K))
           t == [k \in DOMAIN R |-> rows[R[k]]]
           L == {i \in DOMAIN rows : /\ rows[i].value # Null
                                     /\ Api!Cell(rows[i], 1) # Null
                                     /\ Api!Cell(rows[i], 1) >= 0}
           W == Api!ByRank(L, Api!UpTo(L))
           u == [k \in DOMAIN W |-> rows[W[k]]]
           total(s) == Api!FoldLeft(LAMBDA sum, row : sum + row.cells[1], 0, s)
<1>1. TypedRows(rows) = t
  BY Zenon DEF TypedRows
<1>2. Worker!Typed(rows) = t
  <2>1. \A i, row : Worker!Cell(row, i) = Api!Cell(row, i)
    BY DEF Worker!Cell, Api!Cell
  <2>2. K = {i \in DOMAIN rows :
               rows[i].value # Null /\ Worker!Cell(rows[i], 1) # Null}
    BY Zenon, <2>1 DEF TypedAt
  <2> HIDE DEF K
  <2> QED BY ZenonT(40), <2>2, RanksOfCopies DEF Worker!Typed, Worker!Filtered
<1>3. L = K
  BY DEF TypedAt
<1>4. u = t
  BY Zenon, <1>3, RanksOfCopies
<1>5. Api!MapCountryRows(rows)
        = [i \in DOMAIN u |->
             [country |-> u[i].value,
              viewerPercentage |-> Api!Share(u[i].cells[1], total(u))]]
  BY ZenonT(40) DEF Api!MapCountryRows, Api!Filtered
<1> HIDE DEF u, t
<1>6. Api!MapCountryRows(rows)
        = [i \in DOMAIN t |->
             [country |-> t[i].value,
              viewerPercentage |-> Api!Share(t[i].cells[1], total(t))]]
  BY Zenon, <1>4, <1>5
<1>7. Worker!MapCountryRows(rows)
        = [i \in DOMAIN t |->
             [country |-> t[i].value,
              viewerPercentage |-> Api!Share(t[i].cells[1], total(t))]]
  <2> DEFINE total2(s) ==
                 Worker!FoldLeft(LAMBDA sum, row : sum + row.cells[1], 0, s)
  <2>1. Worker!MapCountryRows(rows)
          = [i \in DOMAIN t |->
               [country |-> t[i].value,
                viewerPercentage |-> IF total2(t) > 0
                                     THEN <<t[i].cells[1], total2(t)>>
                                     ELSE <<0, 1>>]]
    BY ZenonT(40), <1>2 DEF Worker!MapCountryRows
  <2>2. total2(t) = total(t)
    BY ZenonT(40)
    DEF Api!FoldLeft, Api!MapThenFoldSet, Api!Max,
        Worker!FoldLeft, Worker!MapThenFoldSet, Worker!Max
  <2> HIDE DEF total, total2
  <2> QED BY Zenon, <2>1, <2>2 DEF Api!Share
<1>8. \E share : Api!MapCountryRows(rows)
                   = [i \in DOMAIN t |-> [country |-> t[i].value,
                                          viewerPercentage |-> share[i]]]
  <2> DEFINE share == [i \in DOMAIN t |-> Api!Share(t[i].cells[1], total(t))]
  <2>1. \A i \in DOMAIN t : share[i] = Api!Share(t[i].cells[1], total(t))
    OBVIOUS
  <2> HIDE DEF share, total
  <2>2. Api!MapCountryRows(rows)
          = [i \in DOMAIN t |-> [country |-> t[i].value,
                                 viewerPercentage |-> share[i]]]
    BY Zenon, <1>6, <2>1
  <2> QED BY Zenon, <2>2
<1> DEFINE made == Api!MapCountryRows(rows)
           v == TypedRows(rows)
<1>9. Worker!MapCountryRows(rows) = made
  <2> HIDE DEF total
  <2> QED BY Zenon, <1>6, <1>7
<1>10. \E share : made = [i \in DOMAIN v |-> [country |-> v[i].value,
                                             viewerPercentage |-> share[i]]]
  <2>1. v = t
    BY <1>1
  <2> HIDE DEF made, v
  <2>2. PICK share : made = [i \in DOMAIN t |->
                               [country |-> t[i].value,
                                viewerPercentage |-> share[i]]]
    BY <1>8 DEF made
  <2>3. made = [i \in DOMAIN v |-> [country |-> v[i].value,
                                   viewerPercentage |-> share[i]]]
    BY Zenon, <2>1, <2>2
  <2> QED BY Zenon, <2>3
<1> QED BY <1>9, <1>10

\* The rows of one dimension, with their shares.
DemographicsOf(type, rows, share) ==
    [i \in DOMAIN TypedRows(rows) |->
        Api!DemographicRow(type, TypedRows(rows)[i].value, share[i])]

\* The rows of one report: one for each of its values.
LEMMA DemographicsListed ==
    ASSUME NEW type, NEW rows, IsReport(rows), NEW share
    PROVE  LET p == DemographicsOf(type, rows, share)
           IN  /\ p \in Seq(In(p))
               /\ \A i, j \in DOMAIN p :
                    p[i].dimensionValue = p[j].dimensionValue => i = j
               /\ \A x \in In(p) : x.dimensionType = type
<1> DEFINE t == TypedRows(rows)
           p == DemographicsOf(type, rows, share)
<1>1. PICK m \in Nat : /\ DOMAIN t = 1..m
                       /\ \A k, l \in 1..m :
                            t[k].value = t[l].value => k = l
  BY TypedListed
<1>2. p = [i \in 1..m |-> Api!DemographicRow(type, t[i].value, share[i])]
  BY <1>1 DEF DemographicsOf
<1> HIDE DEF t, p
<1>3. \A i \in 1..m : /\ p[i].dimensionType = type
                      /\ p[i].dimensionValue = t[i].value
  BY <1>2 DEF Api!DemographicRow
<1>4. DOMAIN p = 1..m /\ p = [i \in 1..m |-> p[i]]
  BY <1>2
<1>5. \A i \in 1..m : p[i] \in In(p)
  BY <1>4 DEF In
<1>6. p \in Seq(In(p))
  <2> DEFINE S == In(p)
  <2>1. \A i \in 1..m : p[i] \in S
    BY <1>5
  <2> HIDE DEF S
  <2>2. p \in Seq(S)
    BY <1>1, <1>4, <2>1
  <2> QED BY <2>2 DEF S
<1>7. \A i, j \in DOMAIN p :
         p[i].dimensionValue = p[j].dimensionValue => i = j
  BY <1>1, <1>3, <1>4
<1>8. \A x \in In(p) : x.dimensionType = type
  BY <1>3, <1>4 DEF In
<1> QED BY <1>6, <1>7, <1>8 DEF p

\* What tells two rows of demographics apart.
RowKey(x) == <<x.dimensionType, x.dimensionValue>>

\* What both copies make of the three reports.
LEMMA DemographicsMade ==
    ASSUME NEW age, NEW gender, NEW country,
           \A i \in DOMAIN country :
             Api!Cell(country[i], 1) \in Nat \cup {Null},
           Reports(age, gender, country) # Null
    PROVE  \E a, g, c :
             LET all == DemographicsOf("ageGroup", age, a)
                          \o DemographicsOf("gender", gender, g)
                          \o DemographicsOf("country", country, c)
                 d   == Reports(age, gender, country)
             IN  /\ Api!PersistAudienceDemographics(d) = all
                 /\ Worker!PersistAudienceDemographics(d) = all
<1> DEFINE d == Reports(age, gender, country)
           A == Api!MapAgeGroupRows(age)
           G == Api!MapGenderRows(gender)
           C == Api!MapCountryRows(country)
           a == [i \in DOMAIN TypedRows(age) |->
                    <<TypedRows(age)[i].cells[1], 1>>]
           g == [i \in DOMAIN TypedRows(gender) |->
                    <<TypedRows(gender)[i].cells[1], 1>>]
<1>1. /\ d.ageGroups = A /\ d.genders = G /\ d.countries = C
      /\ d # Null
  BY DEF Reports
<1> HIDE DEF d
<1>2. PICK c : C = [i \in DOMAIN TypedRows(country) |->
                       [country |-> TypedRows(country)[i].value,
                        viewerPercentage |-> c[i]]]
  BY Zenon, CountriesKept
<1>3. A = [i \in DOMAIN TypedRows(age) |->
              [ageGroup |-> TypedRows(age)[i].value,
               viewerPercentage |-> a[i]]]
  BY SharesKept
<1>4. G = [i \in DOMAIN TypedRows(gender) |->
              [gender |-> TypedRows(gender)[i].value,
               viewerPercentage |-> g[i]]]
  BY SharesKept
<1> HIDE DEF A, G, C, a, g
<1> DEFINE p == DemographicsOf("ageGroup", age, a)
           q == DemographicsOf("gender", gender, g)
           r == DemographicsOf("country", country, c)
<1>5. p = [i \in DOMAIN A |->
              Api!DemographicRow("ageGroup", A[i].ageGroup,
                                 A[i].viewerPercentage)]
  <2>1. /\ DOMAIN A = DOMAIN TypedRows(age)
        /\ \A i \in DOMAIN A : /\ A[i].ageGroup = TypedRows(age)[i].value
                               /\ A[i].viewerPercentage = a[i]
    BY <1>3
  <2> QED BY Zenon, <2>1 DEF DemographicsOf
<1>6. q = [i \in DOMAIN G |->
              Api!DemographicRow("gender", G[i].gender,
                                 G[i].viewerPercentage)]
  <2>1. /\ DOMAIN G = DOMAIN TypedRows(gender)
        /\ \A i \in DOMAIN G : /\ G[i].gender = TypedRows(gender)[i].value
                               /\ G[i].viewerPercentage = g[i]
    BY <1>4
  <2> QED BY Zenon, <2>1 DEF DemographicsOf
<1>7. r = [i \in DOMAIN C |->
              Api!DemographicRow("country", C[i].country,
                                 C[i].viewerPercentage)]
  <2>1. /\ DOMAIN C = DOMAIN TypedRows(country)
        /\ \A i \in DOMAIN C : /\ C[i].country = TypedRows(country)[i].value
                               /\ C[i].viewerPercentage = c[i]
    BY <1>2
  <2> QED BY Zenon, <2>1 DEF DemographicsOf
<1> HIDE DEF p, q, r
<1>8. Api!PersistAudienceDemographics(d) = p \o q \o r
  <2>1. Api!PersistAudienceDemographics(d)
          = [i \in DOMAIN d.ageGroups |->
                Api!DemographicRow("ageGroup", d.ageGroups[i].ageGroup,
                                   d.ageGroups[i].viewerPercentage)]
            \o [i \in DOMAIN d.genders |->
                Api!DemographicRow("gender", d.genders[i].gender,
                                   d.genders[i].viewerPercentage)]
            \o [i \in DOMAIN d.countries |->
                Api!DemographicRow("country", d.countries[i].country,
                                   d.countries[i].viewerPercentage)]
    BY Zenon, <1>1 DEF Api!PersistAudienceDemographics
  <2> QED BY Zenon, <1>1, <1>5, <1>6, <1>7, <2>1
<1>9. Worker!PersistAudienceDemographics(d) = p \o q \o r
  <2> DEFINE Rows(type, entries, value) ==
                 [i \in DOMAIN entries |->
                    [dimensionType |-> type,
                     dimensionValue |-> entries[i][value],
                     viewerPercentage |-> entries[i].viewerPercentage]]
  <2>1. Worker!PersistAudienceDemographics(d)
          = Rows("ageGroup", d.ageGroups, "ageGroup")
              \o Rows("gender", d.genders, "gender")
              \o Rows("country", d.countries, "country")
    BY Zenon DEF Worker!PersistAudienceDemographics
  <2>2. /\ Rows("ageGroup", A, "ageGroup") = p
        /\ Rows("gender", G, "gender") = q
        /\ Rows("country", C, "country") = r
    BY Zenon, <1>5, <1>6, <1>7 DEF Api!DemographicRow
  <2> HIDE DEF Rows
  <2> QED BY Zenon, <1>1, <2>1, <2>2
<1> QED BY Zenon, <1>8, <1>9 DEF p, q, r, d

\* Both copies store the same demographics, one row for each value of a
\* dimension.
LEMMA DemographicsStored ==
    ASSUME NEW age, NEW gender, NEW country,
           IsReport(age), IsReport(gender), IsReport(country),
           \A i \in DOMAIN country :
             Api!Cell(country[i], 1) \in Nat \cup {Null},
           Reports(age, gender, country) # Null
    PROVE  LET d == Reports(age, gender, country)
               f == Api!PersistAudienceDemographics(d)
           IN  /\ Worker!PersistAudienceDemographics(d) = f
               /\ \A i, j \in DOMAIN f : RowKey(f[i]) = RowKey(f[j]) => i = j
<1> DEFINE d == Reports(age, gender, country)
           f == Api!PersistAudienceDemographics(d)
<1>1. PICK a, g, c :
         LET all == DemographicsOf("ageGroup", age, a)
                      \o DemographicsOf("gender", gender, g)
                      \o DemographicsOf("country", country, c)
         IN  f = all /\ Worker!PersistAudienceDemographics(d) = all
  BY DemographicsMade
<1> DEFINE p == DemographicsOf("ageGroup", age, a)
           q == DemographicsOf("gender", gender, g)
           r == DemographicsOf("country", country, c)
           S == In(p) \cup In(q) \cup In(r)
           key == [x \in S |-> RowKey(x)]
<1>2. f = (p \o q) \o r /\ Worker!PersistAudienceDemographics(d) = f
  BY Zenon, <1>1
<1>3. /\ p \in Seq(In(p)) /\ q \in Seq(In(q)) /\ r \in Seq(In(r))
      /\ \A x \in In(p) : x.dimensionType = "ageGroup"
      /\ \A x \in In(q) : x.dimensionType = "gender"
      /\ \A x \in In(r) : x.dimensionType = "country"
      /\ \A i, j \in DOMAIN p :
           p[i].dimensionValue = p[j].dimensionValue => i = j
      /\ \A i, j \in DOMAIN q :
           q[i].dimensionValue = q[j].dimensionValue => i = j
      /\ \A i, j \in DOMAIN r :
           r[i].dimensionValue = r[j].dimensionValue => i = j
  BY Zenon, DemographicsListed
<1> HIDE DEF d, f, p, q, r
<1>4. \A x \in S : key[x] = <<x.dimensionType, x.dimensionValue>>
  BY DEF RowKey
<1>5. p \in Seq(S) /\ q \in Seq(S) /\ r \in Seq(S)
  <2> DEFINE P == In(p)
             Q == In(q)
             R == In(r)
  <2>1. p \in Seq(P) /\ q \in Seq(Q) /\ r \in Seq(R) /\ S = P \cup Q \cup R
    BY <1>3
  <2> HIDE DEF P, Q, R, S
  <2> QED BY <2>1
<1>6. /\ \A i \in DOMAIN p : p[i] \in In(p)
      /\ \A i \in DOMAIN q : q[i] \in In(q)
      /\ \A i \in DOMAIN r : r[i] \in In(r)
  BY DEF In
<1>7. S = In(p) \cup In(q) \cup In(r)
  OBVIOUS
<1> HIDE DEF S, key
<1>8. OneEach(p, key) /\ OneEach(q, key) /\ OneEach(r, key)
  BY <1>3, <1>4, <1>6, <1>7 DEF OneEach
<1>9. p \o q \in Seq(S) /\ In(p \o q) = In(p) \cup In(q)
        /\ OneEach(p \o q, key)
  <2>1. \A x \in In(p), y \in In(q) : key[x] # key[y]
    BY <1>3, <1>4, <1>7
  <2> QED BY <1>5, <1>8, <2>1, Concatenated
<1> DEFINE s == p \o q
<1> HIDE DEF s
<1>10. In(s \o r) = In(p) \cup In(q) \cup In(r) /\ OneEach(s \o r, key)
  <2>1. s \in Seq(S) /\ In(s) = In(p) \cup In(q) /\ OneEach(s, key)
    BY <1>9 DEF s
  <2>2. \A x \in In(s), y \in In(r) : key[x] # key[y]
    BY <1>3, <1>4, <1>7, <2>1
  <2> QED BY <1>5, <1>8, <2>1, <2>2, Concatenated
<1>11. \A i, j \in DOMAIN f : RowKey(f[i]) = RowKey(f[j]) => i = j
  <2>1. f = s \o r
    BY <1>2 DEF s
  <2>2. In(f) = S /\ OneEach(f, key)
    BY <1>7, <1>10, <2>1
  <2>3. \A i \in DOMAIN f : f[i] \in S
    BY <2>2 DEF In
  <2> QED BY <1>4, <2>2, <2>3 DEF OneEach, RowKey
<1> QED BY <1>2, <1>11 DEF d, f

-----------------------------------------------------------------------------
(* The rows of both ingestions.                                            *)

\* The videos that are stored, and the rows the copies make of them.
StoredOf(videos) ==
    [k \in DOMAIN ByRank(VideosAt(videos), UpTo(VideosAt(videos))) |->
        videos[ByRank(VideosAt(videos), UpTo(VideosAt(videos)))[k]]]

ApiVideos(videos) ==
    [k \in DOMAIN StoredOf(videos) |-> VideoRow(StoredOf(videos)[k], Null)]

WorkerVideos(videos) ==
    [k \in DOMAIN StoredOf(videos) |->
        VideoRow(StoredOf(videos)[k], Duration(StoredOf(videos)[k]))]

Lists(s, n, ids) ==
    /\ DOMAIN s = 1..n
    /\ \A k, l \in 1..n : s[k].id = s[l].id => k = l
    /\ \A k \in 1..n : \E i \in DOMAIN ids : s[k].id = ids[i]
    /\ \A k \in 1..n : /\ IsCount(s[k].viewCount) /\ IsCount(s[k].likeCount)
                       /\ IsCount(s[k].commentCount)

\* At most ten, each once, of the ids that were searched for.
LEMMA StoredListed ==
    ASSUME NEW videos, NEW ids, IsVideoList(videos, ids)
    PROVE  \E n \in 0..10 : Lists(StoredOf(videos), n, ids)
<1> DEFINE K == VideosAt(videos)
           R == ByRank(K, UpTo(K))
           n == Cardinality(K)
           s == StoredOf(videos)
           l == Len(videos)
<1>1. /\ l \in Nat /\ l <= 10 /\ DOMAIN videos = 1..l
      /\ \A i, j \in 1..l : videos[i].id = videos[j].id => i = j
      /\ \A i \in 1..l : /\ \E k \in DOMAIN ids : videos[i].id = ids[k]
                         /\ IsCount(videos[i].viewCount)
                         /\ IsCount(videos[i].likeCount)
                         /\ IsCount(videos[i].commentCount)
  BY DEF IsVideoList, IsList
<1>2. K \in SUBSET (1..l)
  BY <1>1 DEF VideosAt
<1>3. s = [k \in DOMAIN R |-> videos[R[k]]]
  BY Zenon DEF StoredOf
<1> HIDE DEF K, s, l
<1>4. n \in 0..10
  <2>1. IsFiniteSet(1..l) /\ Cardinality(1..l) = l
    BY <1>1, FS_Interval
  <2>2. IsFiniteSet(K) /\ Cardinality(K) <= l
    BY <1>2, <2>1, FS_Subset
  <2>3. n \in Nat
    BY <2>2, FS_CardinalityType
  <2> QED BY <1>1, <2>2, <2>3
<1>5. IsListing(R, n, K)
  <2>1. IsFiniteSet(K) /\ Orders(UpTo(K), K)
    BY <1>1, <1>2, UpToOrders
  <2> QED BY <2>1, RanksList
<1> HIDE DEF R, n
<1>6. /\ DOMAIN R = 1..n /\ \A k \in 1..n : R[k] \in 1..l
      /\ \A i, j \in 1..n : R[i] = R[j] => i = j
  BY <1>2, <1>5 DEF IsListing
<1>7. Lists(s, n, ids)
  <2>1. DOMAIN s = 1..n /\ \A k \in 1..n : s[k] = videos[R[k]]
    BY <1>3, <1>6
  <2> QED BY <1>1, <1>6, <2>1 DEF Lists
<1> QED BY <1>4, <1>7 DEF s

\* They are what both copies make of the videos.
LEMMA VideosMade ==
    ASSUME NEW videos, NEW ids, IsVideoList(videos, ids), Null \notin Int
    PROVE  /\ Api!NormalizeVideos([i \in DOMAIN videos |->
                                      Api!SanitizeVideo(videos[i])])
                = ApiVideos(videos)
           /\ Worker!NormalizeVideos([i \in DOMAIN videos |->
                                         Worker!MapVideo(videos[i])])
                = WorkerVideos(videos)
<1> DEFINE R == ByRank(VideosAt(videos), UpTo(VideosAt(videos)))
           s == StoredOf(videos)
<1>1. /\ Api!NormalizeVideos([i \in DOMAIN videos |->
                                 Api!SanitizeVideo(videos[i])])
           = [k \in DOMAIN R |-> VideoRow(videos[R[k]], Null)]
      /\ Worker!NormalizeVideos([i \in DOMAIN videos |->
                                    Worker!MapVideo(videos[i])])
           = [k \in DOMAIN R |->
                 VideoRow(videos[R[k]], Duration(videos[R[k]]))]
  BY Zenon, VideosStored
<1>2. s = [k \in DOMAIN R |-> videos[R[k]]]
  BY Zenon DEF StoredOf
<1> HIDE DEF R, s
<1>3. DOMAIN s = DOMAIN R /\ \A k \in DOMAIN R : s[k] = videos[R[k]]
  BY <1>2
<1>4. /\ ApiVideos(videos) = [k \in DOMAIN R |-> VideoRow(videos[R[k]], Null)]
      /\ WorkerVideos(videos)
           = [k \in DOMAIN R |->
                 VideoRow(videos[R[k]], Duration(videos[R[k]]))]
  BY Zenon, <1>3 DEF ApiVideos, WorkerVideos, s
<1> QED BY Zenon, <1>1, <1>4

\* Without their durations the rows of both are the same.
LEMMA VideosUntimed ==
    ASSUME NEW videos
    PROVE  Untimed(ApiVideos(videos)) = Untimed(WorkerVideos(videos))
<1>1. ASSUME NEW v, NEW d
      PROVE  [VideoRow(v, d) EXCEPT !.durationSeconds = Null]
               = VideoRow(v, Null)
  <2> DEFINE F == {"youtubeVideoId", "videoTitle", "durationSeconds",
                   "viewCount", "likeCount", "commentCount"}
             id == v.id
             title == Api!Field(v.snippet, "title")
             views == Api!ParseNumberishInt(v.viewCount)
             likes == Api!ParseNumberishInt(v.likeCount)
             comments == Api!ParseNumberishInt(v.commentCount)
             p == VideoRow(v, d)
             q == VideoRow(v, Null)
  <2>1. /\ p = [youtubeVideoId |-> id, videoTitle |-> title,
                durationSeconds |-> d, viewCount |-> views,
                likeCount |-> likes, commentCount |-> comments]
        /\ q = [youtubeVideoId |-> id, videoTitle |-> title,
                durationSeconds |-> Null, viewCount |-> views,
                likeCount |-> likes, commentCount |-> comments]
    BY Zenon DEF VideoRow
  <2> HIDE DEF id, title, views, likes, comments, p, q
  <2>2. DOMAIN p = F /\ DOMAIN q = F
    BY <2>1
  <2>3. p = [f \in F |-> p[f]]
    BY <2>1
  <2>4. q = [f \in F |-> q[f]]
    BY <2>1
  <2>5. /\ p.youtubeVideoId = q.youtubeVideoId
        /\ p.videoTitle = q.videoTitle /\ q.durationSeconds = Null
        /\ p.viewCount = q.viewCount /\ p.likeCount = q.likeCount
        /\ p.commentCount = q.commentCount
    BY <2>1
  <2>6. \A f \in F : q[f] = IF f = "durationSeconds" THEN Null ELSE p[f]
    BY <2>5
  <2> HIDE DEF F
  <2>7. [p EXCEPT !.durationSeconds = Null] = q
    BY <2>2, <2>3, <2>4, <2>6
  <2> QED BY <2>7 DEF p, q
<1> DEFINE D == DOMAIN StoredOf(videos)
           a == ApiVideos(videos)
           w == WorkerVideos(videos)
           row(k) == VideoRow(StoredOf(videos)[k], Null)
<1>2. DOMAIN a = D /\ DOMAIN w = D
  BY DEF ApiVideos, WorkerVideos
<1>3. \A k \in D : /\ [a[k] EXCEPT !.durationSeconds = Null] = row(k)
                   /\ [w[k] EXCEPT !.durationSeconds = Null] = row(k)
  BY <1>1 DEF ApiVideos, WorkerVideos
<1> HIDE DEF D, a, w, row
<1>4. /\ [k \in DOMAIN a |-> [a[k] EXCEPT !.durationSeconds = Null]]
           = [k \in D |-> row(k)]
      /\ [k \in DOMAIN w |-> [w[k] EXCEPT !.durationSeconds = Null]]
           = [k \in D |-> row(k)]
  BY <1>2, <1>3
<1> QED BY Zenon, <1>4 DEF Untimed, a, w

\* The content item of a video, and those of all videos.
ItemRow(user, id, title, duration) ==
    [userId |-> user, externalId |-> id, title |-> title,
     durationSeconds |-> duration]

ItemsOf(user, rows) ==
    [i \in DOMAIN rows |->
        [userId |-> user, externalId |-> rows[i].youtubeVideoId,
         title |-> rows[i].videoTitle,
         durationSeconds |-> rows[i].durationSeconds]]

\* Nor do the rows of the two copies tell the ids and titles apart.
LEMMA VideosSame ==
    ASSUME NEW videos
    PROVE  LET a == ApiVideos(videos)
               w == WorkerVideos(videos)
           IN  /\ DOMAIN a = DOMAIN StoredOf(videos)
               /\ DOMAIN w = DOMAIN StoredOf(videos)
               /\ \A k \in DOMAIN StoredOf(videos) :
                    /\ a[k].youtubeVideoId = StoredOf(videos)[k].id
                    /\ w[k].youtubeVideoId = StoredOf(videos)[k].id
                    /\ a[k].videoTitle = w[k].videoTitle
               /\ IdsStored(a) = IdsStored(w)
<1> DEFINE s == StoredOf(videos)
           a == ApiVideos(videos)
           w == WorkerVideos(videos)
<1>1. a = [k \in DOMAIN s |-> VideoRow(s[k], Null)]
  BY Zenon DEF ApiVideos
<1>2. w = [k \in DOMAIN s |-> VideoRow(s[k], Duration(s[k]))]
  BY Zenon DEF WorkerVideos
<1>3. \A v, d : /\ VideoRow(v, d).youtubeVideoId = v.id
                /\ VideoRow(v, d).videoTitle = Api!Field(v.snippet, "title")
  BY DEF VideoRow
<1> HIDE DEF s, a, w
<1>4. /\ DOMAIN a = DOMAIN s /\ DOMAIN w = DOMAIN s
      /\ \A k \in DOMAIN s : /\ a[k].youtubeVideoId = s[k].id
                             /\ w[k].youtubeVideoId = s[k].id
                             /\ a[k].videoTitle = w[k].videoTitle
  BY <1>1, <1>2, <1>3
<1>5. IdsStored(a) = IdsStored(w)
  BY <1>4 DEF IdsStored
<1> QED BY <1>4, <1>5 DEF s, a, w

\* So the content items are the same without their durations.
LEMMA ItemsUntimed ==
    ASSUME NEW videos, NEW user
    PROVE  Untimed(ItemsOf(user, ApiVideos(videos)))
             = Untimed(ItemsOf(user, WorkerVideos(videos)))
<1>1. ASSUME NEW id, NEW title, NEW d
      PROVE  [ItemRow(user, id, title, d) EXCEPT !.durationSeconds = Null]
               = ItemRow(user, id, title, Null)
  <2> DEFINE F == {"userId", "externalId", "title", "durationSeconds"}
             p == ItemRow(user, id, title, d)
             q == ItemRow(user, id, title, Null)
  <2>1. /\ p = [userId |-> user, externalId |-> id, title |-> title,
                durationSeconds |-> d]
        /\ q = [userId |-> user, externalId |-> id, title |-> title,
                durationSeconds |-> Null]
    BY Zenon DEF ItemRow
  <2> HIDE DEF p, q
  <2>2. DOMAIN p = F /\ DOMAIN q = F
    BY <2>1
  <2>3. p = [f \in F |-> p[f]]
    BY <2>1
  <2>4. q = [f \in F |-> q[f]]
    BY <2>1
  <2>5. /\ p.userId = q.userId /\ p.externalId = q.externalId
        /\ p.title = q.title /\ q.durationSeconds = Null
    BY <2>1
  <2>6. \A f \in F : q[f] = IF f = "durationSeconds" THEN Null ELSE p[f]
    BY <2>5
  <2> HIDE DEF F
  <2>7. [p EXCEPT !.durationSeconds = Null] = q
    BY <2>2, <2>3, <2>4, <2>6
  <2> QED BY <2>7 DEF p, q
<1> DEFINE D == DOMAIN StoredOf(videos)
           p == ApiVideos(videos)
           q == WorkerVideos(videos)
           a == ItemsOf(user, p)
           w == ItemsOf(user, q)
           row(k) == ItemRow(user, StoredOf(videos)[k].id, p[k].videoTitle,
                             Null)
<1>2. /\ DOMAIN p = D /\ DOMAIN q = D
      /\ \A k \in D : /\ p[k].youtubeVideoId = StoredOf(videos)[k].id
                      /\ q[k].youtubeVideoId = StoredOf(videos)[k].id
                      /\ q[k].videoTitle = p[k].videoTitle
  BY VideosSame
<1> HIDE DEF p, q
<1>3. /\ DOMAIN a = D /\ DOMAIN w = D
      /\ \A k \in D :
           /\ a[k] = ItemRow(user, StoredOf(videos)[k].id, p[k].videoTitle,
                             p[k].durationSeconds)
           /\ w[k] = ItemRow(user, StoredOf(videos)[k].id, p[k].videoTitle,
                             q[k].durationSeconds)
  BY <1>2 DEF ItemsOf, ItemRow
<1> HIDE DEF D, a, w
<1>4. \A k \in D : /\ [a[k] EXCEPT !.durationSeconds = Null] = row(k)
                   /\ [w[k] EXCEPT !.durationSeconds = Null] = row(k)
  BY <1>1, <1>3
<1> HIDE DEF row
<1>5. /\ [k \in DOMAIN a |-> [a[k] EXCEPT !.durationSeconds = Null]]
           = [k \in D |-> row(k)]
      /\ [k \in DOMAIN w |-> [w[k] EXCEPT !.durationSeconds = Null]]
           = [k \in D |-> row(k)]
  BY <1>3, <1>4
<1> QED BY Zenon, <1>5 DEF Untimed, a, w, p, q

\* The rows both copies make of an answer, but for the channel and the videos.
CommentsOf(g) ==
    Worker!FlattenSeq(RowsByVideo(g.videoIds, g.threads,
                                  IdsStored(ApiVideos(g.videos))))

MadeOf(rows, g, user, channel, videos) ==
    /\ DOMAIN rows = {"channel", "videos", "analytics", "comments",
                      "demographics", "contentItems", "metrics"}
    /\ rows.channel = channel
    /\ rows.videos = videos
    /\ rows.analytics = Api!NormalizeDailyAnalytics(g.daily)
    /\ rows.comments = CommentsOf(g)
    /\ rows.demographics = Api!PersistAudienceDemographics(
                               Reports(g.age, g.gender, g.country))
    /\ rows.contentItems = ItemsOf(user, videos)
    /\ rows.metrics = Api!BuildContentMetricsFromAnalytics(user, g.daily)

\* What the API makes of an answer.
LEMMA ApiMakes ==
    ASSUME NEW user, NEW g, IsAnswer(user, g), Null \notin Int
    PROVE  MadeOf(Api!ApiRows(user, g), g, user,
                  Api!NormalizeChannel(g.channel.id,
                                       Api!SanitizeChannel(g.channel), user),
                  ApiVideos(g.videos))
<1> DEFINE a == Api!ApiRows(user, g)
           v == ApiVideos(g.videos)
           d == Reports(g.age, g.gender, g.country)
           c == Api!FetchVideoComments(g.videoIds, g.threads, g.videos)
           channel == Api!NormalizeChannel(g.channel.id,
                                           Api!SanitizeChannel(g.channel),
                                           user)
           analytics == Api!NormalizeDailyAnalytics(g.daily)
           metrics == Api!BuildContentMetricsFromAnalytics(user, g.daily)
<1>1. /\ IsVideoList(g.videos, g.videoIds)
      /\ IsThreadList(g.threads, g.videoIds)
  BY DEF IsAnswer
<1>2. Api!NormalizeVideos([i \in DOMAIN g.videos |->
                              Api!SanitizeVideo(g.videos[i])]) = v
  BY <1>1, VideosMade
<1>3. a = [channel |-> channel, videos |-> v, analytics |-> analytics,
           comments |-> Api!PersistVideoComments(v, c),
           demographics |-> Api!PersistAudienceDemographics(d),
           contentItems |-> Api!MapVideosToContentItems(user, v),
           metrics |-> metrics]
  <2> HIDE DEF v, channel, analytics, metrics
  <2> QED BY Zenon, <1>2 DEF Api!ApiRows, Reports, channel, analytics, metrics
<1>4. Api!PersistVideoComments(v, c) = CommentsOf(g)
  BY Zenon, <1>1, ApiComments DEF CommentsOf
<1>5. Api!MapVideosToContentItems(user, v) = ItemsOf(user, v)
  BY Zenon DEF Api!MapVideosToContentItems, ItemsOf
<1>6. MadeOf(a, g, user, channel, v)
  <2> DEFINE demographics == Api!PersistAudienceDemographics(d)
             comments == CommentsOf(g)
             items == ItemsOf(user, v)
  <2>1. a = [channel |-> channel, videos |-> v, analytics |-> analytics,
             comments |-> comments, demographics |-> demographics,
             contentItems |-> items, metrics |-> metrics]
    BY Zenon, <1>3, <1>4, <1>5
  <2> HIDE DEF a, v, channel, analytics, metrics, comments, demographics, items
  <2>2. /\ DOMAIN a = {"channel", "videos", "analytics", "comments",
                       "demographics", "contentItems", "metrics"}
        /\ a.channel = channel /\ a.videos = v /\ a.analytics = analytics
        /\ a.comments = comments /\ a.demographics = demographics
        /\ a.contentItems = items /\ a.metrics = metrics
    BY <2>1
  <2> QED
    BY Zenon, <2>2
    DEF MadeOf, analytics, metrics, comments, demographics, items
<1> QED BY <1>6

\* What the worker makes of it.
LEMMA WorkerMakes ==
    ASSUME NEW user, NEW g, IsAnswer(user, g), Null \notin Int
    PROVE  MadeOf(Worker!WorkerRows(user, g), g, user,
                  Worker!NormalizeChannel(g.channel.id, g.channel, user),
                  WorkerVideos(g.videos))
<1> DEFINE w == Worker!WorkerRows(user, g)
           v == WorkerVideos(g.videos)
           d == Reports(g.age, g.gender, g.country)
           channel == Worker!NormalizeChannel(g.channel.id, g.channel, user)
           analytics == Api!NormalizeDailyAnalytics(g.daily)
           metrics == Api!BuildContentMetricsFromAnalytics(user, g.daily)
           demographics == Api!PersistAudienceDemographics(d)
           comments == CommentsOf(g)
           items == ItemsOf(user, v)
<1>1. /\ IsVideoList(g.videos, g.videoIds)
      /\ IsThreadList(g.threads, g.videoIds)
      /\ IsReport(g.age) /\ IsReport(g.gender) /\ IsReport(g.country)
      /\ \A i \in DOMAIN g.country :
           Api!Cell(g.country[i], 1) \in Nat \cup {Null}
      /\ d # Null
      /\ \A i \in DOMAIN g.daily : DOMAIN g.daily[i].cells \subseteq 1..8
  BY DEF IsAnswer
<1>2. Worker!NormalizeVideos([i \in DOMAIN g.videos |->
                                 Worker!MapVideo(g.videos[i])]) = v
  BY <1>1, VideosMade
<1>3. Worker!NormalizeDailyAnalytics(g.daily) = analytics
  <2>1. /\ \A i, row : Worker!Cell(row, i) = Api!Cell(row, i)
        /\ \A x : Worker!ParseNumberishInt(x) = Api!ParseNumberishInt(x)
    BY DEF Worker!Cell, Api!Cell, Worker!ParseNumberishInt,
           Api!ParseNumberishInt
  <2> QED
    BY Zenon, <2>1
    DEF Worker!NormalizeDailyAnalytics, Api!NormalizeDailyAnalytics
<1>4. Worker!PersistVideoComments(
          Worker!FetchVideoComments(g.videoIds, g.threads), v) = comments
  <2>1. IdsStored(v) = IdsStored(ApiVideos(g.videos))
    BY VideosSame
  <2> HIDE DEF v
  <2>2. Worker!PersistVideoComments(
            Worker!FetchVideoComments(g.videoIds, g.threads), v)
          = Worker!FlattenSeq(RowsByVideo(g.videoIds, g.threads,
                                          IdsStored(v)))
    BY Zenon, <1>1, WorkerComments
  <2> QED BY Zenon, <2>1, <2>2 DEF CommentsOf
<1>5. Worker!PersistAudienceDemographics(
          [ageGroups |-> Worker!MapAgeGroupRows(g.age),
           genders |-> Worker!MapGenderRows(g.gender),
           countries |-> Worker!MapCountryRows(g.country)]) = demographics
  <2>1. /\ Worker!MapAgeGroupRows(g.age) = Api!MapAgeGroupRows(g.age)
        /\ Worker!MapGenderRows(g.gender) = Api!MapGenderRows(g.gender)
    BY Zenon, SharesKept
  <2>2. Worker!MapCountryRows(g.country) = Api!MapCountryRows(g.country)
    BY <1>1, CountriesKept
  <2>3. Worker!PersistAudienceDemographics(d) = demographics
    BY <1>1, DemographicsStored
  <2> QED BY Zenon, <2>1, <2>2, <2>3 DEF Reports
<1>6. Worker!BuildContentMetricsFromAnalytics(user, g.daily) = metrics
  BY <1>1, MetricsStored
<1>7. w = [channel |-> channel, videos |-> v, analytics |-> analytics,
           comments |-> comments, demographics |-> demographics,
           contentItems |-> items, metrics |-> metrics]
  <2> HIDE DEF v, analytics, metrics, demographics, comments
  <2>1. w = [channel |-> channel, videos |-> v, analytics |-> analytics,
             comments |-> comments, demographics |-> demographics,
             contentItems |-> [i \in DOMAIN v |->
                 [userId |-> user, externalId |-> v[i].youtubeVideoId,
                  title |-> v[i].videoTitle,
                  durationSeconds |-> v[i].durationSeconds]],
             metrics |-> metrics]
    BY Zenon, <1>2, <1>3, <1>4, <1>5, <1>6 DEF Worker!WorkerRows
  <2> QED BY Zenon, <2>1 DEF ItemsOf
<1> HIDE DEF w, v, channel, analytics, metrics, comments, demographics, items
<1>8. /\ DOMAIN w = {"channel", "videos", "analytics", "comments",
                     "demographics", "contentItems", "metrics"}
      /\ w.channel = channel /\ w.videos = v /\ w.analytics = analytics
      /\ w.comments = comments /\ w.demographics = demographics
      /\ w.contentItems = items /\ w.metrics = metrics
  BY <1>7
<1>9. MadeOf(w, g, user, channel, v)
  BY Zenon, <1>8 DEF MadeOf, analytics, metrics, comments, demographics, items
<1> QED BY <1>9 DEF w, v, channel

\* Rows that agree but for the durations and the upload playlist compare
\* equal.
LEMMA Compared ==
    ASSUME NEW p, NEW q, NEW g, NEW user, NEW c, NEW e, NEW v, NEW w,
           MadeOf(p, g, user, c, v), MadeOf(q, g, user, e, w),
           Untimed(v) = Untimed(w),
           Untimed(ItemsOf(user, v)) = Untimed(ItemsOf(user, w)),
           (IF c = Null THEN Null ELSE [c EXCEPT !.uploadPlaylistId = Null])
             = (IF e = Null THEN Null
                ELSE [e EXCEPT !.uploadPlaylistId = Null])
    PROVE  Comparable(p) = Comparable(q)
<1> DEFINE F == {"channel", "videos", "analytics", "comments",
                 "demographics", "contentItems", "metrics"}
           Bare(x) == IF x = Null THEN Null
                      ELSE [x EXCEPT !.uploadPlaylistId = Null]
           a == Comparable(p)
           b == Comparable(q)
<1>1. DOMAIN p = F /\ DOMAIN q = F
  BY DEF MadeOf
<1>2. /\ a = [p EXCEPT !.videos = Untimed(@), !.contentItems = Untimed(@),
                       !.channel = Bare(@)]
      /\ b = [q EXCEPT !.videos = Untimed(@), !.contentItems = Untimed(@),
                       !.channel = Bare(@)]
  BY Zenon DEF Comparable
<1>3. /\ p.analytics = q.analytics /\ p.comments = q.comments
      /\ p.demographics = q.demographics /\ p.metrics = q.metrics
      /\ Untimed(p.videos) = Untimed(q.videos)
      /\ Untimed(p.contentItems) = Untimed(q.contentItems)
      /\ Bare(p.channel) = Bare(q.channel)
  BY Zenon DEF MadeOf
<1> HIDE DEF a, b, Bare
<1>4. /\ DOMAIN a = F /\ DOMAIN b = F
      /\ a = [f \in F |-> a[f]] /\ b = [f \in F |-> b[f]]
  BY <1>1, <1>2
<1>5. /\ a.analytics = p.analytics /\ b.analytics = q.analytics
      /\ a.comments = p.comments /\ b.comments = q.comments
      /\ a.demographics = p.demographics /\ b.demographics = q.demographics
      /\ a.metrics = p.metrics /\ b.metrics = q.metrics
      /\ a.videos = Untimed(p.videos) /\ b.videos = Untimed(q.videos)
      /\ a.contentItems = Untimed(p.contentItems)
      /\ b.contentItems = Untimed(q.contentItems)
      /\ a.channel = Bare(p.channel) /\ b.channel = Bare(q.channel)
  BY <1>1, <1>2
<1>6. \A f \in F : a[f] = b[f]
  BY <1>3, <1>5
<1> QED BY <1>4, <1>6 DEF a, b

\* Both copies make the same rows of an answer.
LEMMA RowsSame ==
    ASSUME NEW user, NEW g, IsAnswer(user, g), Null \notin Int
    PROVE  Comparable(Api!ApiRows(user, g))
             = Comparable(Worker!WorkerRows(user, g))
<1> DEFINE p == Api!ApiRows(user, g)
           q == Worker!WorkerRows(user, g)
           c == Api!NormalizeChannel(g.channel.id,
                                     Api!SanitizeChannel(g.channel), user)
           e == Worker!NormalizeChannel(g.channel.id, g.channel, user)
           v == ApiVideos(g.videos)
           w == WorkerVideos(g.videos)
<1>1. IsChannel(user, g.channel)
  BY DEF IsAnswer
<1>2. (IF c = Null THEN Null ELSE [c EXCEPT !.uploadPlaylistId = Null])
        = (IF e = Null THEN Null ELSE [e EXCEPT !.uploadPlaylistId = Null])
  BY Zenon, <1>1, ChannelStored
<1>3. Untimed(v) = Untimed(w)
  BY Zenon, VideosUntimed
<1>4. Untimed(ItemsOf(user, v)) = Untimed(ItemsOf(user, w))
  BY Zenon, ItemsUntimed
<1>5. MadeOf(p, g, user, c, v)
  BY Zenon, ApiMakes
<1>6. MadeOf(q, g, user, e, w)
  BY Zenon, WorkerMakes
<1> HIDE DEF p, q, c, e, v, w
<1>7. Comparable(p) = Comparable(q)
  BY Zenon, <1>2, <1>3, <1>4, <1>5, <1>6, Compared
<1> QED BY <1>7 DEF p, q

\* v are rows of the videos that are stored.
IdsOf(v, videos) ==
    /\ DOMAIN v = DOMAIN StoredOf(videos)
    /\ \A k \in DOMAIN v : v[k].youtubeVideoId = StoredOf(videos)[k].id

\* No two rows of an ingestion have one key.
LEMMA KeysApart ==
    ASSUME NEW user, NEW g, IsAnswer(user, g), Null \notin Int,
           NEW rows, NEW channel, NEW v,
           MadeOf(rows, g, user, channel, v), IdsOf(v, g.videos)
    PROVE  KeysDiffer(rows)
<1> DEFINE f == CommentsOf(g)
           p == Api!PersistAudienceDemographics(
                    Reports(g.age, g.gender, g.country))
           a == Api!NormalizeDailyAnalytics(g.daily)
           m == ItemsOf(user, v)
<1>1. /\ rows.videos = v /\ rows.comments = f /\ rows.analytics = a
      /\ rows.demographics = p /\ rows.contentItems = m
  BY Zenon DEF MadeOf
<1>2. /\ IsVideoList(g.videos, g.videoIds)
      /\ IsThreadList(g.threads, g.videoIds) /\ IsList(g.videoIds)
      /\ IsReport(g.age) /\ IsReport(g.gender) /\ IsReport(g.country)
      /\ \A i \in DOMAIN g.country :
           Api!Cell(g.country[i], 1) \in Nat \cup {Null}
      /\ Reports(g.age, g.gender, g.country) # Null
      /\ IsReport(g.daily)
  BY DEF IsAnswer, IsVideoList
<1>3. \A i, j \in DOMAIN v :
         v[i].youtubeVideoId = v[j].youtubeVideoId => i = j
  <2>1. PICK n \in 0..10 : Lists(StoredOf(g.videos), n, g.videoIds)
    BY <1>2, StoredListed
  <2> QED BY <2>1 DEF Lists, IdsOf
<1>4. \A i, j \in DOMAIN f :
         f[i].youtubeCommentId = f[j].youtubeCommentId => i = j
  BY Zenon, <1>2, CommentsStored DEF CommentsOf
<1>5. \A i, j \in DOMAIN a : a[i].analyticsDate = a[j].analyticsDate => i = j
  <2>1. DOMAIN a = DOMAIN g.daily
        /\ \A i \in DOMAIN a : a[i].analyticsDate = g.daily[i].value
    BY DEF Api!NormalizeDailyAnalytics
  <2> QED BY <1>2, <2>1 DEF IsReport
<1>6. \A i, j \in DOMAIN p : <<p[i].dimensionType, p[i].dimensionValue>>
                               = <<p[j].dimensionType, p[j].dimensionValue>>
                             => i = j
  BY Zenon, <1>2, DemographicsStored DEF RowKey
<1>7. \A i, j \in DOMAIN m : m[i].externalId = m[j].externalId => i = j
  <2>1. /\ DOMAIN m = DOMAIN v
        /\ \A i \in DOMAIN m : m[i].externalId = v[i].youtubeVideoId
    BY DEF ItemsOf
  <2> QED BY <1>3, <2>1
<1> HIDE DEF f, p, a, m
<1> QED
  BY Zenon, <1>1, <1>3, <1>4, <1>5, <1>6, <1>7 DEF KeysDiffer, Distinct

\* Every comment Google lists of a video that is stored is there.
LEMMA CommentsThere ==
    ASSUME NEW user, NEW g, IsAnswer(user, g), Null \notin Int,
           NEW rows, NEW channel, NEW v,
           MadeOf(rows, g, user, channel, v), IdsOf(v, g.videos)
    PROVE  HasEveryComment(rows, g.threads)
<1> DEFINE stored == IdsStored(v)
           ids == g.videoIds
           t == g.threads
           w == RowsByVideo(ids, t, stored)
           f == CommentsOf(g)
           top(y) == Named(t[y].top)
           all(y) == top(y) \cup Named(t[y].latest)
           type(y, c) == IF c \in top(y) THEN "top" ELSE "latest"
           of(y) == {<<y, c, type(y, c)>> : c \in all(y)}
           key(x) == <<x.videoId, x.youtubeCommentId, x.commentType>>
<1>1. rows.videos = v /\ rows.comments = f
  BY Zenon DEF MadeOf
<1>2. /\ IsVideoList(g.videos, ids) /\ IsThreadList(t, ids) /\ IsList(ids)
  BY DEF IsAnswer, IsVideoList
<1>3. f = Worker!FlattenSeq(w)
  <2>1. IdsStored(ApiVideos(g.videos)) = stored
    BY VideosSame DEF IdsStored, IdsOf
  <2> QED BY Zenon, <2>1 DEF CommentsOf
<1>4. /\ In(f) = UNION {In(w[k]) : k \in DOMAIN ids}
      /\ \A k \in DOMAIN ids : OfVideo(w, ids, t, stored, k)
  BY Zenon, <1>2, <1>3, CommentsStored
<1>5. \A y \in stored : \E k \in DOMAIN ids : y = ids[k]
  <2>1. PICK n \in 0..10 : Lists(StoredOf(g.videos), n, ids)
    BY <1>2, StoredListed
  <2> QED BY <2>1 DEF Lists, IdsOf, IdsStored
<1>6. /\ {key(rows.comments[i]) : i \in DOMAIN rows.comments}
           = {key(x) : x \in In(f)}
      /\ {rows.comments[i] : i \in DOMAIN rows.comments} = In(f)
      /\ {rows.videos[i].youtubeVideoId : i \in DOMAIN rows.videos} = stored
  BY <1>1 DEF In, IdsStored
<1> HIDE DEF w, f, stored, ids, t
<1>7. ASSUME NEW x \in In(f)
      PROVE  \E y \in stored : key(x) \in of(y)
  <2>1. PICK k \in DOMAIN ids : x \in In(w[k])
    BY <1>4
  <2>2. ids[k] \in stored
    BY <1>4, <2>1 DEF OfVideo
  <2>3. /\ x.youtubeCommentId \in all(ids[k]) /\ x.videoId = ids[k]
        /\ x.commentType = type(ids[k], x.youtubeCommentId)
    BY <1>4, <2>1, <2>2 DEF OfVideo
  <2> QED BY <2>2, <2>3
<1>8. ASSUME NEW y \in stored, NEW c \in all(y)
      PROVE  \E x \in In(f) : key(x) = <<y, c, type(y, c)>>
  <2>1. PICK k \in DOMAIN ids : y = ids[k]
    BY <1>5
  <2>2. OfVideo(w, ids, t, stored, k)
    BY <1>4
  <2>3. PICK x \in In(w[k]) : x.youtubeCommentId = c
    BY <1>8, <2>1, <2>2 DEF OfVideo
  <2>4. /\ x.videoId = y
        /\ x.commentType = type(y, c)
    BY <1>8, <2>1, <2>2, <2>3 DEF OfVideo
  <2>5. x \in In(f)
    BY <1>4
  <2> QED BY <2>3, <2>4, <2>5
<1>9. {key(x) : x \in In(f)} = UNION {of(y) : y \in stored}
  <2> HIDE DEF key
  <2>1. ASSUME NEW z \in {key(x) : x \in In(f)}
        PROVE  z \in UNION {of(y) : y \in stored}
    BY <1>7
  <2>2. ASSUME NEW z \in UNION {of(y) : y \in stored}
        PROVE  z \in {key(x) : x \in In(f)}
    <3>1. PICK y \in stored : z \in of(y)
      OBVIOUS
    <3>2. PICK c \in all(y) : z = <<y, c, type(y, c)>>
      BY <3>1
    <3>3. PICK x \in In(f) : key(x) = z
      BY <1>8, <3>2
    <3> QED BY <3>3
  <2> QED BY <2>1, <2>2
<1>10. HasEveryComment(rows, t)
         <=> {key(x) : x \in {rows.comments[i] : i \in DOMAIN rows.comments}}
             = UNION {of(y) : y \in {rows.videos[i].youtubeVideoId :
                                        i \in DOMAIN rows.videos}}
  BY Zenon DEF HasEveryComment
<1> HIDE DEF key, of
<1>11. HasEveryComment(rows, t)
  BY Zenon, <1>6, <1>9, <1>10
<1> QED BY <1>11 DEF t

\* The counts that are stored are numbers.
LEMMA CountsStored ==
    ASSUME NEW videos, NEW ids, IsVideoList(videos, ids), Null \notin Int
    PROVE  LET a == ApiVideos(videos)
           IN  /\ Len(a) \in 0..10 /\ DOMAIN a = 1..Len(a)
               /\ \A k \in DOMAIN a : /\ a[k].viewCount \in Nat
                                      /\ a[k].likeCount \in Nat
                                      /\ a[k].commentCount \in Nat
<1> DEFINE s == StoredOf(videos)
           a == ApiVideos(videos)
<1>1. PICK n \in 0..10 : Lists(s, n, ids)
  BY StoredListed
<1>2. /\ DOMAIN s = 1..n
      /\ \A k \in 1..n : /\ IsCount(s[k].viewCount) /\ IsCount(s[k].likeCount)
                         /\ IsCount(s[k].commentCount)
  BY <1>1 DEF Lists
<1>3. a = [k \in DOMAIN s |-> VideoRow(s[k], Null)]
  BY Zenon DEF ApiVideos
<1>4. \A c : IsCount(c) => Api!ParseNumberishInt(c) \in Nat
  BY DEF IsCount, Api!ParseNumberishInt
<1>5. \A v, d : /\ VideoRow(v, d).viewCount
                     = Api!ParseNumberishInt(v.viewCount)
                /\ VideoRow(v, d).likeCount
                     = Api!ParseNumberishInt(v.likeCount)
                /\ VideoRow(v, d).commentCount
                     = Api!ParseNumberishInt(v.commentCount)
  BY DEF VideoRow
<1> HIDE DEF s, a
<1>6. /\ DOMAIN a = 1..n
      /\ \A k \in 1..n : /\ a[k].viewCount \in Nat /\ a[k].likeCount \in Nat
                         /\ a[k].commentCount \in Nat
  BY <1>2, <1>3, <1>4, <1>5
<1>7. Len(a) = n
  <2>1. a = [k \in 1..n |-> a[k]]
    BY <1>2, <1>3
  <2> QED BY <2>1
<1> QED BY <1>6, <1>7 DEF a

\* Insights show of each video that is stored the rate of the scoring job.
LEMMA RatesSame ==
    ASSUME NEW g, IsVideoList(g.videos, g.videoIds), Null \notin Int
    PROVE  SameRates(ApiVideos(g.videos),
                     Api!EnqueueIngestionJobs(g, 10, ApiVideos(g.videos)))
<1> DEFINE stored == ApiVideos(g.videos)
           job == Api!EnqueueIngestionJobs(g, 10, stored)
           n == Len(stored)
           Video(x) == [id |-> x.youtubeVideoId, viewCount |-> x.viewCount,
                        likeCount |-> x.likeCount,
                        commentCount |-> x.commentCount, rank |-> Null]
           rows == [i \in DOMAIN stored |-> Video(stored[i])]
           top == Insights!buildTopContent(rows)
           sorted == MostViewed(rows)
           rated == {<<stored[i].youtubeVideoId,
                       Api!EngagementRate(stored[i])>> : i \in 1..n}
<1>1. /\ n \in 0..10 /\ DOMAIN stored = 1..n
      /\ \A k \in 1..n : /\ stored[k].viewCount \in Nat
                         /\ stored[k].likeCount \in Nat
                         /\ stored[k].commentCount \in Nat
  BY CountsStored
<1>2. {<<x.youtubeVideoId, x.engagementRate>> :
          x \in {job.videos[i] : i \in DOMAIN job.videos}} = rated
  <2> DEFINE listed == [i \in 1..n |->
                 [youtubeVideoId |-> stored[i].youtubeVideoId,
                  engagementRate |-> Api!EngagementRate(stored[i])]]
             m == IF n < 10 THEN n ELSE 10
  <2>1. job.videos
          = [i \in 1..m |->
                [youtubeVideoId |-> stored[i].youtubeVideoId,
                 engagementRate |-> Api!EngagementRate(stored[i])]]
    BY DEF Api!EnqueueIngestionJobs
  <2>2. m = n
    <3> HIDE DEF n
    <3> QED BY <1>1
  <2>3. job.videos = listed
    BY Zenon, <2>1, <2>2
  <2>4. /\ DOMAIN listed = 1..n
        /\ \A i \in 1..n :
             /\ listed[i].youtubeVideoId = stored[i].youtubeVideoId
             /\ listed[i].engagementRate = Api!EngagementRate(stored[i])
    OBVIOUS
  <2> HIDE DEF listed, job, stored, n
  <2> QED BY <2>3, <2>4
<1> HIDE DEF stored, job, n
<1>3. /\ DOMAIN rows = 1..n
      /\ \A i \in 1..n : /\ rows[i].id = stored[i].youtubeVideoId
                         /\ rows[i].viewCount = stored[i].viewCount
                         /\ rows[i].likeCount = stored[i].likeCount
                         /\ rows[i].commentCount = stored[i].commentCount
  BY <1>1
<1>4. \A c \in Nat : Insights!OrZero(c) = c
  BY DEF Insights!OrZero
<1> DEFINE rate(v) == IF Insights!OrZero(v.viewCount) > 0
                      THEN <<Insights!OrZero(v.likeCount)
                               + Insights!OrZero(v.commentCount),
                             v.viewCount>>
                      ELSE <<0, 1>>
           item(v) == [id |-> v.id,
                       viewCount |-> Insights!OrZero(v.viewCount),
                       likeCount |-> Insights!OrZero(v.likeCount),
                       commentCount |-> Insights!OrZero(v.commentCount),
                       engagementRate |-> rate(v), rank |-> v.rank]
<1>5. top = [i \in DOMAIN sorted |-> item(sorted[i])]
  <2> HIDE DEF rows
  <2> QED BY Zenon DEF Insights!buildTopContent, MostViewed
<1> HIDE DEF rows, sorted, top
<1>6. \A i \in 1..n : rate(rows[i]) = Api!EngagementRate(stored[i])
  BY <1>1, <1>3, <1>4 DEF Api!EngagementRate
<1> HIDE DEF rate
<1>7. /\ DOMAIN top = DOMAIN sorted
      /\ \A i \in DOMAIN sorted : /\ top[i].id = sorted[i].id
                                  /\ top[i].engagementRate = rate(sorted[i])
  BY <1>5
<1>8. PICK m, q : /\ m \in Nat /\ IsListing(q, m, 1..n)
                  /\ sorted = [k \in 1..m |-> rows[q[k]]]
  <2>1. \A i \in 1..n : Insights!OrZero(rows[i].viewCount) \in Int
    BY <1>1, <1>3, <1>4
  <2>2. n \in Nat /\ DOMAIN rows = 1..n
    BY <1>1, <1>3
  <2>3. Selects(MostViewed(rows), rows, 1..n)
    BY Zenon, <2>1, <2>2, MostViewedSelects
  <2> QED BY <2>3 DEF Selects, sorted
<1>9. {<<top[i].id, top[i].engagementRate>> : i \in DOMAIN top} = rated
  <2>1. /\ DOMAIN top = 1..m
        /\ \A k \in 1..m : q[k] \in 1..n /\ sorted[k] = rows[q[k]]
        /\ \A i \in 1..n : \E k \in 1..m : q[k] = i
    BY <1>7, <1>8 DEF IsListing
  <2>2. \A k \in 1..m : /\ top[k].id = stored[q[k]].youtubeVideoId
                        /\ top[k].engagementRate
                             = Api!EngagementRate(stored[q[k]])
    BY <1>3, <1>6, <1>7, <2>1
  <2> QED BY <2>1, <2>2
<1> HIDE DEF rated
<1> QED
  BY Zenon, <1>2, <1>9 DEF SameRates, top, rows, stored, job

\* Of what Google answers, both ingestions make the same rows, complete and
\* without duplicates, and the scoring job is given the rates shown.
LEMMA AnswersAgree ==
    ASSUME NEW user, NEW g, IsAnswer(user, g), Null \notin Int
    PROVE  LET a == Api!ApiRows(user, g)
               w == Worker!WorkerRows(user, g)
           IN  /\ Comparable(a) = Comparable(w)
               /\ KeysDiffer(a) /\ KeysDiffer(w)
               /\ HasEveryComment(a, g.threads)
               /\ HasEveryComment(w, g.threads)
               /\ SameRates(a.videos,
                            Api!EnqueueIngestionJobs(g, 10, a.videos))
<1> DEFINE a == Api!ApiRows(user, g)
           w == Worker!WorkerRows(user, g)
           p == ApiVideos(g.videos)
           q == WorkerVideos(g.videos)
           c == Api!NormalizeChannel(g.channel.id,
                                     Api!SanitizeChannel(g.channel), user)
           e == Worker!NormalizeChannel(g.channel.id, g.channel, user)
<1>1. MadeOf(a, g, user, c, p) /\ MadeOf(w, g, user, e, q)
  BY Zenon, ApiMakes, WorkerMakes
<1>2. Comparable(a) = Comparable(w)
  BY RowsSame
<1>3. IdsOf(p, g.videos) /\ IdsOf(q, g.videos)
  BY VideosSame DEF IdsOf
<1>4. SameRates(p, Api!EnqueueIngestionJobs(g, 10, p))
  BY RatesSame DEF IsAnswer
<1> HIDE DEF a, w, p, q, c, e
<1>5. a.videos = p
  BY Zenon, <1>1 DEF MadeOf
<1>6. KeysDiffer(a) /\ HasEveryComment(a, g.threads)
  BY Zenon, <1>1, <1>3, KeysApart, CommentsThere
<1>7. KeysDiffer(w) /\ HasEveryComment(w, g.threads)
  BY Zenon, <1>1, <1>3, KeysApart, CommentsThere
<1> QED BY Zenon, <1>2, <1>4, <1>5, <1>6, <1>7 DEF a, w
=============================================================================
