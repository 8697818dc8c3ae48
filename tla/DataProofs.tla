----------------------------- MODULE DataProofs -----------------------------
(***************************************************************************)
(* Facts about data the proofs of several components need: the sum of a    *)
(* function's values over a finite set (SumFunctionOnSet: balances, open   *)
(* requests, packets), a computation of finitely many steps, arithmetic,   *)
(* and the elements of a list from which some were taken out (Vec).        *)
(* Where the argument is an induction, it is one about a least             *)
(* counterexample, among the subsets of the summed set or the naturals.    *)
(***************************************************************************)
EXTENDS Integers, Sequences, FiniteSets, Functions, Vec, FiniteSetTheorems, TLAPS

\* Among the subsets of a finite set that have some property, one has no
\* smaller subset with that property.
LEMMA LeastSubset ==
    ASSUME NEW S, IsFiniteSet(S), NEW B \in SUBSET SUBSET S, B # {}
    PROVE  \E t \in B : \A u \in SUBSET t : u # t => u \notin B
<1>1. FiniteSubsetsOf(S) = SUBSET S
  BY FS_FiniteSubsetsOfFinite
<1>2. \E x \in B : \A y \in B : ~(<<y, x>> \in StrictSubsetOrdering(S))
  BY <1>1, WFMin, FS_StrictSubsetOrderingWellFounded
<1> QED BY <1>2 DEF StrictSubsetOrdering

\* A non-empty set of naturals has a least element.
LEMMA LeastNat ==
    ASSUME NEW T \in SUBSET Nat, T # {}
    PROVE  \E n \in T : \A m \in T : n <= m
<1>1. PICK k \in T : TRUE
  OBVIOUS
<1> DEFINE B == {0..j : j \in T \cap 0..k}
<1>2. IsFiniteSet(0..k)
  BY <1>1, FS_Interval
<1>3. B \in SUBSET SUBSET (0..k)
  BY <1>1
<1>4. 0..k \in B
  BY <1>1
<1>5. PICK t \in B : \A u \in SUBSET t : u # t => u \notin B
  <2> DEFINE K == 0..k
  <2>1. B # {} /\ IsFiniteSet(K) /\ B \in SUBSET SUBSET K
    BY <1>2, <1>3, <1>4
  <2> HIDE DEF B, K
  <2> QED BY <2>1, LeastSubset
<1>6. PICK n \in T \cap 0..k : t = 0..n
  OBVIOUS
<1>7. ASSUME NEW m \in T, m < n PROVE FALSE
  <2>1. 0..m \in SUBSET t /\ 0..m # t
    BY <1>6, <1>7
  <2>2. 0..m \in B
    BY <1>1, <1>6, <1>7
  <2> QED BY <1>5, <2>1, <2>2
<1>8. \A m \in T : n <= m
  BY <1>7, <1>6
<1> QED BY <1>6, <1>8

\* What holds at 0 and is kept from each number to the next holds up to N.
LEMMA UpTo ==
    ASSUME NEW N \in Nat, NEW B, 0 \in B, \A n \in 1..N : n - 1 \in B => n \in B
    PROVE  \A n \in 0..N : n \in B
<1> DEFINE Bad == {n \in 0..N : n \notin B}
<1> SUFFICES ASSUME Bad # {} PROVE FALSE
  OBVIOUS
<1>1. PICK n \in Bad : \A m \in Bad : n <= m
  <2>1. Bad \in SUBSET Nat
    OBVIOUS
  <2> HIDE DEF Bad
  <2> QED BY <2>1, LeastNat
<1>2. n \in 1..N /\ n - 1 \in 0..N /\ n - 1 < n
  OBVIOUS
<1>3. n - 1 \notin Bad
  BY ONLY <1>1, <1>2
<1> QED BY <1>2, <1>3

\* g holds the values of a computation that starts with base and makes N steps.
Computes(g, base, step, N) ==
    /\ g = [n \in 0..N |-> g[n]]
    /\ g[0] = base
    /\ \A n \in 1..N : g[n] = step[n][g[n - 1]]

\* A computation of finitely many steps within T exists.
LEMMA StepsExist ==
    ASSUME NEW T, NEW base \in T, NEW step \in [Nat -> [T -> T]], NEW N \in Nat
    PROVE  \E g : g \in [0..N -> T] /\ Computes(g, base, step, N)
<1> DEFINE Solves(g, k) == /\ g \in [0..k -> T]
                           /\ g[0] = base
                           /\ \A n \in 1..k : g[n] = step[n][g[n - 1]]
           Bad == {k \in Nat : ~\E g : Solves(g, k)}
<1> SUFFICES Bad = {}
  <2>1. \E g : Solves(g, N)
    OBVIOUS
  <2> QED BY <2>1 DEF Computes
<1> SUFFICES ASSUME Bad # {} PROVE FALSE
  OBVIOUS
<1>1. PICK k \in Bad : \A m \in Bad : k <= m
  <2>1. Bad \in SUBSET Nat
    OBVIOUS
  <2> HIDE DEF Bad
  <2> QED BY <2>1, LeastNat
<1>2. CASE k = 0
  <2>1. Solves([n \in 0..0 |-> base], 0)
    OBVIOUS
  <2> QED BY <1>2, <2>1
<1>3. CASE k # 0
  <2>1. k \in Nat /\ k - 1 \in Nat
    BY <1>3
  <2>2. k - 1 \notin Bad
    <3> HIDE DEF Bad
    <3> QED BY <1>1, <2>1
  <2>3. PICK g : Solves(g, k - 1)
    BY <2>1, <2>2
  <2> DEFINE h == [n \in 0..k |-> IF n = k THEN step[k][g[k - 1]] ELSE g[n]]
  <2>4. step[k][g[k - 1]] \in T
    BY <2>1, <2>3
  <2>5. h \in [0..k -> T]
    BY <2>1, <2>3, <2>4
  <2>6. h[0] = base
    BY <1>3, <2>1, <2>3
  <2>7. ASSUME NEW n \in 1..k PROVE h[n] = step[n][h[n - 1]]
    <3>1. h[n - 1] = g[n - 1]
      BY <2>1, <2>7
    <3>2. CASE n = k
      <4>1. h[n] = step[k][g[k - 1]]
        BY <3>2
      <4>2. h[n - 1] = g[k - 1]
        BY <3>1, <3>2
      <4> HIDE DEF h
      <4> QED BY ONLY <3>2, <4>1, <4>2
    <3>3. CASE n # k
      <4>1. n \in 1..(k - 1)
        BY <2>1, <3>3
      <4>2. h[n] = g[n]
        BY <2>1, <3>3, <4>1
      <4>3. g[n] = step[n][g[n - 1]]
        BY <2>3, <4>1
      <4> QED BY <3>1, <4>2, <4>3
    <3> QED BY <3>2, <3>3
  <2>8. Solves(h, k)
    BY <2>5, <2>6, <2>7
  <2> QED BY <2>8
<1> QED BY <1>2, <1>3

Pick(s) == CHOOSE x \in s : TRUE

Sums(f, S) ==
    CHOOSE g : g = [s \in SUBSET S |->
        IF s = {} THEN 0 ELSE f[Pick(s)] + g[s \ {Pick(s)}]]

\* SumFunctionOnSet unfolded.
LEMMA SumUnfolded ==
    ASSUME NEW f, NEW S
    PROVE  SumFunctionOnSet(f, S) = Sums(f, S)[S]
BY DEF SumFunctionOnSet, FoldFunctionOnSet, MapThenFoldSet, Sums, Pick

\* The recursion of SumFunctionOnSet has a solution on the subsets of a finite set.
LEMMA SumsExist ==
    ASSUME NEW f, NEW S, IsFiniteSet(S)
    PROVE  /\ Sums(f, S)[{}] = 0
           /\ \A s \in SUBSET S : s # {} =>
                  Sums(f, S)[s] = f[Pick(s)] + Sums(f, S)[s \ {Pick(s)}]
<1> DEFINE Step(g, s) == IF s = {} THEN 0 ELSE f[Pick(s)] + g[s \ {Pick(s)}]
           Solves(g, n) == /\ g = [s \in SUBSET S |-> g[s]]
                           /\ \A s \in SUBSET S : Cardinality(s) <= n => g[s] = Step(g, s)
           Bad == {n \in Nat : ~\E g : Solves(g, n)}
<1>1. \A s \in SUBSET S : IsFiniteSet(s) /\ Cardinality(s) \in Nat
                          /\ Cardinality(s) <= Cardinality(S)
  BY FS_Subset, FS_CardinalityType
<1>2. \A s \in SUBSET S : Cardinality(s) = 0 <=> s = {}
  BY <1>1, FS_EmptySet
<1>3. \A s \in SUBSET S : s # {} =>
          /\ Pick(s) \in s /\ s \ {Pick(s)} \in SUBSET S
          /\ Cardinality(s \ {Pick(s)}) = Cardinality(s) - 1
  <2> SUFFICES ASSUME NEW s \in SUBSET S, s # {}
               PROVE  /\ Pick(s) \in s /\ s \ {Pick(s)} \in SUBSET S
                      /\ Cardinality(s \ {Pick(s)}) = Cardinality(s) - 1
    OBVIOUS
  <2>1. Pick(s) \in s
    BY DEF Pick
  <2> QED BY <1>1, <2>1, FS_RemoveElement
<1>4. Bad = {}
  <2> SUFFICES ASSUME Bad # {} PROVE FALSE
    OBVIOUS
  <2>1. PICK n \in Bad : \A m \in Bad : n <= m
    <3> HIDE DEF Bad
    <3>1. Bad \in SUBSET Nat
      BY DEF Bad
    <3> QED BY <3>1, LeastNat
  <2>2. CASE n = 0
    <3> DEFINE g == [s \in SUBSET S |-> 0]
    <3>1. Solves(g, 0)
      BY <1>1, <1>2
    <3> QED BY <2>2, <3>1
  <2>3. CASE n # 0
    <3>1. n - 1 \in Nat /\ n - 1 \notin Bad
      <4>1. n \in Nat
        OBVIOUS
      <4> HIDE DEF Bad
      <4>2. n - 1 \in Nat /\ ~(n <= n - 1)
        BY <4>1, <2>3
      <4> QED BY <2>1, <4>2
    <3>2. PICK g : Solves(g, n - 1)
      BY <3>1
    <3> DEFINE h == [s \in SUBSET S |-> Step(g, s)]
    <3>3. ASSUME NEW s \in SUBSET S, Cardinality(s) <= n
          PROVE  h[s] = Step(h, s)
      <4>1. CASE s = {}
        BY <4>1
      <4>2. CASE s # {}
        <5>1. Cardinality(s \ {Pick(s)}) <= n - 1
          BY <1>1, <1>3, <3>1, <3>3, <4>2
        <5>2. h[s \ {Pick(s)}] = g[s \ {Pick(s)}]
          BY <1>3, <3>2, <4>2, <5>1
        <5> QED BY <4>2, <5>2
      <4> QED BY <4>1, <4>2
    <3>4. Solves(h, n)
      BY <3>3
    <3> QED BY <3>4
  <2> QED BY <2>2, <2>3
<1>5. PICK g : Solves(g, Cardinality(S))
  BY <1>1, <1>4
<1>6. \A s \in SUBSET S : g[s] = Step(g, s)
  BY <1>1, <1>5
<1>7. g = [s \in SUBSET S |-> Step(g, s)]
  BY <1>5, <1>6
<1>8. Sums(f, S) = [s \in SUBSET S |-> Step(Sums(f, S), s)]
  BY <1>7 DEF Sums
<1> HIDE DEF Sums
<1>9. \A s \in SUBSET S : Sums(f, S)[s] = Step(Sums(f, S), s)
  BY <1>8
<1> QED BY <1>9

\* Sums of integers are integers.
LEMMA SumsInt ==
    ASSUME NEW f, NEW S, IsFiniteSet(S), \A x \in S : f[x] \in Int
    PROVE  \A s \in SUBSET S : Sums(f, S)[s] \in Int
<1> DEFINE Bad == {s \in SUBSET S : Sums(f, S)[s] \notin Int}
<1> SUFFICES ASSUME Bad # {} PROVE FALSE
  OBVIOUS
<1>1. PICK s \in Bad : \A u \in SUBSET s : u # s => u \notin Bad
  <2>1. Bad \in SUBSET SUBSET S
    OBVIOUS
  <2> HIDE DEF Bad
  <2> QED BY <2>1, LeastSubset
<1>2. /\ s \in SUBSET S /\ Sums(f, S)[s] \notin Int
      /\ \A u \in SUBSET s : u # s => Sums(f, S)[u] \in Int
  BY <1>1
<1> HIDE DEF Bad
<1>3. /\ Sums(f, S)[{}] = 0
      /\ s # {} => Sums(f, S)[s] = f[Pick(s)] + Sums(f, S)[s \ {Pick(s)}]
  BY <1>2, SumsExist
<1>4. s # {}
  <2>1. Sums(f, S)[{}] \in Int
    BY <1>3
  <2> QED BY ONLY <1>2, <2>1
<1>5. Pick(s) \in s
  BY <1>4 DEF Pick
<1>6. Sums(f, S)[s \ {Pick(s)}] \in Int /\ f[Pick(s)] \in Int
  BY <1>2, <1>5
<1> QED BY <1>2, <1>3, <1>4, <1>6

\* Any element may be added last.
LEMMA SumsAnyOrder ==
    ASSUME NEW f, NEW S, IsFiniteSet(S), \A x \in S : f[x] \in Int
    PROVE  \A s \in SUBSET S : \A x \in s :
               Sums(f, S)[s] = f[x] + Sums(f, S)[s \ {x}]
<1> DEFINE Bad == {s \in SUBSET S :
                      \E x \in s : Sums(f, S)[s] # f[x] + Sums(f, S)[s \ {x}]}
<1> SUFFICES ASSUME Bad # {} PROVE FALSE
  OBVIOUS
<1>1. PICK s \in Bad : \A u \in SUBSET s : u # s => u \notin Bad
  <2>1. Bad \in SUBSET SUBSET S
    OBVIOUS
  <2> HIDE DEF Bad
  <2> QED BY <2>1, LeastSubset
<1>2. PICK x \in s : Sums(f, S)[s] # f[x] + Sums(f, S)[s \ {x}]
  OBVIOUS
<1>3. /\ s \in SUBSET S
      /\ \A u \in SUBSET s : u # s =>
             \A z \in u : Sums(f, S)[u] = f[z] + Sums(f, S)[u \ {z}]
  BY <1>1
<1> HIDE DEF Bad
<1> DEFINE y == Pick(s)
<1>4. y \in s /\ Sums(f, S)[s] = f[y] + Sums(f, S)[s \ {y}]
  BY <1>2, <1>3, SumsExist DEF Pick
<1> HIDE DEF y
<1>5. x # y
  BY <1>2, <1>4
<1>6. /\ s \ {y} \in SUBSET s /\ s \ {y} # s /\ x \in s \ {y}
      /\ s \ {x} \in SUBSET s /\ s \ {x} # s /\ y \in s \ {x}
  BY <1>2, <1>4, <1>5
<1>7. (s \ {y}) \ {x} = (s \ {x}) \ {y}
  OBVIOUS
<1>8. Sums(f, S)[s \ {y}] = f[x] + Sums(f, S)[(s \ {x}) \ {y}]
  <2>1. Sums(f, S)[s \ {y}] = f[x] + Sums(f, S)[(s \ {y}) \ {x}]
    BY <1>3, <1>6
  <2> QED BY ONLY <1>7, <2>1
<1>9. Sums(f, S)[s \ {x}] = f[y] + Sums(f, S)[(s \ {x}) \ {y}]
  BY <1>3, <1>6
<1>10. /\ f[x] \in Int /\ f[y] \in Int
       /\ Sums(f, S)[(s \ {x}) \ {y}] \in Int
  BY <1>2, <1>3, <1>4, SumsInt
<1> QED BY <1>2, <1>4, <1>8, <1>9, <1>10

\* A sum depends on the values summed only.
LEMMA SumsLocal ==
    ASSUME NEW f, NEW g, NEW S, IsFiniteSet(S), NEW T \in SUBSET S,
           \A x \in T : f[x] = g[x]
    PROVE  \A t \in SUBSET T : Sums(g, T)[t] = Sums(f, S)[t]
<1> DEFINE Bad == {t \in SUBSET T : Sums(g, T)[t] # Sums(f, S)[t]}
<1> SUFFICES ASSUME Bad # {} PROVE FALSE
  OBVIOUS
<1>1. IsFiniteSet(T)
  BY FS_Subset
<1>2. PICK t \in Bad : \A u \in SUBSET t : u # t => u \notin Bad
  <2>1. Bad \in SUBSET SUBSET T
    OBVIOUS
  <2> HIDE DEF Bad
  <2> QED BY <1>1, <2>1, LeastSubset
<1>3. /\ t \in SUBSET T /\ t \in SUBSET S /\ Sums(g, T)[t] # Sums(f, S)[t]
      /\ \A u \in SUBSET t : u # t => Sums(g, T)[u] = Sums(f, S)[u]
  BY <1>2
<1> HIDE DEF Bad
<1>4. /\ Sums(g, T)[{}] = 0
      /\ t # {} => Sums(g, T)[t] = g[Pick(t)] + Sums(g, T)[t \ {Pick(t)}]
  <2>1. /\ Sums(g, T)[{}] = 0
        /\ \A s \in SUBSET T : s # {} =>
               Sums(g, T)[s] = g[Pick(s)] + Sums(g, T)[s \ {Pick(s)}]
    BY ONLY <1>1, SumsExist
  <2> QED BY <1>3, <2>1
<1>5. /\ Sums(f, S)[{}] = 0
      /\ t # {} => Sums(f, S)[t] = f[Pick(t)] + Sums(f, S)[t \ {Pick(t)}]
  BY <1>3, SumsExist
<1>6. t # {} /\ Pick(t) \in t
  <2>1. t # {}
    BY <1>3, <1>4, <1>5
  <2> QED BY <2>1 DEF Pick
<1>7. Sums(g, T)[t \ {Pick(t)}] = Sums(f, S)[t \ {Pick(t)}]
  BY <1>3, <1>6
<1> QED BY <1>3, <1>4, <1>5, <1>6, <1>7

-----------------------------------------------------------------------------
\* The sum of nothing is 0.
LEMMA SumEmpty ==
    ASSUME NEW f
    PROVE  SumFunctionOnSet(f, {}) = 0
BY SumUnfolded, SumsExist, FS_EmptySet

\* A sum of integers is an integer.
LEMMA SumInt ==
    ASSUME NEW f, NEW S, IsFiniteSet(S), \A x \in S : f[x] \in Int
    PROVE  SumFunctionOnSet(f, S) \in Int
BY SumUnfolded, SumsInt

\* One element less.
LEMMA SumRemove ==
    ASSUME NEW f, NEW S, IsFiniteSet(S), \A x \in S : f[x] \in Int, NEW x \in S
    PROVE  SumFunctionOnSet(f, S \ {x}) = SumFunctionOnSet(f, S) - f[x]
<1>1. Sums(f, S)[S] = f[x] + Sums(f, S)[S \ {x}]
  BY SumsAnyOrder
<1>2. Sums(f, S \ {x})[S \ {x}] = Sums(f, S)[S \ {x}]
  BY SumsLocal
<1>3. Sums(f, S)[S \ {x}] \in Int /\ f[x] \in Int
  BY SumsInt
<1> QED BY <1>1, <1>2, <1>3, SumUnfolded

\* One element more.
LEMMA SumAdd ==
    ASSUME NEW f, NEW S, IsFiniteSet(S), NEW x, x \notin S,
           \A y \in S \cup {x} : f[y] \in Int
    PROVE  SumFunctionOnSet(f, S \cup {x}) = SumFunctionOnSet(f, S) + f[x]
<1>1. IsFiniteSet(S \cup {x})
  BY FS_AddElement
<1>2. (S \cup {x}) \ {x} = S
  OBVIOUS
<1>3. SumFunctionOnSet(f, S) = SumFunctionOnSet(f, S \cup {x}) - f[x]
  BY <1>1, <1>2, SumRemove
<1>4. SumFunctionOnSet(f, S \cup {x}) \in Int
  BY <1>1, SumInt
<1> QED BY <1>3, <1>4

\* Functions that agree on S have the same sum over it.
LEMMA SumSame ==
    ASSUME NEW f, NEW g, NEW S, IsFiniteSet(S), \A x \in S : f[x] = g[x]
    PROVE  SumFunctionOnSet(f, S) = SumFunctionOnSet(g, S)
BY SumsLocal, SumUnfolded

\* A sum of naturals is a natural.
LEMMA SumNat ==
    ASSUME NEW f, NEW S, IsFiniteSet(S), \A x \in S : f[x] \in Nat
    PROVE  SumFunctionOnSet(f, S) \in Nat
<1> DEFINE Bad == {s \in SUBSET S : SumFunctionOnSet(f, s) \notin Nat}
<1> SUFFICES ASSUME Bad # {} PROVE FALSE
  OBVIOUS
<1>1. PICK s \in Bad : \A u \in SUBSET s : u # s => u \notin Bad
  <2>1. Bad \in SUBSET SUBSET S
    OBVIOUS
  <2> HIDE DEF Bad
  <2> QED BY <2>1, LeastSubset
<1>2. /\ s \in SUBSET S /\ SumFunctionOnSet(f, s) \notin Nat
      /\ \A u \in SUBSET s : u # s => SumFunctionOnSet(f, u) \in Nat
  BY <1>1
<1> HIDE DEF Bad
<1>3. PICK x \in s : f[x] \in Nat
  <2>1. SumFunctionOnSet(f, {}) \in Nat
    BY SumEmpty
  <2>2. s # {}
    BY ONLY <1>2, <2>1
  <2> QED BY <1>2, <2>2
<1>4. IsFiniteSet(s) /\ \A y \in s : f[y] \in Int
  BY <1>2, FS_Subset
<1>5. SumFunctionOnSet(f, s \ {x}) = SumFunctionOnSet(f, s) - f[x]
  BY <1>2, <1>4, SumRemove
<1>6. SumFunctionOnSet(f, s \ {x}) \in Nat
  BY <1>2, <1>3
<1>7. SumFunctionOnSet(f, s) \in Int
  BY <1>2, <1>4, SumInt
<1> QED BY <1>2, <1>3, <1>5, <1>6, <1>7

\* The sum over two sets without a common element.
LEMMA SumUnion ==
    ASSUME NEW f, NEW S, IsFiniteSet(S), NEW T, IsFiniteSet(T), S \cap T = {},
           \A x \in S \cup T : f[x] \in Int
    PROVE  SumFunctionOnSet(f, S \cup T) =
               SumFunctionOnSet(f, S) + SumFunctionOnSet(f, T)
<1> DEFINE Bad == {t \in SUBSET T :
                      SumFunctionOnSet(f, S \cup t) #
                          SumFunctionOnSet(f, S) + SumFunctionOnSet(f, t)}
<1> SUFFICES ASSUME Bad # {} PROVE FALSE
  OBVIOUS
<1>1. PICK t \in Bad : \A u \in SUBSET t : u # t => u \notin Bad
  <2>1. Bad \in SUBSET SUBSET T
    OBVIOUS
  <2> HIDE DEF Bad
  <2> QED BY <2>1, LeastSubset
<1>2. /\ t \in SUBSET T
      /\ SumFunctionOnSet(f, S \cup t) #
             SumFunctionOnSet(f, S) + SumFunctionOnSet(f, t)
      /\ \A u \in SUBSET t : u # t =>
             SumFunctionOnSet(f, S \cup u) =
                 SumFunctionOnSet(f, S) + SumFunctionOnSet(f, u)
  BY <1>1
<1> HIDE DEF Bad
<1>3. SumFunctionOnSet(f, S) \in Int
  BY SumInt
<1>4. t # {}
  <2>1. SumFunctionOnSet(f, S \cup {}) =
            SumFunctionOnSet(f, S) + SumFunctionOnSet(f, {})
    <3>1. S \cup {} = S
      OBVIOUS
    <3> QED BY <3>1, <1>3, SumEmpty
  <2> QED BY <2>1, <1>2
<1>5. PICK x \in t : x \notin S
  BY <1>2, <1>4
<1>6. /\ IsFiniteSet(t) /\ IsFiniteSet(S \cup t)
      /\ \A y \in S \cup t : f[y] \in Int
  BY <1>2, FS_Subset, FS_Union
<1>7. SumFunctionOnSet(f, t \ {x}) = SumFunctionOnSet(f, t) - f[x]
  BY <1>2, <1>6, SumRemove
<1>8. (S \cup t) \ {x} = S \cup (t \ {x})
  BY <1>5
<1>9. SumFunctionOnSet(f, (S \cup t) \ {x}) = SumFunctionOnSet(f, S \cup t) - f[x]
  BY <1>2, <1>6, SumRemove
<1>10. SumFunctionOnSet(f, S \cup (t \ {x})) =
           SumFunctionOnSet(f, S) + SumFunctionOnSet(f, t \ {x})
  BY <1>2, <1>5
<1>11. SumFunctionOnSet(f, t) \in Int /\ SumFunctionOnSet(f, S \cup t) \in Int
  BY <1>2, <1>6, SumInt
<1>12. f[x] \in Int
  BY <1>2, <1>5
<1> QED BY <1>2, <1>3, <1>7, <1>8, <1>9, <1>10, <1>11, <1>12

\* A part of naturals is at most their whole.
LEMMA SumPart ==
    ASSUME NEW f, NEW S, IsFiniteSet(S), NEW T \in SUBSET S,
           \A x \in S : f[x] \in Nat
    PROVE  /\ SumFunctionOnSet(f, S) =
                  SumFunctionOnSet(f, T) + SumFunctionOnSet(f, S \ T)
           /\ SumFunctionOnSet(f, T) <= SumFunctionOnSet(f, S)
<1>1. IsFiniteSet(T) /\ IsFiniteSet(S \ T)
  BY FS_Subset, FS_Difference
<1>2. T \cup (S \ T) = S /\ T \cap (S \ T) = {}
  OBVIOUS
<1>3. SumFunctionOnSet(f, T) \in Nat /\ SumFunctionOnSet(f, S \ T) \in Nat
  BY <1>1, SumNat
<1>4. SumFunctionOnSet(f, T \cup (S \ T)) =
          SumFunctionOnSet(f, T) + SumFunctionOnSet(f, S \ T)
  BY <1>1, <1>2, SumUnion
<1>5. SumFunctionOnSet(f, S) =
          SumFunctionOnSet(f, T) + SumFunctionOnSet(f, S \ T)
  BY <1>2, <1>4
<1> QED BY <1>3, <1>5

\* One value changed.
LEMMA SumUpdate ==
    ASSUME NEW f, NEW g, NEW S, IsFiniteSet(S), NEW x \in S,
           \A y \in S : f[y] \in Int /\ g[y] \in Int,
           \A y \in S : y # x => g[y] = f[y]
    PROVE  SumFunctionOnSet(g, S) = SumFunctionOnSet(f, S) - f[x] + g[x]
<1>1. SumFunctionOnSet(f, S \ {x}) = SumFunctionOnSet(f, S) - f[x]
  BY SumRemove
<1>2. SumFunctionOnSet(g, S \ {x}) = SumFunctionOnSet(g, S) - g[x]
  BY SumRemove
<1>3. SumFunctionOnSet(f, S \ {x}) = SumFunctionOnSet(g, S \ {x})
  BY SumSame, FS_RemoveElement
<1>4. SumFunctionOnSet(f, S) \in Int /\ SumFunctionOnSet(g, S) \in Int
  BY SumInt
<1> QED BY <1>1, <1>2, <1>3, <1>4

\* What has a place of its own in T, and is at most what stands there, sums up to at
\* most the sum over T.
LEMMA SumInjected ==
    ASSUME NEW f, NEW g, NEW S, IsFiniteSet(S), NEW T, IsFiniteSet(T),
           NEW m \in [S -> T], \A x, y \in S : m[x] = m[y] => x = y,
           \A x \in S : f[x] \in Nat /\ f[x] <= g[m[x]],
           \A y \in T : g[y] \in Nat
    PROVE  SumFunctionOnSet(f, S) <= SumFunctionOnSet(g, T)
<1> DEFINE Places(s) == {y \in T : \E x \in s : m[x] = y}
           Below(s) == SumFunctionOnSet(f, s) <= SumFunctionOnSet(g, Places(s))
           Bad == {s \in SUBSET S : ~Below(s)}
<1>1. \A s \in SUBSET S : /\ IsFiniteSet(s) /\ IsFiniteSet(Places(s))
                          /\ Places(s) \in SUBSET T
                          /\ SumFunctionOnSet(f, s) \in Nat
                          /\ SumFunctionOnSet(g, Places(s)) \in Nat
  <2> SUFFICES ASSUME NEW s \in SUBSET S
               PROVE  /\ IsFiniteSet(s) /\ IsFiniteSet(Places(s))
                      /\ Places(s) \in SUBSET T
                      /\ SumFunctionOnSet(f, s) \in Nat
                      /\ SumFunctionOnSet(g, Places(s)) \in Nat
    OBVIOUS
  <2>1. Places(s) \in SUBSET T
    OBVIOUS
  <2> HIDE DEF Places
  <2>2. IsFiniteSet(s) /\ IsFiniteSet(Places(s))
    BY <2>1, FS_Subset
  <2>3. \A x \in s : f[x] \in Nat
    OBVIOUS
  <2>4. \A y \in Places(s) : g[y] \in Nat
    BY <2>1
  <2> QED BY <2>1, <2>2, <2>3, <2>4, SumNat
<1>2. Bad = {}
  <2> SUFFICES ASSUME Bad # {} PROVE FALSE
    OBVIOUS
  <2>1. PICK s \in Bad : \A u \in SUBSET s : u # s => u \notin Bad
    <3>1. Bad \in SUBSET SUBSET S
      OBVIOUS
    <3> HIDE DEF Bad
    <3> QED BY <3>1, LeastSubset
  <2>2. /\ s \in SUBSET S /\ ~Below(s)
        /\ \A u \in SUBSET s : u # s => Below(u)
    <3> HIDE DEF Below
    <3> QED BY <2>1
  <2> HIDE DEF Bad
  <2>3. s # {}
    <3>1. Places({}) = {}
      OBVIOUS
    <3>2. Below({})
      BY <3>1, SumEmpty
    <3> HIDE DEF Below
    <3> QED BY <2>2, <3>2
  <2>4. PICK x \in s : TRUE
    BY <2>3
  <2> DEFINE r == s \ {x}
  <2>5. r \in SUBSET s /\ r # s /\ r \in SUBSET S /\ x \in S /\ m[x] \in T
    BY <2>2, <2>4
  <2>6. Below(r)
    <3> HIDE DEF Below, r
    <3> QED BY <2>2, <2>5
  <2>7. Places(r) = Places(s) \ {m[x]} /\ m[x] \in Places(s)
    BY <2>2, <2>4, <2>5
  <2>8. /\ IsFiniteSet(s) /\ IsFiniteSet(Places(s)) /\ Places(s) \in SUBSET T
        /\ SumFunctionOnSet(f, s) \in Nat /\ SumFunctionOnSet(f, r) \in Nat
        /\ SumFunctionOnSet(g, Places(s)) \in Nat
        /\ SumFunctionOnSet(g, Places(r)) \in Nat
    <3> HIDE DEF Places, r
    <3> QED BY <1>1, <2>2, <2>5
  <2>9. SumFunctionOnSet(f, r) = SumFunctionOnSet(f, s) - f[x]
    <3>1. \A y \in s : f[y] \in Int
      BY <2>2
    <3> QED BY <2>4, <2>8, <3>1, SumRemove
  <2>10. SumFunctionOnSet(g, Places(r)) = SumFunctionOnSet(g, Places(s)) - g[m[x]]
    <3> HIDE DEF Places, r
    <3>1. \A y \in Places(s) : g[y] \in Int
      BY <2>8
    <3> QED BY <2>7, <2>8, <3>1, SumRemove
  <2>11. f[x] \in Nat /\ g[m[x]] \in Nat /\ f[x] <= g[m[x]]
    BY <2>5
  <2>12. SumFunctionOnSet(f, r) <= SumFunctionOnSet(g, Places(r))
    BY <2>6
  <2>13. ~(SumFunctionOnSet(f, s) <= SumFunctionOnSet(g, Places(s)))
    BY <2>2
  <2> HIDE DEF Below, Places, r
  <2> QED BY <2>8, <2>9, <2>10, <2>11, <2>12, <2>13
<1>3. Below(S)
  <2> HIDE DEF Below
  <2> QED BY <1>2
<1>4. SumFunctionOnSet(g, Places(S)) <= SumFunctionOnSet(g, T)
  <2>1. Places(S) \in SUBSET T
    OBVIOUS
  <2> HIDE DEF Places
  <2> QED BY <2>1, SumPart
<1>5. S \in SUBSET S /\ SumFunctionOnSet(g, T) \in Nat
  BY SumNat
<1>6. SumFunctionOnSet(f, S) \in Nat /\ SumFunctionOnSet(g, Places(S)) \in Nat
  <2> HIDE DEF Places
  <2> QED BY <1>1, <1>5
<1> HIDE DEF Places
<1> QED BY <1>3, <1>4, <1>5, <1>6

\* A sum of zeros.
LEMMA SumZero ==
    ASSUME NEW f, NEW S, IsFiniteSet(S), \A x \in S : f[x] = 0
    PROVE  SumFunctionOnSet(f, S) = 0
<1> DEFINE Bad == {s \in SUBSET S : SumFunctionOnSet(f, s) # 0}
<1> SUFFICES ASSUME Bad # {} PROVE FALSE
  OBVIOUS
<1>1. PICK s \in Bad : \A u \in SUBSET s : u # s => u \notin Bad
  <2>1. Bad \in SUBSET SUBSET S
    OBVIOUS
  <2> HIDE DEF Bad
  <2> QED BY <2>1, LeastSubset
<1>2. s \in SUBSET S /\ SumFunctionOnSet(f, s) # 0 /\ IsFiniteSet(s)
  BY FS_Subset
<1>3. PICK x \in s : TRUE
  BY <1>2, SumEmpty
<1>4. SumFunctionOnSet(f, s \ {x}) = 0
  <2>1. s \ {x} \in SUBSET s /\ s \ {x} # s /\ s \ {x} \in SUBSET S
    BY <1>2, <1>3
  <2> QED BY <1>1, <2>1
<1>5. \A y \in s : f[y] = 0 /\ f[y] \in Int
  BY <1>2
<1>6. SumFunctionOnSet(f, s \ {x}) = SumFunctionOnSet(f, s) - f[x]
  BY <1>2, <1>3, <1>5, SumRemove
<1>7. SumFunctionOnSet(f, s) \in Int
  BY <1>2, <1>5, SumInt
<1> QED BY <1>2, <1>3, <1>4, <1>5, <1>6, <1>7

-----------------------------------------------------------------------------
\* A quotient of naturals by a positive one is a natural.
LEMMA DivNat == \A a \in Nat, b \in Nat \ {0} : a \div b \in Nat
  OBVIOUS

\* A product of naturals is a natural.
LEMMA MulNat == \A a, b \in Nat : a * b \in Nat
  OBVIOUS

\* Integer division rounds down.
LEMMA DivLower == \A a \in Nat, b \in Nat \ {0} : (a \div b) * b <= a
  OBVIOUS

\* A product is monotone.
LEMMA MulMono == \A a, b, c \in Nat : a <= b => a * c <= b * c
  OBVIOUS

\* A quotient by c of at most b * c is at most b; one of at least b * c is at
\* least b.
LEMMA DivBound ==
    ASSUME NEW a \in Nat, NEW b \in Nat, NEW c \in Nat \ {0}
    PROVE  /\ a <= b * c => a \div c <= b
           /\ b * c <= a => b <= a \div c
  OBVIOUS

\* Products distribute over sums and differences.
LEMMA MulDistr ==
    \A a, b, c \in Int : (a + b) * c = a * c + b * c /\ (a - b) * c = a * c - b * c
  OBVIOUS

-----------------------------------------------------------------------------
\* What is in a list.
Elements(w) == {w[i] : i \in DOMAIN w}

\* A sequence as a function.
LEMMA SeqFunction ==
    ASSUME NEW S, NEW w \in Seq(S)
    PROVE  /\ Len(w) \in Nat /\ DOMAIN w = 1..Len(w) /\ w \in [1..Len(w) -> S]
           /\ \A i \in 1..Len(w) : w[i] \in S
  OBVIOUS

\* A sequence whose elements are in another set is one over that set.
LEMMA SeqRetyped ==
    ASSUME NEW S, NEW w \in Seq(S), NEW T, \A i \in 1..Len(w) : w[i] \in T
    PROVE  w \in Seq(T)
<1>1. w \in [1..Len(w) -> T] /\ Len(w) \in Nat
  OBVIOUS
<1> QED BY <1>1

\* Appending keeps a sequence's element type.
LEMMA AppendTyped ==
   ASSUME NEW S, NEW s \in Seq(S), NEW e \in S
   PROVE  Append(s, e) \in Seq(S)
  OBVIOUS

\* One more element at the end of a list.
LEMMA AppendElements ==
    ASSUME NEW S, NEW w \in Seq(S), NEW x \in S
    PROVE  /\ Append(w, x) \in Seq(S)
           /\ Elements(Append(w, x)) = Elements(w) \cup {x}
           /\ IsInjective(w) /\ x \notin Elements(w) => IsInjective(Append(w, x))
<1>1. /\ DOMAIN Append(w, x) = DOMAIN w \cup {Len(w) + 1}
      /\ \A i \in DOMAIN w : Append(w, x)[i] = w[i]
      /\ Append(w, x)[Len(w) + 1] = x
      /\ Append(w, x) \in Seq(S)
  OBVIOUS
<1> DEFINE a == Append(w, x)
<1> HIDE DEF a
<1>2. Elements(a) = Elements(w) \cup {x}
  BY <1>1 DEF Elements, a
<1>3. IsInjective(w) /\ x \notin Elements(w) => IsInjective(a)
  BY <1>1 DEF Elements, IsInjective, a
<1> QED BY <1>1, <1>2, <1>3 DEF a

\* A list that holds nothing twice is as long as what it holds is many.
LEMMA InjectiveCounts ==
    ASSUME NEW S, NEW w \in Seq(S), IsInjective(w)
    PROVE  IsFiniteSet(Elements(w)) /\ Cardinality(Elements(w)) = Len(w)
<1>1. DOMAIN w = 1..Len(w) /\ Len(w) \in Nat
  OBVIOUS
<1>2. w \in Bijection(1..Len(w), Elements(w))
  <2>1. w \in [1..Len(w) -> Elements(w)]
    BY <1>1 DEF Elements
  <2>2. \A i, j \in 1..Len(w) : w[i] = w[j] => i = j
    BY <1>1 DEF IsInjective
  <2>3. \A y \in Elements(w) : \E i \in 1..Len(w) : w[i] = y
    BY <1>1 DEF Elements
  <2> QED BY <2>1, <2>2, <2>3 DEF Bijection, Injection, Surjection, IsInjective
<1>3. IsFiniteSet(1..Len(w)) /\ Cardinality(1..Len(w)) = Len(w)
  BY <1>1, FS_Interval
<1>4. ExistsBijection(1..Len(w), Elements(w))
  BY <1>2 DEF ExistsBijection
<1> QED BY <1>3, <1>4, FS_Bijection

\* RetainOutside is computed from the front, element by element.
LEMMA OutsideUnfolded ==
    ASSUME NEW S, NEW vec \in Seq(S), NEW gone
    PROVE  \E kept : /\ RetainOutside(vec, gone) = kept[Len(vec)]
                     /\ kept[0] = <<>>
                     /\ \A n \in 1..Len(vec) :
                            kept[n] = IF vec[n] \in gone THEN kept[n - 1]
                                                    ELSE Append(kept[n - 1], vec[n])
<1> DEFINE N == Len(vec)
           Next1(g, n) == IF vec[n] \in gone THEN g[n - 1] ELSE Append(g[n - 1], vec[n])
           Kept == CHOOSE g : g = [n \in 0..N |-> IF n = 0 THEN <<>> ELSE Next1(g, n)]
           step == [n \in Nat |-> [v \in Seq(S) |->
                       IF n \in 1..N /\ vec[n] \notin gone THEN Append(v, vec[n]) ELSE v]]
<1>1. N \in Nat /\ \A n \in 1..N : vec[n] \in S
  OBVIOUS
<1>2. step \in [Nat -> [Seq(S) -> Seq(S)]]
  <2> SUFFICES ASSUME NEW n \in Nat, NEW v \in Seq(S)
               PROVE  (IF n \in 1..N /\ vec[n] \notin gone THEN Append(v, vec[n]) ELSE v) \in Seq(S)
    OBVIOUS
  <2>1. ASSUME n \in 1..N PROVE Append(v, vec[n]) \in Seq(S)
    BY <1>1, <2>1
  <2> QED BY <2>1
<1>3. PICK g : g \in [0..N -> Seq(S)] /\ Computes(g, <<>>, step, N)
  <2>1. <<>> \in Seq(S)
    OBVIOUS
  <2> HIDE DEF step, N
  <2> QED BY <1>1, <1>2, <2>1, StepsExist
<1>4. \A n \in 1..N : g[n] = Next1(g, n)
  <2> SUFFICES ASSUME NEW n \in 1..N PROVE g[n] = Next1(g, n)
    OBVIOUS
  <2>1. n - 1 \in 0..N /\ n \in Nat
    BY <1>1
  <2>2. g[n - 1] \in Seq(S)
    BY <1>3, <2>1
  <2>3. step[n][g[n - 1]] = IF vec[n] \notin gone THEN Append(g[n - 1], vec[n]) ELSE g[n - 1]
    BY <2>1, <2>2
  <2> HIDE DEF step
  <2> QED BY <1>3, <2>3 DEF Computes
<1>5. g = [n \in 0..N |-> IF n = 0 THEN <<>> ELSE Next1(g, n)]
  <2> DEFINE Value(n) == IF n = 0 THEN <<>> ELSE Next1(g, n)
  <2>1. \A n \in 0..N : g[n] = Value(n)
    <3>1. \A n \in 0..N : n = 0 \/ n \in 1..N
      BY <1>1
    <3> HIDE DEF Next1
    <3> QED BY <1>3, <1>4, <3>1 DEF Computes
  <2> HIDE DEF Value
  <2>2. g = [n \in 0..N |-> Value(n)]
    BY <1>3, <2>1
  <2> QED BY <2>2 DEF Value
<1>6. Kept = [n \in 0..N |-> IF n = 0 THEN <<>> ELSE Next1(Kept, n)]
  BY <1>5
<1>7. RetainOutside(vec, gone) = Kept[N]
  BY DEF RetainOutside
<1> HIDE DEF Kept
<1>8. /\ Kept[0] = <<>>
      /\ \A n \in 1..N : Kept[n] = Next1(Kept, n)
  <2>1. 0 \in 0..N /\ \A n \in 1..N : n \in 0..N /\ n # 0
    BY <1>1
  <2> DEFINE Value(n) == IF n = 0 THEN <<>> ELSE Next1(Kept, n)
  <2>2. Kept = [n \in 0..N |-> Value(n)]
    BY <1>6
  <2>3. Value(0) = <<>> /\ \A n \in 1..N : Value(n) = Next1(Kept, n)
    BY <2>1
  <2> HIDE DEF Value, Next1, N
  <2>4. \A n \in 0..N : Kept[n] = Value(n)
    BY ONLY <2>2
  <2> QED BY <2>1, <2>3, <2>4
<1> QED BY <1>7, <1>8

\* Taking out what is in gone gives a list of the rest: whatever is outside gone is
\* in it, and nothing else, and what was in the list once is in it once.
LEMMA OutsideKeeps ==
    ASSUME NEW S, NEW vec \in Seq(S), NEW gone
    PROVE  /\ RetainOutside(vec, gone) \in Seq(S)
           /\ Elements(RetainOutside(vec, gone)) = Elements(vec) \ gone
           /\ IsInjective(vec) => IsInjective(RetainOutside(vec, gone))
<1> DEFINE N == Len(vec)
           Next1(g, n) == IF vec[n] \in gone THEN g[n - 1] ELSE Append(g[n - 1], vec[n])
<1>1. N \in Nat /\ \A n \in 1..N : vec[n] \in S
  OBVIOUS
<1>2. PICK Kept : /\ RetainOutside(vec, gone) = Kept[N]
                  /\ Kept[0] = <<>>
                  /\ \A n \in 1..N : Kept[n] = Next1(Kept, n)
  BY OutsideUnfolded
<1> DEFINE Front(n) == {vec[i] : i \in 1..n}
           Right(n) == /\ Kept[n] \in Seq(S)
                       /\ Elements(Kept[n]) = Front(n) \ gone
                       /\ IsInjective(vec) => IsInjective(Kept[n])
           Bad == {n \in 0..N : ~Right(n)}
<1>3. Bad = {}
  <2> SUFFICES ASSUME Bad # {} PROVE FALSE
    OBVIOUS
  <2>1. PICK n \in Bad : \A m \in Bad : n <= m
    <3>1. Bad \in SUBSET Nat
      OBVIOUS
    <3> HIDE DEF Bad
    <3> QED BY <3>1, LeastNat
  <2>2. n # 0
    <3>1. Right(0)
      BY <1>2 DEF Elements, IsInjective
    <3> HIDE DEF Right
    <3> QED BY <3>1
  <2>3. n \in 1..N /\ n - 1 \in 0..N
    BY <1>1, <2>2
  <2>4. Right(n - 1)
    <3> HIDE DEF Right
    <3>1. n - 1 \notin Bad
      <4> HIDE DEF Bad
      <4> QED BY <2>1, <2>3
    <3> QED BY <2>3, <3>1
  <2>5. Kept[n] = Next1(Kept, n)
    BY <1>2, <2>3
  <2>6. Front(n) = Front(n - 1) \cup {vec[n]}
    BY <2>3
  <2> HIDE DEF Front
  <2>7. CASE vec[n] \in gone
    <3>1. Right(n)
      BY <2>4, <2>5, <2>6, <2>7
    <3> QED BY <3>1
  <2>8. CASE vec[n] \notin gone
    <3>1. Kept[n] = Append(Kept[n - 1], vec[n]) /\ Kept[n - 1] \in Seq(S) /\ vec[n] \in S
      BY <1>1, <2>3, <2>4, <2>5, <2>8
    <3>2. /\ Kept[n] \in Seq(S)
          /\ Elements(Kept[n]) = Elements(Kept[n - 1]) \cup {vec[n]}
          /\ IsInjective(Kept[n - 1]) /\ vec[n] \notin Elements(Kept[n - 1]) => IsInjective(Kept[n])
      <4> QED BY ONLY <3>1, AppendElements
    <3>3. IsInjective(vec) => vec[n] \notin Front(n - 1)
      BY <1>1, <2>3 DEF IsInjective, Front
    <3>4. Right(n)
      BY <2>4, <2>6, <2>8, <3>2, <3>3
    <3> QED BY <3>4
  <2> QED BY <2>7, <2>8
<1>4. Right(N)
  <2>1. N \in 0..N
    BY <1>1
  <2> HIDE DEF Right
  <2> QED BY <1>3, <2>1
<1>5. Front(N) = Elements(vec)
  BY DEF Elements
<1> QED BY <1>2, <1>4, <1>5

\* Each element that stays has a place of its own in the list it was taken from.
LEMMA OutsidePlaces ==
    ASSUME NEW S, NEW vec \in Seq(S), NEW gone
    PROVE  \E m \in [DOMAIN RetainOutside(vec, gone) -> DOMAIN vec] :
               /\ \A i, j \in DOMAIN RetainOutside(vec, gone) : m[i] = m[j] => i = j
               /\ \A i \in DOMAIN RetainOutside(vec, gone) :
                      RetainOutside(vec, gone)[i] = vec[m[i]]
<1> DEFINE N == Len(vec)
           Next1(g, n) == IF vec[n] \in gone THEN g[n - 1] ELSE Append(g[n - 1], vec[n])
<1>1. N \in Nat /\ DOMAIN vec = 1..N /\ \A n \in 1..N : vec[n] \in S
  OBVIOUS
<1>2. PICK Kept : /\ RetainOutside(vec, gone) = Kept[N]
                  /\ Kept[0] = <<>>
                  /\ \A n \in 1..N : Kept[n] = Next1(Kept, n)
  <2>1. \E g : /\ RetainOutside(vec, gone) = g[Len(vec)]
               /\ g[0] = <<>>
               /\ \A n \in 1..Len(vec) :
                      g[n] = IF vec[n] \in gone THEN g[n - 1] ELSE Append(g[n - 1], vec[n])
    BY ONLY vec \in Seq(S), OutsideUnfolded
  <2> QED BY ONLY <2>1
<1> DEFINE Placed(n, m) == /\ Kept[n] \in Seq(S)
                           /\ m \in [1..Len(Kept[n]) -> 1..n]
                           /\ \A i, j \in 1..Len(Kept[n]) : m[i] = m[j] => i = j
                           /\ \A i \in 1..Len(Kept[n]) : Kept[n][i] = vec[m[i]]
           Right == {n \in Nat : \E m : Placed(n, m)}
<1>3. 0 \in Right
  <2>1. Placed(0, <<>>)
    BY <1>2
  <2> QED BY <2>1
<1>4. ASSUME NEW n \in 1..N, n - 1 \in Right PROVE n \in Right
  <2>1. PICK m : Placed(n - 1, m)
    BY <1>4
  <2>2. CASE vec[n] \in gone
    <3>1. Kept[n] = Kept[n - 1]
      BY <1>2, <2>2
    <3>2. m \in [1..Len(Kept[n]) -> 1..n]
      BY <2>1, <3>1
    <3>3. Placed(n, m)
      BY <2>1, <3>1, <3>2
    <3> HIDE DEF Placed
    <3> QED BY <3>3
  <2>3. CASE vec[n] \notin gone
    <3> DEFINE L == Len(Kept[n - 1])
               p == [i \in 1..(L + 1) |-> IF i = L + 1 THEN n ELSE m[i]]
    <3>1. Kept[n] = Append(Kept[n - 1], vec[n]) /\ Kept[n - 1] \in Seq(S) /\ vec[n] \in S
      BY <1>1, <1>2, <2>1, <2>3
    <3>2. /\ Kept[n] \in Seq(S) /\ L \in Nat
          /\ Len(Kept[n]) = L + 1
          /\ \A i \in 1..L : Kept[n][i] = Kept[n - 1][i]
          /\ Kept[n][L + 1] = vec[n]
      BY <3>1
    <3>3. \A i \in 1..L : m[i] \in 1..(n - 1)
      BY <2>1
    <3>4. \A i \in 1..(L + 1) : i = L + 1 \/ i \in 1..L
      BY <3>2
    <3>5. p \in [1..(L + 1) -> 1..n]
      BY <3>3, <3>4
    <3>6. \A i \in 1..(L + 1) : p[i] = IF i = L + 1 THEN n ELSE m[i]
      OBVIOUS
    <3>7. \A i \in 1..L : i # L + 1 /\ m[i] # n
      BY <3>2, <3>3
    <3> HIDE DEF p, L
    <3>8. \A i, j \in 1..(L + 1) : p[i] = p[j] => i = j
      <4>1. \A i, j \in 1..L : m[i] = m[j] => i = j
        BY <2>1 DEF L
      <4> QED BY <3>4, <3>6, <3>7, <4>1
    <3>9. \A i \in 1..(L + 1) : Kept[n][i] = vec[p[i]]
      <4>1. \A i \in 1..L : Kept[n - 1][i] = vec[m[i]]
        BY <2>1 DEF L
      <4> QED BY <3>2, <3>4, <3>6, <3>7, <4>1
    <3>10. Placed(n, p)
      BY <3>2, <3>5, <3>8, <3>9
    <3> HIDE DEF Placed
    <3> QED BY <3>10
  <2> HIDE DEF Right
  <2> QED BY <2>2, <2>3
<1>5. N \in Right
  <2> HIDE DEF Right, N
  <2>1. \A n \in 0..N : n \in Right
    BY <1>1, <1>3, <1>4, UpTo
  <2> QED BY <2>1, <1>1
<1>6. PICK m : Placed(N, m)
  BY <1>5
<1>7. DOMAIN Kept[N] = 1..Len(Kept[N])
  BY <1>6
<1> QED BY <1>1, <1>2, <1>6, <1>7

\* Retain is computed from the front, element by element.
LEMMA RetainUnfolded ==
    ASSUME NEW S, NEW vec \in Seq(S), NEW x
    PROVE  \E kept : /\ Retain(vec, x) = kept[Len(vec)]
                     /\ kept[0] = <<>>
                     /\ \A n \in 1..Len(vec) :
                            kept[n] = IF vec[n] = x THEN kept[n - 1]
                                                    ELSE Append(kept[n - 1], vec[n])
<1>1. PICK kept : /\ RetainOutside(vec, {x}) = kept[Len(vec)]
                  /\ kept[0] = <<>>
                  /\ \A n \in 1..Len(vec) :
                         kept[n] = IF vec[n] \in {x} THEN kept[n - 1]
                                   ELSE Append(kept[n - 1], vec[n])
  BY OutsideUnfolded
<1> QED BY <1>1 DEF Retain

\* Retaining what differs from x gives a list of the rest: whatever differs from x
\* is in it, and nothing else, and what was in the list once is in it once.
LEMMA RetainKeeps ==
    ASSUME NEW S, NEW vec \in Seq(S), NEW x
    PROVE  /\ Retain(vec, x) \in Seq(S)
           /\ Elements(Retain(vec, x)) = Elements(vec) \ {x}
           /\ IsInjective(vec) => IsInjective(Retain(vec, x))
BY OutsideKeeps DEF Retain

\* Taking the zeros out of an ascending list of naturals leaves its end.
LEMMA RetainSuffix ==
    ASSUME NEW vec \in Seq(Nat),
           \A i, j \in 1..Len(vec) : i <= j => vec[i] <= vec[j]
    PROVE  \E d \in 0..Len(vec) :
               /\ Len(Retain(vec, 0)) = Len(vec) - d
               /\ \A i \in 1..(Len(vec) - d) :
                      Retain(vec, 0)[i] = vec[i + d] /\ vec[i + d] > 0
<1> DEFINE N == Len(vec)
<1>1. N \in Nat /\ \A n \in 1..N : vec[n] \in Nat
  OBVIOUS
<1>2. PICK Kept : /\ Retain(vec, 0) = Kept[N]
                  /\ Kept[0] = <<>>
                  /\ \A n \in 1..N : Kept[n] = IF vec[n] = 0 THEN Kept[n - 1]
                                               ELSE Append(Kept[n - 1], vec[n])
  BY RetainUnfolded
<1> DEFINE Suffix(n, d) == /\ Kept[n] \in Seq(Nat)
                           /\ Len(Kept[n]) = n - d
                           /\ \A i \in 1..(n - d) : Kept[n][i] = vec[i + d] /\ vec[i + d] > 0
           Right == {n \in Nat : \E d \in 0..n : Suffix(n, d)}
<1>3. 0 \in Right
  <2>1. Suffix(0, 0)
    BY <1>2
  <2> QED BY <2>1
<1>4. ASSUME NEW n \in 1..N, n - 1 \in Right PROVE n \in Right
  <2>1. PICK d \in 0..(n - 1) : Suffix(n - 1, d)
    BY <1>4
  <2>2. CASE vec[n] = 0
    <3>1. d = n - 1
      <4>1. ASSUME d # n - 1 PROVE FALSE
        <5>1. 1 \in 1..(n - 1 - d) /\ 1 + d \in 1..N /\ 1 + d <= n
          BY <4>1, <1>1
        <5>2. vec[1 + d] > 0
          BY <2>1, <5>1
        <5>3. vec[1 + d] <= vec[n]
          BY <5>1
        <5> QED BY <5>1, <5>2, <5>3, <2>2, <1>1
      <4> QED BY <4>1
    <3>2. Kept[n] = Kept[n - 1]
      BY <1>2, <2>2
    <3>3. Kept[n - 1] \in Seq(Nat) /\ Len(Kept[n - 1]) = 0
      BY <2>1, <3>1
    <3>4. Suffix(n, n)
      BY <3>2, <3>3
    <3>5. n \in 0..n
      OBVIOUS
    <3> HIDE DEF Suffix
    <3> QED BY <3>4, <3>5
  <2>3. CASE vec[n] # 0
    <3>1. Kept[n] = Append(Kept[n - 1], vec[n])
      BY <1>2, <2>3
    <3>2. /\ Kept[n] \in Seq(Nat)
          /\ Len(Kept[n]) = n - d
          /\ \A i \in 1..(n - 1 - d) : Kept[n][i] = Kept[n - 1][i]
          /\ Kept[n][n - d] = vec[n]
      BY <3>1, <2>1, <1>1
    <3>3. Suffix(n, d)
      <4> SUFFICES ASSUME NEW i \in 1..(n - d) PROVE Kept[n][i] = vec[i + d] /\ vec[i + d] > 0
        BY <3>2
      <4>1. CASE i = n - d
        BY <4>1, <3>2, <2>3, <1>1
      <4>2. CASE i # n - d
        <5>1. i \in 1..(n - 1 - d)
          BY <4>2
        <5> QED BY <5>1, <3>2, <2>1
      <4> QED BY <4>1, <4>2
    <3>4. d \in 0..n
      OBVIOUS
    <3> HIDE DEF Suffix
    <3> QED BY <3>3, <3>4
  <2> HIDE DEF Right
  <2> QED BY <2>2, <2>3
<1>5. N \in Right
  <2> HIDE DEF Right, N
  <2>1. \A n \in 0..N : n \in Right
    BY <1>1, <1>3, <1>4, UpTo
  <2> QED BY <2>1, <1>1
<1>6. PICK d \in 0..N : Suffix(N, d)
  BY <1>5
<1> QED BY <1>2, <1>6

=============================================================================
