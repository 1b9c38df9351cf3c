-------------------------- MODULE Collector_proofs --------------------------
(***************************************************************************)
(* Proofs about Collector, for any number of processes, containers, flows, *)
(* packets, drops and snapshots, any packet sizes, any unit of the rates   *)
(* and any width of the kernel's drop counter.                             *)
(*                                                                         *)
(* The rates are made of sums over finite sets.  The first part shows what *)
(* SumFunctionOnSet is: the number of units in all amounts.  Induction is  *)
(* by a minimal counterexample, which a finite set of sets has.            *)
(***************************************************************************)
EXTENDS Collector, FiniteSetTheorems, WellFoundedInduction, TLAPS

-----------------------------------------------------------------------------
(* Sums.                                                                   *)

\* Of subsets of a finite set, one has no part among them.
LEMMA MinimalSubset ==
  ASSUME NEW S, IsFiniteSet(S), NEW T, T \subseteq SUBSET S, T # {}
  PROVE  \E x \in T : \A y \in T : ~ (y \subseteq x /\ y # x)
<1>1. T \subseteq FiniteSubsetsOf(S)
  BY FS_Subset DEF FiniteSubsetsOf
<1>2. \E x \in T : \A y \in T : <<y, x>> \notin StrictSubsetOrdering(S)
  BY <1>1, WFMin, FS_StrictSubsetOrderingWellFounded, Zenon
<1> QED BY <1>2 DEF StrictSubsetOrdering

\* A unit for each unit of an amount.
Units(f, S) == UNION {{x} \X (1..f[x]) : x \in S}

LEMMA UnitsEmpty == ASSUME NEW f PROVE Units(f, {}) = {}
  BY DEF Units

LEMMA UnitsOfOne ==
  ASSUME NEW x, NEW f, f[x] \in Nat
  PROVE  IsFiniteSet(Units(f, {x})) /\ Cardinality(Units(f, {x})) = f[x]
<1>1. Units(f, {x}) = {x} \X (1..f[x])
  BY DEF Units
<1>2. IsFiniteSet(1..f[x]) /\ Cardinality(1..f[x]) = f[x]
  <2>1. \A k \in Nat : IsFiniteSet(1..k) /\ Cardinality(1..k) = k
    BY FS_Interval
  <2> QED BY <2>1, Zenon
<1>3. IsFiniteSet({x}) /\ Cardinality({x}) = 1
  BY FS_Singleton
<1>4. /\ IsFiniteSet({x} \X (1..f[x]))
      /\ Cardinality({x} \X (1..f[x])) = Cardinality({x}) * Cardinality(1..f[x])
  BY <1>2, <1>3, FS_Product, Zenon
<1>5. 1 * f[x] = f[x]
  OBVIOUS
<1> QED BY <1>1, <1>2, <1>3, <1>4, <1>5, Zenon

LEMMA UnitsFinite ==
  ASSUME NEW S, IsFiniteSet(S), NEW f, \A x \in S : f[x] \in Nat
  PROVE  IsFiniteSet(Units(f, S)) /\ Cardinality(Units(f, S)) \in Nat
<1> DEFINE T == {R \in SUBSET S : ~IsFiniteSet(Units(f, R))}
<1>1. ASSUME NEW R \in T, \A y \in T : ~ (y \subseteq R /\ y # R)
      PROVE  FALSE
  <2>1. R \subseteq S /\ ~IsFiniteSet(Units(f, R))
    OBVIOUS
  <2>2. R # {}
    BY <2>1, UnitsEmpty, FS_EmptySet
  <2>3. PICK x \in R : TRUE
    BY <2>2
  <2>4. IsFiniteSet(Units(f, R \ {x}))
    BY <1>1, <2>1, <2>3
  <2>5. Units(f, R) = Units(f, R \ {x}) \cup Units(f, {x})
    BY <2>3 DEF Units
  <2>6. IsFiniteSet(Units(f, {x}))
    BY <2>1, <2>3, UnitsOfOne
  <2> QED BY <2>1, <2>4, <2>5, <2>6, FS_Union
<1>2. T \subseteq SUBSET S
  OBVIOUS
<1> HIDE DEF T
<1>3. T = {}
  BY <1>1, <1>2, MinimalSubset
<1>4. IsFiniteSet(Units(f, S))
  BY <1>3 DEF T
<1> QED BY <1>4, FS_CardinalityType

LEMMA CardinalityDisjoint ==
  ASSUME NEW A, IsFiniteSet(A), NEW B, IsFiniteSet(B), A \cap B = {}
  PROVE  Cardinality(A \cup B) = Cardinality(A) + Cardinality(B)
<1>1. Cardinality(A) \in Nat /\ Cardinality(B) \in Nat
  BY FS_CardinalityType
<1>2. Cardinality(A \cap B) = 0
  BY FS_EmptySet
<1>3. Cardinality(A \cup B) = Cardinality(A) + Cardinality(B) - Cardinality(A \cap B)
  BY FS_Union
<1> QED BY <1>1, <1>2, <1>3

LEMMA UnitsDisjoint ==
  ASSUME NEW S, IsFiniteSet(S), NEW T, IsFiniteSet(T), S \cap T = {}, NEW f, \A x \in S \cup T : f[x] \in Nat
  PROVE  Cardinality(Units(f, S \cup T)) = Cardinality(Units(f, S)) + Cardinality(Units(f, T))
<1>1. Units(f, S \cup T) = Units(f, S) \cup Units(f, T)
  BY DEF Units
<1>2. Units(f, S) \cap Units(f, T) = {}
  BY DEF Units
<1>3. IsFiniteSet(Units(f, S)) /\ Cardinality(Units(f, S)) \in Nat
  BY UnitsFinite
<1>4. IsFiniteSet(Units(f, T)) /\ Cardinality(Units(f, T)) \in Nat
  BY UnitsFinite
<1> QED BY <1>1, <1>2, <1>3, <1>4, CardinalityDisjoint

First(s) == CHOOSE x \in s : TRUE

SumEquation(g, f, S) ==
  g = [s \in SUBSET S |-> IF s = {} THEN 0 ELSE f[First(s)] + g[s \ {First(s)}]]

LEMMA SumUnfolded ==
  ASSUME NEW S, NEW f
  PROVE  SumFunctionOnSet(f, S) = (CHOOSE g : SumEquation(g, f, S))[S]
BY DEF SumFunctionOnSet, FoldFunctionOnSet, MapThenFoldSet, SumEquation, First

\* A sum is the number of units.
LEMMA SumIsUnits ==
  ASSUME NEW S, IsFiniteSet(S), NEW f, \A x \in S : f[x] \in Nat
  PROVE  SumFunctionOnSet(f, S) = Cardinality(Units(f, S))
<1> DEFINE h == [s \in SUBSET S |-> Cardinality(Units(f, s))]
           g == CHOOSE g : SumEquation(g, f, S)
<1>1. SumEquation(h, f, S)
  <2>1. h[{}] = 0
    BY UnitsEmpty, FS_EmptySet
  <2>2. ASSUME NEW s \in SUBSET S, s # {}
        PROVE  h[s] = f[First(s)] + h[s \ {First(s)}]
    <3>1. First(s) \in s
      BY <2>2 DEF First
    <3>2. IsFiniteSet(s \ {First(s)}) /\ IsFiniteSet({First(s)})
      BY FS_Subset, FS_Singleton
    <3>3. s = (s \ {First(s)}) \cup {First(s)}
      BY <3>1
    <3>4. Cardinality(Units(f, s)) = Cardinality(Units(f, s \ {First(s)})) + Cardinality(Units(f, {First(s)}))
      BY <3>1, <3>2, <3>3, UnitsDisjoint
    <3>5. Cardinality(Units(f, {First(s)})) = f[First(s)]
      BY <3>1, UnitsOfOne
    <3>6. Cardinality(Units(f, s \ {First(s)})) \in Nat
      BY <3>2, UnitsFinite
    <3> QED BY <3>1, <3>4, <3>5, <3>6
  <2> QED BY <2>1, <2>2 DEF SumEquation
<1> HIDE DEF h
<1>2. SumEquation(g, f, S)
  BY <1>1
<1> HIDE DEF g
<1>3. g[S] = h[S]
  <2> DEFINE T == {s \in SUBSET S : g[s] # h[s]}
  <2>1. ASSUME NEW s \in T, \A y \in T : ~ (y \subseteq s /\ y # s)
        PROVE  FALSE
    <3>1. s \subseteq S /\ g[s] # h[s]
      OBVIOUS
    <3>2. s # {}
      BY <1>1, <1>2, <3>1 DEF SumEquation
    <3>3. First(s) \in s
      BY <3>2 DEF First
    <3>4. g[s \ {First(s)}] = h[s \ {First(s)}]
      BY <2>1, <3>1, <3>3
    <3>5. g[s] = f[First(s)] + g[s \ {First(s)}]
      BY <1>2, <3>1, <3>2 DEF SumEquation
    <3>6. h[s] = f[First(s)] + h[s \ {First(s)}]
      BY <1>1, <3>1, <3>2 DEF SumEquation
    <3> QED BY <3>1, <3>4, <3>5, <3>6
  <2>2. T \subseteq SUBSET S
    OBVIOUS
  <2> HIDE DEF T
  <2>3. T = {}
    BY <2>1, <2>2, MinimalSubset
  <2> QED BY <2>3 DEF T
<1> QED BY <1>3, SumUnfolded DEF g, h

LEMMA SumType ==
  ASSUME NEW S, IsFiniteSet(S), NEW f, \A x \in S : f[x] \in Nat
  PROVE  SumFunctionOnSet(f, S) \in Nat
BY SumIsUnits, UnitsFinite

LEMMA SumEmpty == ASSUME NEW f PROVE SumFunctionOnSet(f, {}) = 0
BY SumIsUnits, UnitsEmpty, FS_EmptySet

LEMMA SumOne == ASSUME NEW x, NEW f, f[x] \in Nat PROVE SumFunctionOnSet(f, {x}) = f[x]
BY SumIsUnits, UnitsOfOne, FS_Singleton

LEMMA SumDisjoint ==
  ASSUME NEW S, IsFiniteSet(S), NEW T, IsFiniteSet(T), S \cap T = {},
         NEW f, \A x \in S \cup T : f[x] \in Nat
  PROVE  SumFunctionOnSet(f, S \cup T) = SumFunctionOnSet(f, S) + SumFunctionOnSet(f, T)
<1>1. IsFiniteSet(S \cup T)
  BY FS_Union
<1> QED BY <1>1, SumIsUnits, UnitsDisjoint

\* Only amounts in S matter
LEMMA SumSame ==
  ASSUME NEW S, IsFiniteSet(S), NEW f, NEW g, \A x \in S : f[x] \in Nat /\ f[x] = g[x]
  PROVE  SumFunctionOnSet(f, S) = SumFunctionOnSet(g, S)
<1>1. Units(f, S) = Units(g, S)
  BY DEF Units
<1> QED BY <1>1, SumIsUnits

\* A sum of nothing.
LEMMA SumZero ==
  ASSUME NEW S, IsFiniteSet(S), NEW f, \A x \in S : f[x] = 0
  PROVE  SumFunctionOnSet(f, S) = 0
<1>1. Units(f, S) = {}
  BY DEF Units
<1> QED BY <1>1, SumIsUnits, FS_EmptySet

\* One amount grows, and so does the sum.
LEMMA SumGrows ==
  ASSUME NEW S, IsFiniteSet(S), NEW f, NEW g, NEW y \in S, NEW n \in Nat,
         \A x \in S : f[x] \in Nat, g[y] = f[y] + n, \A x \in S \ {y} : g[x] = f[x]
  PROVE  SumFunctionOnSet(g, S) = SumFunctionOnSet(f, S) + n
<1> DEFINE R == S \ {y}
<1>1. /\ IsFiniteSet(R) /\ IsFiniteSet({y}) /\ R \cap {y} = {} /\ R \cup {y} = S
      /\ \A x \in R : f[x] \in Nat /\ g[x] \in Nat
  BY FS_Subset, FS_Singleton
<1> HIDE DEF R
<1>2. SumFunctionOnSet(f, S) = SumFunctionOnSet(f, R) + SumFunctionOnSet(f, {y})
  BY <1>1, SumDisjoint
<1>3. SumFunctionOnSet(g, S) = SumFunctionOnSet(g, R) + SumFunctionOnSet(g, {y})
  BY <1>1, SumDisjoint
<1>4. SumFunctionOnSet(f, R) = SumFunctionOnSet(g, R)
  BY <1>1, SumSame DEF R
<1>5. f[y] \in Nat /\ g[y] \in Nat
  OBVIOUS
<1>6. SumFunctionOnSet(f, {y}) = f[y] /\ SumFunctionOnSet(g, {y}) = g[y]
  BY <1>5, SumOne
<1>7. SumFunctionOnSet(f, R) \in Nat
  BY <1>1, SumType
<1> QED BY <1>2, <1>3, <1>4, <1>5, <1>6, <1>7

-----------------------------------------------------------------------------
(* Rates and drops.                                                        *)

\* A rate is the largest number of whole units in the bytes.
LEMMA RateBounds ==
  ASSUME NEW b \in Nat
  PROVE  /\ Rate(b) \in Nat
         /\ Rate(b) * Unit <= b
         /\ b <= Rate(b) * Unit + (Unit - 1)
  BY CollectorAssumption DEF Rate

LEMMA RateLargest ==
  ASSUME NEW b \in Nat, NEW k \in Nat, k * Unit <= b
  PROVE  k <= Rate(b)
<1>1. /\ b < (Rate(b) + 1) * Unit /\ Rate(b) \in Nat
      /\ Unit \in Nat \ {0}
  BY RateBounds, CollectorAssumption
<1> SUFFICES ASSUME k >= Rate(b) + 1 PROVE FALSE
  BY <1>1
<1>2. k * Unit >= (Rate(b) + 1) * Unit
  BY <1>1
<1> QED BY <1>1, <1>2

\* The sum of rates is a rate of the sum, but for what each of them rounds off.
LEMMA SumOfRates ==
  ASSUME NEW S, IsFiniteSet(S), NEW f, NEW g, \A x \in S : f[x] \in Nat /\ g[x] = Rate(f[x])
  PROVE  /\ SumFunctionOnSet(g, S) \in Nat /\ SumFunctionOnSet(f, S) \in Nat
         /\ SumFunctionOnSet(g, S) * Unit <= SumFunctionOnSet(f, S)
         /\ SumFunctionOnSet(f, S) <= SumFunctionOnSet(g, S) * Unit + Cardinality(S) * (Unit - 1)
<1> DEFINE Rounded(R) ==
      /\ SumFunctionOnSet(g, R) * Unit <= SumFunctionOnSet(f, R)
      /\ SumFunctionOnSet(f, R) <= SumFunctionOnSet(g, R) * Unit + Cardinality(R) * (Unit - 1)
    T == {R \in SUBSET S : ~Rounded(R)}
<1>0. Unit \in Nat \ {0}
  BY CollectorAssumption
<1>1. ASSUME NEW R \in SUBSET S
      PROVE  IsFiniteSet(R) /\ SumFunctionOnSet(g, R) \in Nat /\ SumFunctionOnSet(f, R) \in Nat
  <2>1. IsFiniteSet(R)
    BY FS_Subset
  <2>2. \A x \in R : f[x] \in Nat /\ g[x] \in Nat
    BY RateBounds
  <2> QED BY <2>1, <2>2, SumType
<1>2. ASSUME NEW R \in T, \A y \in T : ~ (y \subseteq R /\ y # R)
      PROVE  FALSE
  <2>1. R \subseteq S /\ ~Rounded(R)
    OBVIOUS
  <2>2. R # {}
    <3>1. SumFunctionOnSet(f, {}) = 0 /\ SumFunctionOnSet(g, {}) = 0 /\ Cardinality({}) = 0
      BY SumEmpty, FS_EmptySet
    <3>2. Rounded({})
      BY <1>0, <3>1
    <3> QED BY <2>1, <3>2
  <2>3. PICK x \in R : TRUE
    BY <2>2
  <2> DEFINE Q == R \ {x}
  <2>4. Q \subseteq S /\ Q \cap {x} = {} /\ Q \cup {x} = R /\ IsFiniteSet(Q) /\ IsFiniteSet({x})
    BY <2>1, <2>3, <1>1, FS_Singleton
  <2>5. Rounded(Q)
    BY <1>2, <2>3, <2>4
  <2> HIDE DEF Rounded, T, Q
  <2>6. /\ f[x] \in Nat /\ g[x] \in Nat
        /\ g[x] * Unit <= f[x] /\ f[x] <= g[x] * Unit + (Unit - 1)
    BY <2>1, <2>3, RateBounds
  <2>7. \A z \in Q \cup {x} : f[z] \in Nat /\ g[z] \in Nat
    BY <2>1, <2>4, RateBounds
  <2>8. SumFunctionOnSet(f, R) = SumFunctionOnSet(f, Q) + f[x]
    <3>1. SumFunctionOnSet(f, Q \cup {x}) = SumFunctionOnSet(f, Q) + SumFunctionOnSet(f, {x})
      BY <2>4, <2>7, SumDisjoint
    <3> QED BY <2>4, <2>6, <3>1, SumOne
  <2>9. SumFunctionOnSet(g, R) = SumFunctionOnSet(g, Q) + g[x]
    <3>1. SumFunctionOnSet(g, Q \cup {x}) = SumFunctionOnSet(g, Q) + SumFunctionOnSet(g, {x})
      BY <2>4, <2>7, SumDisjoint
    <3> QED BY <2>4, <2>6, <3>1, SumOne
  <2>10. Cardinality(R) = Cardinality(Q) + 1 /\ Cardinality(Q) \in Nat
    <3>1. Cardinality(Q \cup {x}) = Cardinality(Q) + Cardinality({x})
      BY <2>4, CardinalityDisjoint
    <3>2. Cardinality({x}) = 1 /\ Cardinality(Q) \in Nat
      BY <2>4, FS_Singleton, FS_CardinalityType
    <3> QED BY <2>4, <3>1, <3>2
  <2>11. SumFunctionOnSet(g, Q) \in Nat /\ SumFunctionOnSet(f, Q) \in Nat
    BY <1>1, <2>4
  <2>12. (SumFunctionOnSet(g, Q) + g[x]) * Unit = SumFunctionOnSet(g, Q) * Unit + g[x] * Unit
    BY <1>0, <2>6, <2>11
  <2>13. (Cardinality(Q) + 1) * (Unit - 1) = Cardinality(Q) * (Unit - 1) + (Unit - 1)
    BY <1>0, <2>10
  <2>14. Rounded(R)
    BY <1>0, <2>5, <2>6, <2>8, <2>9, <2>10, <2>11, <2>12, <2>13 DEF Rounded
  <2> QED BY <2>1, <2>14
<1>3. T \subseteq SUBSET S
  OBVIOUS
<1>4. Rounded(S)
  <2> HIDE DEF T
  <2>1. T = {}
    BY <1>2, <1>3, MinimalSubset
  <2> QED BY <2>1 DEF T
<1> QED BY <1>1, <1>4

\* A total that is kept modulo M and read twice grows by no more than the total.
LEMMA ModuloGrowth ==
  ASSUME NEW a \in Nat, NEW b \in Nat, a <= b, NEW M \in Nat \ {0}
  PROVE  /\ a % M \in 0..(M - 1)
         /\ (b % M) - (a % M) <= b - a
         /\ a < M => a % M = a
<1>1. a % M \in 0..(M - 1) /\ b % M \in 0..(M - 1)
  OBVIOUS
<1>2. a = M * (a \div M) + (a % M) /\ a \div M \in Nat
  OBVIOUS
<1>3. b = M * (b \div M) + (b % M) /\ b \div M \in Nat
  OBVIOUS
<1>4. a < M => a % M = a
  OBVIOUS
<1>5. (b % M) - (a % M) <= b - a
  <2> DEFINE p == a \div M
             q == b \div M
             r == a % M
             t == b % M
  <2>1. a = M * p + r /\ b = M * q + t /\ p \in Nat /\ q \in Nat /\ r \in 0..(M - 1) /\ t \in 0..(M - 1)
    BY <1>1, <1>2, <1>3
  <2> HIDE DEF p, q, r, t
  <2> SUFFICES ASSUME t - r > b - a PROVE FALSE
    BY <2>1 DEF r, t
  <2>2. M * q < M * p
    BY <2>1
  <2>3. q < p
    BY <2>1, <2>2
  <2>4. M * q + M <= M * p
    BY <2>1, <2>3
  <2> QED BY <2>1, <2>4
<1> QED BY <1>1, <1>4, <1>5

-----------------------------------------------------------------------------
(* The two kinds of snapshots divide what they are made of.                *)

LEMMA ReasonsFinite ==
  /\ IsFiniteSet(Reason) /\ IsFiniteSet({"exited"})
  /\ Reason \cap {"exited"} = {} /\ Category = Reason \cup {"exited"}
<1>1. Reason = {"unsupported"} \cup {"unmatched"} \cup {"ambiguous"}
  BY DEF Reason
<1>2. IsFiniteSet(Reason)
  BY <1>1, FS_Singleton, FS_Union
<1> QED BY <1>2, FS_Singleton DEF Reason, Category

\* The bytes of a window that have an owner or a reason.
Given(w, d) ==
  SumFunctionOnSet(Amounts(w.unknown, d), Reason) + SumFunctionOnSet(Amounts(w.processes, d), Process)

\* A snapshot of a window is made of U bytes without an owner, G of processes
\* that are gone and K of the others; sr, e and s.listed are their rates, each
\* of n amounts of G rounded for itself.
PartsOfWindow(w, d, s, U, G, K, sr, e, n) ==
  /\ Given(w, d) = U + G + K
  /\ s.captured[d] = Rate(w.captured[d]) /\ s.unknown[d] = Rate(U) + e
  /\ SumFunctionOnSet(Amounts(s.category, d), Category) = sr + e
  /\ s.listed[d] \in Nat /\ s.known[d] = K /\ s.roundings = 1 + n
  /\ sr * Unit <= U /\ e * Unit <= G /\ G <= e * Unit + n * (Unit - 1)
  /\ s.listed[d] * Unit <= K

LEMMA WindowParts ==
  ASSUME NEW w \in Windows, NEW alive \in SUBSET Process, NEW drops, NEW why, NEW d \in Dir
  PROVE  \E U, G, K, sr, e, n \in Nat :
           PartsOfWindow(w, d, WindowSnapshot(w, alive, drops, why), U, G, K, sr, e, n)
<1> DEFINE s == WindowSnapshot(w, alive, drops, why)
           gone == {p \in Process \ alive : w.processes[p] # NoTraffic}
           rest == {p \in Process \ alive : w.processes[p] = NoTraffic}
           A == Amounts(w.processes, d)
           R == Rates(w.processes, d)
           B == Amounts(w.unknown, d)
           Q == Rates(w.unknown, d)
<1>1. /\ \A p \in Process : A[p] \in Nat /\ R[p] = Rate(A[p])
      /\ \A r \in Reason : B[r] \in Nat /\ Q[r] = Rate(B[r])
      /\ \A p \in rest : A[p] = 0
  BY DEF Amounts, Rates, Windows, NoTraffic
<1>2. /\ IsFiniteSet(Process) /\ IsFiniteSet(alive) /\ IsFiniteSet(gone) /\ IsFiniteSet(rest)
      /\ IsFiniteSet(gone \cup rest)
  BY CollectorAssumption, FS_Subset
<1>3. /\ Process = alive \cup (gone \cup rest)
      /\ alive \cap (gone \cup rest) = {} /\ gone \cap rest = {}
  OBVIOUS
<1>4. /\ s.captured[d] = Rate(w.captured[d])
      /\ s.unknown[d] = Rate(SumFunctionOnSet(B, Reason)) + SumFunctionOnSet(R, gone)
      /\ s.listed[d] = SumFunctionOnSet(R, alive)
      /\ s.known[d] = SumFunctionOnSet(A, alive)
      /\ s.roundings = 1 + Cardinality(gone)
  BY DEF WindowSnapshot
<1>5. /\ \A r \in Reason : Amounts(s.category, d)[r] = Q[r]
      /\ Amounts(s.category, d)["exited"] = SumFunctionOnSet(R, gone)
  BY DEF WindowSnapshot, Amounts, Rates, Category, Reason, Windows
<1> DEFINE C == Amounts(s.category, d)
<1> HIDE DEF s, A, R, B, Q, C
<1>6. SumFunctionOnSet(A, Process) = SumFunctionOnSet(A, alive) + SumFunctionOnSet(A, gone)
  <2>1. SumFunctionOnSet(A, Process) = SumFunctionOnSet(A, alive) + SumFunctionOnSet(A, gone \cup rest)
    BY <1>1, <1>2, <1>3, SumDisjoint
  <2>2. SumFunctionOnSet(A, gone \cup rest) = SumFunctionOnSet(A, gone) + SumFunctionOnSet(A, rest)
    BY <1>1, <1>2, <1>3, SumDisjoint
  <2>3. SumFunctionOnSet(A, rest) = 0
    BY <1>1, <1>2, SumZero
  <2>4. SumFunctionOnSet(A, gone) \in Nat
    BY <1>1, <1>2, <1>3, SumType
  <2> QED BY <2>1, <2>2, <2>3, <2>4
<1>7. SumFunctionOnSet(C, Category) = SumFunctionOnSet(Q, Reason) + SumFunctionOnSet(R, gone)
  <2>0. \A p \in gone : R[p] \in Nat
    BY <1>1, <1>3, RateBounds
  <2>1. SumFunctionOnSet(R, gone) \in Nat
    BY <1>2, <2>0, SumType
  <2>2. \A r \in Reason : C[r] \in Nat /\ C[r] = Q[r]
    BY <1>1, <1>5, RateBounds DEF C
  <2>3. C["exited"] = SumFunctionOnSet(R, gone)
    BY <1>5 DEF C
  <2>4. SumFunctionOnSet(C, Reason \cup {"exited"}) = SumFunctionOnSet(C, Reason) + SumFunctionOnSet(C, {"exited"})
    BY <2>1, <2>2, <2>3, ReasonsFinite, SumDisjoint
  <2>5. SumFunctionOnSet(C, {"exited"}) = SumFunctionOnSet(R, gone)
    BY <2>1, <2>3, SumOne
  <2>6. SumFunctionOnSet(C, Reason) = SumFunctionOnSet(Q, Reason)
    BY <2>2, ReasonsFinite, SumSame
  <2> QED BY <2>4, <2>5, <2>6, ReasonsFinite
<1>8. /\ SumFunctionOnSet(Q, Reason) \in Nat /\ SumFunctionOnSet(B, Reason) \in Nat
      /\ SumFunctionOnSet(Q, Reason) * Unit <= SumFunctionOnSet(B, Reason)
  BY <1>1, ReasonsFinite, SumOfRates
<1>9. /\ SumFunctionOnSet(R, gone) \in Nat /\ SumFunctionOnSet(A, gone) \in Nat
      /\ SumFunctionOnSet(R, gone) * Unit <= SumFunctionOnSet(A, gone)
      /\ SumFunctionOnSet(A, gone) <= SumFunctionOnSet(R, gone) * Unit + Cardinality(gone) * (Unit - 1)
  BY <1>1, <1>2, <1>3, SumOfRates
<1>10. /\ SumFunctionOnSet(R, alive) \in Nat /\ SumFunctionOnSet(A, alive) \in Nat
       /\ SumFunctionOnSet(R, alive) * Unit <= SumFunctionOnSet(A, alive)
  BY <1>1, <1>2, SumOfRates
<1>11. Cardinality(gone) \in Nat
  BY <1>2, FS_CardinalityType
<1>12. Given(w, d) = SumFunctionOnSet(B, Reason) + SumFunctionOnSet(A, gone) + SumFunctionOnSet(A, alive)
  BY <1>6, <1>8, <1>9, <1>10 DEF Given, A, B
<1> HIDE DEF gone
<1>13. PartsOfWindow(w, d, s, SumFunctionOnSet(B, Reason), SumFunctionOnSet(A, gone),
                     SumFunctionOnSet(A, alive), SumFunctionOnSet(Q, Reason),
                     SumFunctionOnSet(R, gone), Cardinality(gone))
  BY <1>4, <1>7, <1>8, <1>9, <1>10, <1>12 DEF C, PartsOfWindow
<1> QED BY <1>8, <1>9, <1>10, <1>11, <1>13 DEF s

\* A window gives no byte away twice: its snapshot fits together.
LEMMA WindowSnapshotFits ==
  ASSUME NEW w \in Windows, NEW alive \in SUBSET Process, NEW drops, NEW why,
         \A d \in Dir : Given(w, d) <= w.captured[d]
  PROVE  Fits(WindowSnapshot(w, alive, drops, why))
<1> DEFINE s == WindowSnapshot(w, alive, drops, why)
<1> SUFFICES ASSUME NEW d \in Dir
             PROVE  LET categories == SumFunctionOnSet(Amounts(s.category, d), Category) IN
                    /\ categories <= s.unknown[d]
                    /\ s.unknown[d] <= s.captured[d]
                    /\ s.listed[d] + categories <= s.captured[d]
  BY DEF Fits
<1>1. PICK U, G, K, sr, e, n \in Nat : PartsOfWindow(w, d, s, U, G, K, sr, e, n)
  BY WindowParts
<1>2. w.captured[d] \in Nat /\ Unit \in Nat \ {0} /\ s.listed[d] \in Nat
  BY <1>1, CollectorAssumption DEF Windows, PartsOfWindow
<1>3. U + G + K <= w.captured[d]
  BY <1>1 DEF PartsOfWindow
<1>4. sr <= Rate(U)
  BY <1>1, RateLargest DEF PartsOfWindow
<1>5. Rate(U) \in Nat /\ Rate(U) * Unit <= U
  BY RateBounds
<1>6. e * Unit <= G /\ sr * Unit <= U /\ s.listed[d] * Unit <= K
  BY <1>1 DEF PartsOfWindow
<1>7. Rate(U) + e <= Rate(w.captured[d])
  <2>1. (Rate(U) + e) * Unit = Rate(U) * Unit + e * Unit
    BY <1>2, <1>5
  <2>2. (Rate(U) + e) * Unit <= w.captured[d]
    BY <2>1, <1>2, <1>3, <1>5, <1>6
  <2> QED BY <2>2, <1>2, <1>5, RateLargest
<1>8. s.listed[d] + (sr + e) <= Rate(w.captured[d])
  <2>1. (s.listed[d] + (sr + e)) * Unit = s.listed[d] * Unit + sr * Unit + e * Unit
    BY <1>2
  <2>2. (s.listed[d] + (sr + e)) * Unit <= w.captured[d]
    BY <2>1, <1>2, <1>3, <1>6
  <2> QED BY <2>2, <1>2, RateLargest
<1> QED BY <1>1, <1>4, <1>5, <1>7, <1>8 DEF PartsOfWindow

\* When all bytes of a window are given to an owner or a reason, captured minus
\* unknown is what the processes listed have, up to the rounding.
LEMMA WindowSnapshotHonest ==
  ASSUME NEW w \in Windows, NEW alive \in SUBSET Process, NEW drops, NEW why,
         \A d \in Dir : Given(w, d) = w.captured[d]
  PROVE  HonestCoverage(WindowSnapshot(w, alive, drops, why))
<1> DEFINE s == WindowSnapshot(w, alive, drops, why)
<1> SUFFICES ASSUME NEW d \in Dir
             PROVE  /\ Attributed(s, d) * Unit <= s.known[d] + s.roundings * (Unit - 1)
                    /\ s.known[d] <= Attributed(s, d) * Unit + (Unit - 1)
  BY DEF HonestCoverage
<1>1. PICK U, G, K, sr, e, n \in Nat : PartsOfWindow(w, d, s, U, G, K, sr, e, n)
  BY WindowParts
<1> DEFINE c == Rate(w.captured[d])
           u == Rate(U)
           b == w.captured[d]
<1>2. b \in Nat /\ Unit \in Nat \ {0} /\ b = U + G + K
  BY <1>1, CollectorAssumption DEF Windows, PartsOfWindow
<1>3. c \in Nat /\ c * Unit <= b /\ b <= c * Unit + (Unit - 1)
  BY <1>2, RateBounds
<1>4. u \in Nat /\ u * Unit <= U /\ U <= u * Unit + (Unit - 1)
  BY RateBounds
<1>5. e * Unit <= G /\ G <= e * Unit + n * (Unit - 1)
  BY <1>1 DEF PartsOfWindow
<1>6. Attributed(s, d) = c - (u + e) /\ s.known[d] = K /\ s.roundings = 1 + n
  BY <1>1 DEF PartsOfWindow, Attributed
<1> HIDE DEF c, u, b
<1>7. (c - (u + e)) * Unit = c * Unit - u * Unit - e * Unit
  BY <1>2, <1>3, <1>4
<1>8. (1 + n) * (Unit - 1) = (Unit - 1) + n * (Unit - 1)
  BY <1>2
<1>9. c * Unit - u * Unit - e * Unit <= K + ((Unit - 1) + n * (Unit - 1))
  BY <1>2, <1>3, <1>4, <1>5
<1>10. K <= (c * Unit - u * Unit - e * Unit) + (Unit - 1)
  BY <1>2, <1>3, <1>4, <1>5
<1> QED BY <1>6, <1>7, <1>8, <1>9, <1>10

\* The keys of the flows in one direction that resolve to a member of S, and
\* the bytes of each flow: BytesTo is a sum over them.
KeysTo(flows, S, d) == {k \in DOMAIN flows : flows[k].to \in S /\ flows[k].dir = d}
BytesOf(flows) == [k \in DOMAIN flows |-> flows[k].bytes]

LEMMA FlowSetsType ==
  ASSUME NEW flows \in FlowSets
  PROVE  /\ IsFiniteSet(DOMAIN flows)
         /\ \A k \in DOMAIN flows : flows[k] \in Flow /\ BytesOf(flows)[k] \in Nat
<1>1. PICK keys \in SUBSET FlowKey : flows \in [keys -> Flow]
  BY DEF FlowSets
<1>2. IsFiniteSet(keys)
  BY CollectorAssumption, FS_Subset
<1>3. DOMAIN flows = keys
  BY <1>1
<1>4. \A k \in keys : flows[k] \in Flow
  BY <1>1
<1>5. \A k \in keys : flows[k].bytes \in Nat
  BY <1>4, CollectorAssumption DEF Flow
<1> QED BY <1>2, <1>3, <1>4, <1>5 DEF BytesOf

LEMMA BytesToType ==
  ASSUME NEW flows \in FlowSets, NEW S, NEW d
  PROVE  /\ BytesTo(flows, S, d) \in Nat
         /\ IsFiniteSet(KeysTo(flows, S, d))
         /\ \A k \in KeysTo(flows, S, d) : BytesOf(flows)[k] \in Nat
         /\ BytesTo(flows, S, d) = SumFunctionOnSet(BytesOf(flows), KeysTo(flows, S, d))
<1>1. KeysTo(flows, S, d) \subseteq DOMAIN flows
  BY DEF KeysTo
<1>2. IsFiniteSet(KeysTo(flows, S, d)) /\ \A k \in KeysTo(flows, S, d) : BytesOf(flows)[k] \in Nat
  BY <1>1, FlowSetsType, FS_Subset
<1>3. BytesTo(flows, S, d) = SumFunctionOnSet(BytesOf(flows), KeysTo(flows, S, d))
  BY DEF BytesTo, BytesOf, KeysTo
<1> QED BY <1>2, <1>3, SumType

\* A flow resolves to one answer: the bytes to S and to T add up.
LEMMA BytesToDisjoint ==
  ASSUME NEW flows \in FlowSets, NEW S, NEW T, S \cap T = {}, NEW d
  PROVE  BytesTo(flows, S \cup T, d) = BytesTo(flows, S, d) + BytesTo(flows, T, d)
<1>1. /\ KeysTo(flows, S \cup T, d) = KeysTo(flows, S, d) \cup KeysTo(flows, T, d)
      /\ KeysTo(flows, S, d) \cap KeysTo(flows, T, d) = {}
  BY DEF KeysTo
<1>2. \A k \in KeysTo(flows, S, d) \cup KeysTo(flows, T, d) : BytesOf(flows)[k] \in Nat
  BY BytesToType
<1>3. SumFunctionOnSet(BytesOf(flows), KeysTo(flows, S, d) \cup KeysTo(flows, T, d))
        = SumFunctionOnSet(BytesOf(flows), KeysTo(flows, S, d))
            + SumFunctionOnSet(BytesOf(flows), KeysTo(flows, T, d))
  BY <1>1, <1>2, BytesToType, SumDisjoint
<1> QED BY <1>1, <1>3, BytesToType

\* Summed one answer at a time, the bytes are the same.
LEMMA BytesToEach ==
  ASSUME NEW flows \in FlowSets, NEW S, IsFiniteSet(S), NEW d,
         NEW f, \A x \in S : f[x] = BytesTo(flows, {x}, d)
  PROVE  SumFunctionOnSet(f, S) = BytesTo(flows, S, d)
<1> DEFINE T == {R \in SUBSET S : SumFunctionOnSet(f, R) # BytesTo(flows, R, d)}
<1>1. ASSUME NEW R \in T, \A y \in T : ~ (y \subseteq R /\ y # R)
      PROVE  FALSE
  <2>1. R \subseteq S /\ SumFunctionOnSet(f, R) # BytesTo(flows, R, d)
    OBVIOUS
  <2>2. R # {}
    <3>1. KeysTo(flows, {}, d) = {}
      BY DEF KeysTo
    <3>2. BytesTo(flows, {}, d) = 0
      BY <3>1, BytesToType, SumEmpty
    <3> QED BY <2>1, <3>2, SumEmpty
  <2>3. PICK x \in R : TRUE
    BY <2>2
  <2> DEFINE Q == R \ {x}
  <2>4. /\ Q \subseteq S /\ Q \cap {x} = {} /\ Q \cup {x} = R /\ Q # R
        /\ IsFiniteSet(Q) /\ IsFiniteSet({x})
    BY <2>1, <2>3, FS_Singleton, FS_Subset
  <2>5. SumFunctionOnSet(f, Q) = BytesTo(flows, Q, d)
    BY <1>1, <2>3, <2>4
  <2> HIDE DEF Q, T
  <2>6. \A y \in Q \cup {x} : f[y] \in Nat
    <3> SUFFICES ASSUME NEW y \in S PROVE f[y] \in Nat
      BY <2>1, <2>4
    <3>1. BytesTo(flows, {y}, d) \in Nat
      BY BytesToType
    <3>2. f[y] = BytesTo(flows, {y}, d)
      OBVIOUS
    <3> QED BY <3>1, <3>2
  <2>7. SumFunctionOnSet(f, Q \cup {x}) = SumFunctionOnSet(f, Q) + SumFunctionOnSet(f, {x})
    BY <2>4, <2>6, SumDisjoint
  <2>8. SumFunctionOnSet(f, {x}) = BytesTo(flows, {x}, d)
    BY <2>1, <2>3, <2>6, SumOne
  <2>9. BytesTo(flows, Q \cup {x}, d) = BytesTo(flows, Q, d) + BytesTo(flows, {x}, d)
    BY <2>4, BytesToDisjoint
  <2> QED BY <2>1, <2>4, <2>5, <2>7, <2>8, <2>9
<1>2. T \subseteq SUBSET S
  OBVIOUS
<1> HIDE DEF T
<1>3. T = {}
  BY <1>1, <1>2, MinimalSubset
<1> QED BY <1>3 DEF T

\* What the interface carried beyond the flows completes them to the total.
LEMMA ResidualCompletes ==
  ASSUME NEW captured \in Nat, NEW bpf \in Nat
  PROVE  /\ Residual(captured, bpf) \in Nat
         /\ TotalOf(captured, bpf) = bpf + Residual(captured, bpf)
  BY DEF Residual, TotalOf, Larger

\* A snapshot of flows is made of K bytes of what is listed, U without an
\* owner, G of processes that are gone and r that no flow carried; sr and
\* s.listed are the rates of U and K, each answer rounded for itself.
PartsOfFlows(s, d, K, U, G, r, sr) ==
  /\ s.captured[d] = Rate(K + U + G + r) /\ s.unknown[d] = Rate(U + G + r)
  /\ SumFunctionOnSet(Amounts(s.category, d), Category) = sr + Rate(r) + Rate(G)
  /\ s.listed[d] \in Nat /\ s.known[d] = K /\ s.roundings = 1
  /\ sr * Unit <= U /\ s.listed[d] * Unit <= K

LEMMA FlowParts ==
  ASSUME NEW w \in Windows, NEW flows \in FlowSets, NEW alive \in SUBSET Process,
         NEW drops, NEW d \in Dir
  PROVE  \E K, U, G, r, sr \in Nat :
           PartsOfFlows(CgroupSnapshot(w, flows, alive, drops), d, K, U, G, r, sr)
<1> DEFINE s == CgroupSnapshot(w, flows, alive, drops)
           gone == Process \ alive
           known == BytesTo(flows, alive \cup Container, d)
           explicit == BytesTo(flows, gone \cup Reason, d)
           U == BytesTo(flows, Reason, d)
           G == BytesTo(flows, gone, d)
           r == Residual(w.captured[d], known + explicit)
           total == TotalOf(w.captured[d], known + explicit)
           ratesTo == [x \in alive \cup Container \cup Reason |->
                         [e \in Dir |-> Rate(BytesTo(flows, {x}, e))]]
           Q == Amounts(ratesTo, d)
           B == [x \in alive \cup Container \cup Reason |-> BytesTo(flows, {x}, d)]
           C == Amounts(s.category, d)
<1>1. /\ IsFiniteSet(alive \cup Container) /\ IsFiniteSet(Reason)
      /\ gone \cap Reason = {}
  BY CollectorAssumption, ReasonsFinite, FS_Subset, FS_Union DEF Category
<1>2. /\ known \in Nat /\ explicit \in Nat /\ U \in Nat /\ G \in Nat
      /\ explicit = U + G
  <2>1. BytesTo(flows, gone \cup Reason, d) = BytesTo(flows, gone, d) + BytesTo(flows, Reason, d)
    BY <1>1, BytesToDisjoint
  <2>2. known \in Nat /\ U \in Nat /\ G \in Nat
    BY BytesToType
  <2> QED BY <2>1, <2>2
<1>3. r \in Nat /\ total = known + explicit + r
  <2>1. w.captured[d] \in Nat /\ known + explicit \in Nat
    BY <1>2 DEF Windows
  <2> HIDE DEF known, explicit
  <2> QED BY <2>1, ResidualCompletes
<1>4. /\ s.captured[d] = Rate(total)
      /\ s.unknown[d] = Rate(explicit + r)
      /\ s.listed[d] = SumFunctionOnSet(Q, alive \cup Container)
      /\ s.known[d] = known
      /\ s.roundings = 1
  BY DEF CgroupSnapshot
<1>5. \A x \in alive \cup Container \cup Reason :
        B[x] = BytesTo(flows, {x}, d) /\ B[x] \in Nat /\ Q[x] = Rate(B[x])
  BY BytesToType DEF Amounts
<1>6. /\ C["exited"] = Rate(G)
      /\ C["unmatched"] = Q["unmatched"] + Rate(r)
      /\ \A x \in Reason \ {"unmatched"} : C[x] = Q[x]
  BY DEF CgroupSnapshot, Amounts, Category, Reason
<1> HIDE DEF s, gone, known, explicit, U, G, r, total, ratesTo, Q, B, C
<1>7. SumFunctionOnSet(B, alive \cup Container) = known
  BY <1>1, <1>5, BytesToEach DEF known
<1>8. SumFunctionOnSet(B, Reason) = U
  BY <1>1, <1>5, BytesToEach DEF U
<1>9. /\ SumFunctionOnSet(Q, alive \cup Container) \in Nat
      /\ SumFunctionOnSet(Q, alive \cup Container) * Unit <= known
  BY <1>1, <1>5, <1>7, SumOfRates
<1>10. /\ SumFunctionOnSet(Q, Reason) \in Nat
       /\ SumFunctionOnSet(Q, Reason) * Unit <= U
  BY <1>1, <1>5, <1>8, SumOfRates
<1>11. SumFunctionOnSet(C, Category) = SumFunctionOnSet(Q, Reason) + Rate(r) + Rate(G)
  <2>1. /\ Rate(r) \in Nat /\ Rate(G) \in Nat
        /\ \A x \in Reason : Q[x] \in Nat
        /\ "unmatched" \in Reason
    BY <1>2, <1>3, <1>5, RateBounds DEF Reason
  <2>2. SumFunctionOnSet(C, Reason) = SumFunctionOnSet(Q, Reason) + Rate(r)
    BY <1>1, <1>6, <2>1, SumGrows
  <2>3. \A x \in Reason \cup {"exited"} : C[x] \in Nat
    BY <1>6, <2>1
  <2>4. SumFunctionOnSet(C, Reason \cup {"exited"}) = SumFunctionOnSet(C, Reason) + SumFunctionOnSet(C, {"exited"})
    BY <2>3, ReasonsFinite, SumDisjoint
  <2>5. SumFunctionOnSet(C, {"exited"}) = Rate(G)
    BY <1>6, <2>1, SumOne
  <2> QED BY <2>2, <2>4, <2>5, ReasonsFinite
<1>12. /\ total = known + U + G + r
       /\ explicit + r = U + G + r
  BY <1>2, <1>3
<1>13. PartsOfFlows(s, d, known, U, G, r, SumFunctionOnSet(Q, Reason))
  BY <1>4, <1>9, <1>10, <1>11, <1>12 DEF C, PartsOfFlows
<1> QED BY <1>2, <1>3, <1>10, <1>13 DEF s

\* Flows are given to one answer each, and what the interface saw beyond them to
\* one reason: their snapshot fits together.
LEMMA FlowSnapshotFits ==
  ASSUME NEW w \in Windows, NEW flows \in FlowSets, NEW alive \in SUBSET Process, NEW drops
  PROVE  Fits(CgroupSnapshot(w, flows, alive, drops))
<1> DEFINE s == CgroupSnapshot(w, flows, alive, drops)
<1> SUFFICES ASSUME NEW d \in Dir
             PROVE  LET categories == SumFunctionOnSet(Amounts(s.category, d), Category) IN
                    /\ categories <= s.unknown[d]
                    /\ s.unknown[d] <= s.captured[d]
                    /\ s.listed[d] + categories <= s.captured[d]
  BY DEF Fits
<1>1. PICK K, U, G, r, sr \in Nat : PartsOfFlows(s, d, K, U, G, r, sr)
  BY FlowParts
<1> DEFINE l == s.listed[d]
           q == Rate(r)
           g == Rate(G)
           u == Rate(U + G + r)
<1>2. /\ Unit \in Nat \ {0} /\ l \in Nat
      /\ sr * Unit <= U /\ l * Unit <= K
  BY <1>1, CollectorAssumption DEF PartsOfFlows
<1>3. q \in Nat /\ q * Unit <= r
  BY RateBounds
<1>4. g \in Nat /\ g * Unit <= G
  BY RateBounds
<1>5. u \in Nat /\ u * Unit <= U + G + r
  BY RateBounds
<1> HIDE DEF l, q, g, u
<1>6. sr + q + g <= Rate(U + G + r)
  <2>1. (sr + q + g) * Unit = sr * Unit + q * Unit + g * Unit
    BY <1>2, <1>3, <1>4
  <2>2. (sr + q + g) * Unit <= U + G + r
    BY <2>1, <1>2, <1>3, <1>4
  <2> QED BY <2>2, <1>3, <1>4, RateLargest
<1>7. u <= Rate(K + U + G + r)
  <2>1. u * Unit <= K + U + G + r
    BY <1>2, <1>5
  <2> QED BY <2>1, <1>5, RateLargest
<1>8. l + (sr + q + g) <= Rate(K + U + G + r)
  <2>1. (l + (sr + q + g)) * Unit = l * Unit + sr * Unit + q * Unit + g * Unit
    BY <1>2, <1>3, <1>4
  <2>2. (l + (sr + q + g)) * Unit <= K + U + G + r
    BY <2>1, <1>2, <1>3, <1>4
  <2> QED BY <2>2, <1>2, <1>3, <1>4, RateLargest
<1> QED BY <1>1, <1>6, <1>7, <1>8 DEF PartsOfFlows, l, q, g, u

\* What is listed of the flows is the captured rate minus the unknown rate, but
\* for one rounding of each.
LEMMA FlowSnapshotHonest ==
  ASSUME NEW w \in Windows, NEW flows \in FlowSets, NEW alive \in SUBSET Process, NEW drops
  PROVE  HonestCoverage(CgroupSnapshot(w, flows, alive, drops))
<1> DEFINE s == CgroupSnapshot(w, flows, alive, drops)
<1> SUFFICES ASSUME NEW d \in Dir
             PROVE  /\ Attributed(s, d) * Unit <= s.known[d] + s.roundings * (Unit - 1)
                    /\ s.known[d] <= Attributed(s, d) * Unit + (Unit - 1)
  BY DEF HonestCoverage
<1>1. PICK K, U, G, r, sr \in Nat : PartsOfFlows(s, d, K, U, G, r, sr)
  BY FlowParts
<1> DEFINE X == U + G + r
           c == Rate(K + U + G + r)
           u == Rate(U + G + r)
<1>2. c \in Nat /\ c * Unit <= K + X /\ K + X <= c * Unit + (Unit - 1)
  <2>1. K + U + G + r \in Nat /\ K + U + G + r = K + X
    OBVIOUS
  <2> QED BY <2>1, RateBounds
<1>3. u \in Nat /\ u * Unit <= X /\ X <= u * Unit + (Unit - 1)
  BY RateBounds
<1>4. X \in Nat /\ Unit \in Nat \ {0}
  BY CollectorAssumption
<1>5. Attributed(s, d) = c - u /\ s.known[d] = K /\ s.roundings = 1
  BY <1>1 DEF PartsOfFlows, Attributed
<1> HIDE DEF X, c, u
<1>6. (c - u) * Unit = c * Unit - u * Unit /\ 1 * (Unit - 1) = Unit - 1
  BY <1>2, <1>3, <1>4
<1> QED BY <1>2, <1>3, <1>4, <1>5, <1>6

\* What marking a snapshot of flows as partial leaves alone.
LEMMA MarkedParts ==
  ASSUME NEW w, NEW flows, NEW alive, NEW drops, NEW complete \in BOOLEAN,
         NEW resolverError \in BOOLEAN, NEW unreadable,
         Fits(CgroupSnapshot(w, flows, alive, drops)),
         HonestCoverage(CgroupSnapshot(w, flows, alive, drops))
  PROVE  LET t == [Marked(CgroupSnapshot(w, flows, alive, drops), complete, resolverError)
                     EXCEPT !.unreadable = unreadable] IN
         Fits(t) /\ HonestCoverage(t) /\ t.packets = w.packets /\ t.drops = drops
<1> DEFINE s == CgroupSnapshot(w, flows, alive, drops)
           t == [Marked(s, complete, resolverError) EXCEPT !.unreadable = unreadable]
<1>1. /\ t.captured = s.captured /\ t.unknown = s.unknown /\ t.category = s.category
      /\ t.listed = s.listed /\ t.known = s.known /\ t.roundings = s.roundings
      /\ t.packets = w.packets /\ t.drops = drops
  BY DEF CgroupSnapshot, Marked
<1> HIDE DEF s, t
<1>2. Fits(s) /\ HonestCoverage(s)
  BY DEF s
<1>3. Fits(t) /\ HonestCoverage(t)
  BY <1>1, <1>2 DEF Fits, HonestCoverage, Attributed
<1> QED BY <1>1, <1>3 DEF s, t

\* What marking a snapshot of a window as mixed leaves alone.
LEMMA MixedParts ==
  ASSUME NEW w, NEW alive, NEW drops, NEW why, Fits(WindowSnapshot(w, alive, drops, why))
  PROVE  LET t == [WindowSnapshot(w, alive, drops, why) EXCEPT !.mixed = TRUE] IN
         Fits(t) /\ t.mixed /\ t.packets = w.packets /\ t.drops = drops
<1> DEFINE s == WindowSnapshot(w, alive, drops, why)
           t == [s EXCEPT !.mixed = TRUE]
<1>1. /\ t.captured = s.captured /\ t.unknown = s.unknown /\ t.category = s.category
      /\ t.listed = s.listed /\ t.mixed /\ t.packets = w.packets /\ t.drops = drops
  BY DEF WindowSnapshot
<1> HIDE DEF s, t
<1>2. Fits(s)
  BY DEF s
<1>3. Fits(t)
  BY <1>1, <1>2 DEF Fits
<1> QED BY <1>1, <1>3 DEF s, t

-----------------------------------------------------------------------------
(* The window.                                                             *)

LEMMA NewWindowGivesNothing ==
  /\ NewWindow \in Windows
  /\ \A d \in Dir : NewWindow.captured[d] = 0 /\ Given(NewWindow, d) = 0
<1>1. NewWindow \in Windows
  BY DEF NewWindow, Windows, NoTraffic
<1>2. ASSUME NEW d \in Dir
      PROVE  NewWindow.captured[d] = 0 /\ Given(NewWindow, d) = 0
  <2>1. /\ \A r \in Reason : Amounts(NewWindow.unknown, d)[r] = 0
        /\ \A p \in Process : Amounts(NewWindow.processes, d)[p] = 0
        /\ NewWindow.captured[d] = 0
    BY DEF NewWindow, Amounts, NoTraffic
  <2>2. SumFunctionOnSet(Amounts(NewWindow.unknown, d), Reason) = 0
    BY <2>1, ReasonsFinite, SumZero
  <2>3. SumFunctionOnSet(Amounts(NewWindow.processes, d), Process) = 0
    BY <2>1, CollectorAssumption, SumZero
  <2> QED BY <2>1, <2>2, <2>3 DEF Given
<1> QED BY <1>1, <1>2

\* Amounts added up per reason and per process are natural numbers.
LEMMA GivenType ==
  ASSUME NEW w \in Windows, NEW d \in Dir
  PROVE  /\ \A r \in Reason : Amounts(w.unknown, d)[r] \in Nat
         /\ \A p \in Process : Amounts(w.processes, d)[p] \in Nat
         /\ SumFunctionOnSet(Amounts(w.unknown, d), Reason) \in Nat
         /\ SumFunctionOnSet(Amounts(w.processes, d), Process) \in Nat
         /\ Given(w, d) \in Nat
<1>1. /\ \A r \in Reason : Amounts(w.unknown, d)[r] \in Nat
      /\ \A p \in Process : Amounts(w.processes, d)[p] \in Nat
  BY DEF Windows, Amounts
<1>2. /\ SumFunctionOnSet(Amounts(w.unknown, d), Reason) \in Nat
      /\ SumFunctionOnSet(Amounts(w.processes, d), Process) \in Nat
  BY <1>1, ReasonsFinite, CollectorAssumption, SumType
<1> QED BY <1>1, <1>2 DEF Given

LEMMA AddCounts ==
  ASSUME NEW traffic \in [Dir -> Nat], NEW d \in Dir, NEW n \in Nat
  PROVE  /\ Add(traffic, d, n) \in [Dir -> Nat]
         /\ \A e \in Dir : Add(traffic, d, n)[e] = traffic[e] + (IF e = d THEN n ELSE 0)
  BY DEF Add

\* A packet read for eBPF counts in the totals and is given to nobody.
LEMMA ObserveCounts ==
  ASSUME NEW w \in Windows, NEW d \in Dir, NEW n \in Nat
  PROVE  LET o == Observe(w, d, n) IN
         /\ o \in Windows /\ o.packets = w.packets + 1
         /\ o.unknown = w.unknown /\ o.processes = w.processes
         /\ \A e \in Dir : /\ o.captured[e] = w.captured[e] + (IF e = d THEN n ELSE 0)
                           /\ Given(o, e) = Given(w, e)
<1> DEFINE o == Observe(w, d, n)
           captured == Add(w.captured, d, n)
<1>1. w.captured \in [Dir -> Nat] /\ w.packets \in Nat
  BY DEF Windows
<1>2. captured \in [Dir -> Nat]
  BY <1>1, AddCounts
<1>3. /\ o \in Windows /\ o.captured = captured /\ o.packets = w.packets + 1
      /\ o.unknown = w.unknown /\ o.processes = w.processes
  <2> HIDE DEF captured
  <2>1. o = [w EXCEPT !.captured = captured, !.packets = @ + 1]
    BY DEF Observe, captured
  <2> HIDE DEF o
  <2> DEFINE p == w.packets + 1
             v == [w EXCEPT !.captured = captured]
  <2>2. p \in Nat
    BY <1>1
  <2>3. o = [v EXCEPT !.packets = p]
    BY <1>1, <2>1 DEF Windows
  <2>4. /\ v \in Windows /\ v.captured = captured
        /\ v.unknown = w.unknown /\ v.processes = w.processes
    BY <1>2 DEF Windows
  <2> HIDE DEF p, v
  <2>5. /\ o \in Windows /\ o.captured = v.captured /\ o.packets = p
        /\ o.unknown = v.unknown /\ o.processes = v.processes
    BY <2>2, <2>3, <2>4 DEF Windows
  <2> QED BY <2>4, <2>5 DEF p
<1>4. \A e \in Dir : o.captured[e] = w.captured[e] + (IF e = d THEN n ELSE 0)
  BY <1>1, <1>3, AddCounts
<1> HIDE DEF o
<1>5. \A e \in Dir : Given(o, e) = Given(w, e)
  BY <1>3 DEF Given
<1> QED BY <1>3, <1>4, <1>5 DEF o

\* A packet read without eBPF is given once, to a process or to a reason.
LEMMA AccountGives ==
  ASSUME NEW w \in Windows, NEW d \in Dir, NEW n \in Nat, NEW answer \in Process \cup Reason
  PROVE  LET o == Account(w, d, n, answer) IN
         /\ o \in Windows /\ o.packets = w.packets + 1
         /\ \A e \in Dir : LET more == IF e = d THEN n ELSE 0 IN
              o.captured[e] = w.captured[e] + more /\ Given(o, e) = Given(w, e) + more
<1> DEFINE seen == Observe(w, d, n)
           o == Account(w, d, n, answer)
<1>0. /\ seen \in Windows /\ seen.packets = w.packets + 1
      /\ seen.unknown = w.unknown /\ seen.processes = w.processes
      /\ \A e \in Dir : /\ seen.captured[e] = w.captured[e] + (IF e = d THEN n ELSE 0)
                        /\ Given(seen, e) = Given(w, e)
  BY ObserveCounts
<1>1. CASE answer \in Reason
  <2> DEFINE traffic == Add(seen.unknown[answer], d, n)
  <2>1. o = [seen EXCEPT !.unknown[answer] = traffic]
    BY <1>1 DEF Account
  <2>2. seen.unknown[answer] \in [Dir -> Nat]
    BY <1>0, <1>1 DEF Windows
  <2>3. /\ traffic \in [Dir -> Nat]
        /\ \A e \in Dir : traffic[e] = seen.unknown[answer][e] + (IF e = d THEN n ELSE 0)
    BY <2>2, AddCounts
  <2> HIDE DEF o, seen, traffic
  <2>4. /\ o \in Windows /\ o.packets = seen.packets /\ o.captured = seen.captured
        /\ o.processes = seen.processes
        /\ o.unknown = [seen.unknown EXCEPT ![answer] = traffic]
    BY <1>0, <2>1, <2>3 DEF Windows
  <2>5. ASSUME NEW e \in Dir
        PROVE  Given(o, e) = Given(seen, e) + (IF e = d THEN n ELSE 0)
    <3> DEFINE more == IF e = d THEN n ELSE 0
    <3>1. /\ Amounts(o.unknown, e)[answer] = Amounts(seen.unknown, e)[answer] + more
          /\ \A r \in Reason \ {answer} : Amounts(o.unknown, e)[r] = Amounts(seen.unknown, e)[r]
      <4>1. seen.unknown \in [Reason -> [Dir -> Nat]]
        BY <1>0 DEF Windows
      <4> QED BY <4>1, <1>1, <2>3, <2>4 DEF Amounts
    <3>2. /\ \A r \in Reason : Amounts(seen.unknown, e)[r] \in Nat
          /\ SumFunctionOnSet(Amounts(seen.unknown, e), Reason) \in Nat
          /\ SumFunctionOnSet(Amounts(seen.processes, e), Process) \in Nat
          /\ more \in Nat /\ IsFiniteSet(Reason)
      BY <1>0, GivenType, ReasonsFinite
    <3> HIDE DEF more
    <3>3. SumFunctionOnSet(Amounts(o.unknown, e), Reason)
            = SumFunctionOnSet(Amounts(seen.unknown, e), Reason) + more
      BY <1>1, <3>1, <3>2, SumGrows
    <3> QED BY <2>4, <3>2, <3>3 DEF Given, more
  <2> QED BY <1>0, <2>4, <2>5 DEF o
<1>2. CASE answer \in Process \ Reason
  <2> DEFINE traffic == Add(seen.processes[answer], d, n)
  <2>1. o = [seen EXCEPT !.processes[answer] = traffic]
    BY <1>2 DEF Account
  <2>2. seen.processes[answer] \in [Dir -> Nat]
    BY <1>0, <1>2 DEF Windows
  <2>3. /\ traffic \in [Dir -> Nat]
        /\ \A e \in Dir : traffic[e] = seen.processes[answer][e] + (IF e = d THEN n ELSE 0)
    BY <2>2, AddCounts
  <2> HIDE DEF o, seen, traffic
  <2>4. /\ o \in Windows /\ o.packets = seen.packets /\ o.captured = seen.captured
        /\ o.unknown = seen.unknown
        /\ o.processes = [seen.processes EXCEPT ![answer] = traffic]
    BY <1>0, <2>1, <2>3 DEF Windows
  <2>5. ASSUME NEW e \in Dir
        PROVE  Given(o, e) = Given(seen, e) + (IF e = d THEN n ELSE 0)
    <3> DEFINE more == IF e = d THEN n ELSE 0
    <3>1. /\ Amounts(o.processes, e)[answer] = Amounts(seen.processes, e)[answer] + more
          /\ \A p \in Process \ {answer} : Amounts(o.processes, e)[p] = Amounts(seen.processes, e)[p]
      <4>1. seen.processes \in [Process -> [Dir -> Nat]]
        BY <1>0 DEF Windows
      <4> QED BY <4>1, <1>2, <2>3, <2>4 DEF Amounts
    <3>2. /\ \A p \in Process : Amounts(seen.processes, e)[p] \in Nat
          /\ SumFunctionOnSet(Amounts(seen.unknown, e), Reason) \in Nat
          /\ SumFunctionOnSet(Amounts(seen.processes, e), Process) \in Nat
          /\ more \in Nat /\ IsFiniteSet(Process)
      BY <1>0, GivenType, CollectorAssumption
    <3> HIDE DEF more
    <3>3. SumFunctionOnSet(Amounts(o.processes, e), Process)
            = SumFunctionOnSet(Amounts(seen.processes, e), Process) + more
      BY <1>2, <3>1, <3>2, SumGrows
    <3> QED BY <2>4, <3>2, <3>3 DEF Given, more
  <2> QED BY <1>0, <2>4, <2>5 DEF o
<1> QED BY <1>1, <1>2

-----------------------------------------------------------------------------
(* The loop.                                                               *)

\* No byte of the window is given twice, and without eBPF every byte is given.
WindowGiven ==
  /\ \A d \in Dir : Given(window, d) <= window.captured[d]
  /\ source = "af_packet" /\ pc # "stopped" =>
       \A d \in Dir : Given(window, d) = window.captured[d]

\* The total at the last successful statistics call was L: the collector keeps
\* what the wrapped counter shows of it, and has reported no more than that.
DropsUpTo(L) ==
  /\ previousDrops = (L % DropModulus)
  /\ reported.drops <= L
  /\ (dropped < DropModulus /\ pc # "stopped") => reported.drops = previousDrops

CollectorInv ==
  /\ TypeOK /\ reported \in [packets : Nat, drops : Nat]
  /\ WindowGiven
  /\ \E L \in 0..dropped : DropsUpTo(L)
  /\ EachPacketOnce
  /\ BreakdownFits /\ CoverageOfOneSource

LEMMA InitInv == Init => CollectorInv
<1> SUFFICES ASSUME Init PROVE CollectorInv
  OBVIOUS
<1>1. DropModulus \in Nat \ {0} /\ 0 % DropModulus = 0
  BY CollectorAssumption
<1>2. TypeOK /\ reported \in [packets : Nat, drops : Nat]
  <2>1. window \in Windows
    BY NewWindowGivesNothing DEF Init
  <2>2. once \in BOOLEAN /\ due \in BOOLEAN
    BY DEF Init
  <2>3. source \in {"ebpf", "af_packet"} /\ ((source = "ebpf") <=> (reason = NoReason))
    BY DEF Init, NoReason
  <2>4. /\ pc = "read" /\ window = NewWindow /\ previousDrops = 0
        /\ cuts = 0 /\ received = 0 /\ dropped = 0
        /\ reported = [packets |-> 0, drops |-> 0]
    BY DEF Init
  <2>5. previousDrops \in 0..(DropModulus - 1)
    BY <1>1, <2>4
  <2> QED BY <2>1, <2>2, <2>3, <2>4, <2>5 DEF TypeOK
<1>3. WindowGiven
  <2>1. window = NewWindow
    BY DEF Init
  <2> QED BY <2>1, NewWindowGivesNothing DEF WindowGiven
<1>4. \E L \in 0..dropped : DropsUpTo(L)
  <2>1. previousDrops = 0 /\ reported.drops = 0 /\ dropped = 0
    BY DEF Init
  <2>2. DropsUpTo(0) /\ 0 \in 0..dropped
    BY <1>1, <2>1 DEF DropsUpTo
  <2> QED BY <2>2
<1>5. EachPacketOnce /\ BreakdownFits /\ CoverageOfOneSource
  <2>1. cuts = 0 /\ received = 0 /\ reported.packets = 0 /\ window.packets = 0
    BY DEF Init, NewWindow
  <2> QED BY <2>1 DEF EachPacketOnce, BreakdownFits, CoverageOfOneSource
<1> QED BY <1>2, <1>3, <1>4, <1>5 DEF CollectorInv

\* A cut is safe when its snapshot fits, is honest unless it mixes the sources,
\* and reports the packets of the window and the drops since the last call.
LEMMA CutKeepsInv ==
  ASSUME CollectorInv, pc = "check", NEW s, NEW stats \in BOOLEAN,
         Write(s), Fits(s), ~s.mixed => HonestCoverage(s),
         s.packets = window.packets, s.drops = DropsNow(stats),
         previousDrops' = DropBaseline(stats),
         source' \in {"ebpf", "af_packet"}, (source' = "ebpf") <=> (reason' = NoReason),
         source' = "ebpf" => source = "ebpf",
         UNCHANGED <<once, received, dropped>>
  PROVE  CollectorInv'
<1> USE DEF CollectorInv
<1>0. DropModulus \in Nat \ {0} /\ dropped \in Nat /\ cuts \in Nat /\ received \in Nat /\ window.packets \in Nat
  BY CollectorAssumption DEF TypeOK, Windows
<1>1. (dropped % DropModulus) \in 0..(DropModulus - 1)
  BY <1>0
<1>2. previousDrops' \in 0..(DropModulus - 1)
  BY <1>1 DEF TypeOK, DropBaseline
<1>3. PICK L \in 0..dropped : DropsUpTo(L)
  OBVIOUS
<1>4. s.drops \in Nat /\ \E K \in L..dropped :
         /\ previousDrops' = (K % DropModulus)
         /\ s.drops <= K - L
         /\ dropped < DropModulus => s.drops = previousDrops' - previousDrops
  <2>1. previousDrops \in 0..(DropModulus - 1) /\ previousDrops = (L % DropModulus)
    BY <1>3 DEF TypeOK, DropsUpTo
  <2>2. CASE ~stats
    <3>1. s.drops = 0 /\ previousDrops' = previousDrops
      BY <2>2 DEF DropsNow, DropBaseline
    <3> QED BY <1>0, <2>1, <3>1
  <2>3. CASE stats
    <3>0. L \in Nat /\ L <= dropped /\ dropped <= dropped
      BY <1>0
    <3>1. /\ (dropped % DropModulus) - (L % DropModulus) <= dropped - L
          /\ L < DropModulus => (L % DropModulus) = L
      BY <1>0, <3>0, ModuloGrowth, Zenon
    <3>2. dropped < DropModulus => (dropped % DropModulus) = dropped
      BY <1>0, <3>0, ModuloGrowth, Zenon
    <3>3. /\ previousDrops' = (dropped % DropModulus)
          /\ s.drops = IF (dropped % DropModulus) >= previousDrops
                         THEN (dropped % DropModulus) - previousDrops ELSE 0
      BY <2>3 DEF DropsNow, DropBaseline
    <3> DEFINE t == dropped % DropModulus
    <3>4. /\ t \in Nat /\ t - previousDrops <= dropped - L /\ previousDrops' = t
          /\ s.drops = IF t >= previousDrops THEN t - previousDrops ELSE 0
          /\ dropped < DropModulus => t = dropped /\ previousDrops = L
      BY <1>0, <1>1, <2>1, <3>1, <3>2, <3>3
    <3> HIDE DEF t
    <3>5. /\ s.drops \in Nat /\ s.drops <= dropped - L
          /\ dropped < DropModulus => s.drops = previousDrops' - previousDrops
      BY <1>0, <2>1, <3>4
    <3>6. dropped \in L..dropped
      BY <1>0
    <3> QED BY <3>3, <3>5, <3>6
  <2> QED BY <2>2, <2>3
<1>5. PICK K \in L..dropped :
         /\ previousDrops' = (K % DropModulus)
         /\ s.drops <= K - L
         /\ dropped < DropModulus => s.drops = previousDrops' - previousDrops
  BY <1>4
<1>6. K \in 0..dropped' /\ dropped' = dropped
  BY <1>0
<1>7. /\ once' \in BOOLEAN /\ received' = received
      /\ source' = "ebpf" => source = "ebpf"
  BY DEF TypeOK
<1>8. CASE /\ published' = s /\ cuts' = cuts + 1
           /\ reported' = [packets |-> reported.packets + s.packets,
                           drops   |-> reported.drops + s.drops]
           /\ window' = NextWindow /\ due' = FALSE
           /\ pc' = IF once THEN "stopped" ELSE "read"
  <2>1. /\ window' = NewWindow /\ window' \in Windows
        /\ window'.packets = 0
        /\ \A d \in Dir : window'.captured[d] = 0 /\ Given(window', d) = 0
    <3>1. window' = NewWindow /\ NewWindow.packets = 0
      BY <1>8 DEF NextWindow, NewWindow
    <3> QED BY <3>1, NewWindowGivesNothing
  <2>2. cuts' \in Nat /\ pc' \in {"read", "check", "stopped"} /\ due' \in BOOLEAN
    <3>1. due' = FALSE /\ cuts' = cuts + 1 /\ pc' = IF once THEN "stopped" ELSE "read"
      BY <1>8
    <3>2. pc' \in {"read", "check", "stopped"}
      BY <3>1
    <3>3. due' \in BOOLEAN
      BY <3>1, Zenon
    <3>4. cuts' \in Nat
      BY <1>0, <3>1
    <3> QED BY <3>2, <3>3, <3>4, Zenon
  <2>3. TypeOK'
    BY <1>2, <1>7, <2>1, <2>2, <1>0, <1>6 DEF TypeOK
  <2>4. /\ reported'.packets = reported.packets + window.packets
        /\ reported'.drops = reported.drops + s.drops
        /\ reported.packets \in Nat /\ reported.drops \in Nat
    BY <1>8
  <2>5. reported' \in [packets : Nat, drops : Nat]
    BY <1>0, <1>4, <1>8, <2>4
  <2>6. WindowGiven'
    BY <2>1 DEF WindowGiven
  <2>7. DropsUpTo(K)'
    BY <1>0, <1>3, <1>4, <1>5, <1>6, <2>4 DEF DropsUpTo, TypeOK
  <2>8. EachPacketOnce'
    BY <1>0, <1>7, <2>1, <2>4 DEF EachPacketOnce
  <2>9. BreakdownFits' /\ CoverageOfOneSource'
    BY <1>8 DEF BreakdownFits, CoverageOfOneSource
  <2> QED BY <1>6, <2>3, <2>5, <2>6, <2>7, <2>8, <2>9
<1>9. CASE pc' = "stopped" /\ UNCHANGED <<published, cuts, reported, window, due>>
  <2>1. TypeOK'
    BY <1>0, <1>2, <1>6, <1>7, <1>9 DEF TypeOK
  <2>2. WindowGiven' /\ EachPacketOnce' /\ BreakdownFits' /\ CoverageOfOneSource'
    BY <1>9 DEF WindowGiven, EachPacketOnce, BreakdownFits, CoverageOfOneSource
  <2>3. DropsUpTo(K)'
    BY <1>3, <1>5, <1>9, <1>0 DEF DropsUpTo
  <2>4. reported' \in [packets : Nat, drops : Nat]
    BY <1>9
  <2> QED BY <1>6, <2>1, <2>2, <2>3, <2>4
<1> QED BY <1>8, <1>9 DEF Write

\* A packet is counted in one window and, without eBPF, given once.
LEMMA ReadKeepsInv ==
  ASSUME CollectorInv, ReadPacket
  PROVE  CollectorInv'
<1> USE DEF CollectorInv
<1>1. PICK d \in Dir, n \in Size :
         IF source = "ebpf" THEN window' = Observe(window, d, n)
         ELSE \E answer \in Process \cup Reason : window' = Account(window, d, n, answer)
  BY DEF ReadPacket
<1>2. /\ pc = "read" /\ received' = received + 1 /\ pc' = "check"
      /\ UNCHANGED <<once, source, reason, due, previousDrops, published, cuts,
                     dropped, reported>>
  BY DEF ReadPacket
<1>3. n \in Nat /\ window \in Windows /\ received \in Nat /\ window.packets \in Nat
  BY CollectorAssumption DEF TypeOK, Windows
<1> DEFINE more(e) == IF e = d THEN n ELSE 0
<1>4. /\ window' \in Windows /\ window'.packets = window.packets + 1
      /\ \A e \in Dir : window'.captured[e] = window.captured[e] + more(e)
      /\ source = "ebpf" =>
           /\ window'.unknown = window.unknown /\ window'.processes = window.processes
           /\ \A e \in Dir : Given(window', e) = Given(window, e)
      /\ source # "ebpf" => \A e \in Dir : Given(window', e) = Given(window, e) + more(e)
  <2>1. CASE source = "ebpf"
    <3>1. window' = Observe(window, d, n)
      BY <1>1, <2>1
    <3>2. LET o == Observe(window, d, n) IN
            /\ o \in Windows /\ o.packets = window.packets + 1
            /\ o.unknown = window.unknown /\ o.processes = window.processes
            /\ \A e \in Dir : o.captured[e] = window.captured[e] + more(e)
                              /\ Given(o, e) = Given(window, e)
      BY <1>3, ObserveCounts
    <3> QED BY <2>1, <3>1, <3>2
  <2>2. CASE source # "ebpf"
    <3>1. PICK answer \in Process \cup Reason : window' = Account(window, d, n, answer)
      BY <1>1, <2>2
    <3>2. LET o == Account(window, d, n, answer) IN
            /\ o \in Windows /\ o.packets = window.packets + 1
            /\ \A e \in Dir : o.captured[e] = window.captured[e] + more(e)
                              /\ Given(o, e) = Given(window, e) + more(e)
      BY <1>3, AccountGives
    <3> QED BY <2>2, <3>1, <3>2
  <2> QED BY <2>1, <2>2
<1>5. \A e \in Dir : /\ window.captured[e] \in Nat /\ Given(window, e) \in Nat /\ more(e) \in Nat
  BY <1>3, GivenType DEF Windows
<1> HIDE DEF more
<1>6. received' \in Nat
  BY <1>2, <1>3
<1>7. TypeOK'
  BY <1>2, <1>4, <1>6 DEF TypeOK
<1>8. WindowGiven'
  <2>1. ASSUME NEW e \in Dir PROVE Given(window, e) <= window.captured[e]
    BY DEF WindowGiven
  <2>2. ASSUME NEW e \in Dir
        PROVE  /\ Given(window', e) <= window'.captured[e]
               /\ source = "af_packet" => Given(window', e) = window'.captured[e]
    <3>1. CASE source = "ebpf"
      BY <1>4, <1>5, <2>1, <3>1
    <3>2. CASE source # "ebpf"
      <4>1. Given(window, e) = window.captured[e]
        BY <1>2, <3>2 DEF WindowGiven, TypeOK
      <4>2. window.captured[e] \in Nat /\ more(e) \in Nat
        BY <1>5
      <4> QED BY <1>4, <3>2, <4>1, <4>2
    <3> QED BY <3>1, <3>2
  <2> QED BY <1>2, <2>2 DEF WindowGiven
<1>9. \E L \in 0..dropped' : DropsUpTo(L)'
  BY <1>2 DEF DropsUpTo
<1>10. EachPacketOnce'
  BY <1>2, <1>3, <1>4 DEF EachPacketOnce
<1>11. BreakdownFits' /\ CoverageOfOneSource' /\ reported' \in [packets : Nat, drops : Nat]
  BY <1>2 DEF BreakdownFits, CoverageOfOneSource
<1> QED BY <1>7, <1>8, <1>9, <1>10, <1>11

LEMMA FlowsKeepInv ==
  ASSUME CollectorInv, CutFromFlows
  PROVE  CollectorInv'
<1>1. PICK stats \in BOOLEAN :
         /\ \E s \in {CgroupSnapshot(window, flows, alive, DropsNow(stats)) :
                        flows \in FlowSets, alive \in SUBSET Process},
               complete \in BOOLEAN, namespaces \in SUBSET NetNS :
              \E unreadable \in SUBSET namespaces :
                Write([Marked(s, complete, ResolverError(namespaces, unreadable))
                         EXCEPT !.unreadable = unreadable])
         /\ previousDrops' = DropBaseline(stats)
  BY DEF CutFromFlows
<1>2. PICK flows \in FlowSets, alive \in SUBSET Process, complete \in BOOLEAN,
           namespaces \in SUBSET NetNS : \E unreadable \in SUBSET namespaces :
         Write([Marked(CgroupSnapshot(window, flows, alive, DropsNow(stats)), complete,
                       ResolverError(namespaces, unreadable)) EXCEPT !.unreadable = unreadable])
  BY <1>1
<1>3. PICK unreadable \in SUBSET namespaces :
         Write([Marked(CgroupSnapshot(window, flows, alive, DropsNow(stats)), complete,
                       ResolverError(namespaces, unreadable)) EXCEPT !.unreadable = unreadable])
  BY <1>2
<1> DEFINE snapshot == CgroupSnapshot(window, flows, alive, DropsNow(stats))
           t == [Marked(snapshot, complete, ResolverError(namespaces, unreadable))
                   EXCEPT !.unreadable = unreadable]
<1>4. window \in Windows
  BY DEF CollectorInv, TypeOK
<1>5. Fits(snapshot) /\ HonestCoverage(snapshot)
  BY <1>4, FlowSnapshotFits, FlowSnapshotHonest
<1>6. ResolverError(namespaces, unreadable) \in BOOLEAN
  BY DEF ResolverError
<1>7. Fits(t) /\ HonestCoverage(t) /\ t.packets = window.packets /\ t.drops = DropsNow(stats)
  BY <1>5, <1>6, MarkedParts
<1>8. Write(t)
  BY <1>3
<1>9. /\ pc = "check" /\ UNCHANGED <<once, source, reason, received, dropped>>
      /\ source \in {"ebpf", "af_packet"} /\ ((source = "ebpf") <=> (reason = NoReason))
  BY DEF CutFromFlows, CollectorInv, TypeOK
<1> HIDE DEF t
<1> QED BY <1>1, <1>7, <1>8, <1>9, CutKeepsInv

LEMMA LosingEbpfKeepsInv ==
  ASSUME CollectorInv, CutLosingEbpf
  PROVE  CollectorInv'
<1>1. PICK stats \in BOOLEAN, alive \in SUBSET Process :
         /\ Write([WindowSnapshot(window, alive, DropsNow(stats), reason') EXCEPT !.mixed = TRUE])
         /\ previousDrops' = DropBaseline(stats)
  BY DEF CutLosingEbpf
<1> DEFINE t == [WindowSnapshot(window, alive, DropsNow(stats), reason') EXCEPT !.mixed = TRUE]
<1>2. window \in Windows /\ \A d \in Dir : Given(window, d) <= window.captured[d]
  BY DEF CollectorInv, TypeOK, WindowGiven
<1>3. Fits(WindowSnapshot(window, alive, DropsNow(stats), reason'))
  BY <1>2, WindowSnapshotFits
<1>4. Fits(t) /\ t.mixed /\ t.packets = window.packets /\ t.drops = DropsNow(stats)
  BY <1>3, MixedParts
<1>5. Write(t)
  BY <1>1
<1>6. /\ pc = "check" /\ source' = "af_packet" /\ reason' # NoReason
      /\ UNCHANGED <<once, received, dropped>>
  BY DEF CutLosingEbpf, NoReason
<1> HIDE DEF t
<1> QED BY <1>1, <1>4, <1>5, <1>6, CutKeepsInv

LEMMA WindowKeepsInv ==
  ASSUME CollectorInv, CutFromWindow
  PROVE  CollectorInv'
<1>1. PICK stats \in BOOLEAN, alive \in SUBSET Process :
         /\ Write(WindowSnapshot(window, alive, DropsNow(stats), reason))
         /\ previousDrops' = DropBaseline(stats)
  BY DEF CutFromWindow
<1> DEFINE t == WindowSnapshot(window, alive, DropsNow(stats), reason)
<1>2. /\ pc = "check" /\ source = "af_packet"
      /\ UNCHANGED <<once, source, reason, received, dropped>>
  BY DEF CutFromWindow
<1>3. /\ window \in Windows
      /\ \A d \in Dir : Given(window, d) <= window.captured[d] /\ Given(window, d) = window.captured[d]
  BY <1>2 DEF CollectorInv, TypeOK, WindowGiven
<1>4. Fits(t) /\ HonestCoverage(t)
  BY <1>3, WindowSnapshotFits, WindowSnapshotHonest
<1>5. t.packets = window.packets /\ t.drops = DropsNow(stats)
  BY DEF WindowSnapshot
<1>6. Write(t)
  BY <1>1
<1>7. (source = "ebpf") <=> (reason = NoReason)
  BY DEF CollectorInv, TypeOK
<1> HIDE DEF t
<1> QED BY <1>1, <1>2, <1>4, <1>5, <1>6, <1>7, CutKeepsInv

LEMMA NextInv == CollectorInv /\ [Next]_vars => CollectorInv'
<1> SUFFICES ASSUME CollectorInv, [Next]_vars PROVE CollectorInv'
  OBVIOUS
<1> USE DEF CollectorInv
<1>1. CASE IntervalOver
  <2>1. /\ due' = TRUE
        /\ UNCHANGED <<once, pc, source, reason, window, previousDrops, published,
                       cuts, received, dropped, reported>>
    BY <1>1 DEF IntervalOver
  <2> QED BY <2>1 DEF TypeOK, WindowGiven, DropsUpTo, EachPacketOnce, BreakdownFits, CoverageOfOneSource
<1>2. CASE KernelDrops
  <2>1. /\ dropped' = dropped + 1 /\ dropped \in Nat
        /\ UNCHANGED <<once, pc, source, reason, window, due, previousDrops, published,
                       cuts, received, reported>>
    BY <1>2 DEF KernelDrops, TypeOK
  <2>2. dropped' \in Nat
    BY <2>1
  <2>3. TypeOK' /\ WindowGiven' /\ EachPacketOnce' /\ BreakdownFits' /\ CoverageOfOneSource'
    BY <2>1, <2>2 DEF TypeOK, WindowGiven, EachPacketOnce, BreakdownFits, CoverageOfOneSource
  <2>4. PICK L \in 0..dropped : DropsUpTo(L)
    OBVIOUS
  <2>5. L \in 0..dropped' /\ DropsUpTo(L)'
    BY <2>1, <2>4, CollectorAssumption DEF DropsUpTo
  <2>6. reported' \in [packets : Nat, drops : Nat]
    BY <2>1
  <2> QED BY <2>3, <2>5, <2>6
<1>3. CASE ReadTimeout \/ Stop \/ NotYet
  <2>1. /\ pc # "stopped" /\ pc' \in {"read", "check", "stopped"}
        /\ UNCHANGED <<once, source, reason, window, due, previousDrops, published,
                       cuts, received, dropped, reported>>
    BY <1>3 DEF ReadTimeout, TimedOut, Stop, NotYet
  <2>2. TypeOK' /\ WindowGiven' /\ EachPacketOnce' /\ BreakdownFits' /\ CoverageOfOneSource'
    BY <2>1 DEF TypeOK, WindowGiven, EachPacketOnce, BreakdownFits, CoverageOfOneSource
  <2>3. \E L \in 0..dropped' : DropsUpTo(L)'
    BY <2>1 DEF DropsUpTo
  <2>4. reported' \in [packets : Nat, drops : Nat]
    BY <2>1
  <2> QED BY <2>2, <2>3, <2>4
<1>4. CASE ReadPacket
  BY <1>4, ReadKeepsInv
<1>5. CASE CutFromFlows
  BY <1>5, FlowsKeepInv
<1>6. CASE CutLosingEbpf
  BY <1>6, LosingEbpfKeepsInv
<1>7. CASE CutFromWindow
  BY <1>7, WindowKeepsInv
<1>8. CASE UNCHANGED vars
  BY <1>8 DEF vars, TypeOK, WindowGiven, DropsUpTo, EachPacketOnce, BreakdownFits, CoverageOfOneSource
<1> QED BY <1>1, <1>2, <1>3, <1>4, <1>5, <1>6, <1>7, <1>8 DEF Next, LoopStep

\* Every state of the loop satisfies the invariant.
THEOREM CollectorInvariant == Spec => []CollectorInv
  BY InitInv, NextInv, PTL DEF Spec

\* Every variable has its type, and a window made for eBPF knows no owners.
THEOREM TypeCorrect == Spec => []TypeOK
<1>1. CollectorInv => TypeOK
  BY DEF CollectorInv
<1> QED BY <1>1, CollectorInvariant, PTL

\* Every snapshot written fits together: no byte is counted for two processes,
\* containers or reasons, and no rounding makes the parts more than the whole.
THEOREM NothingCountedTwice == Spec => []BreakdownFits
<1>1. CollectorInv => BreakdownFits
  BY DEF CollectorInv
<1> QED BY <1>1, CollectorInvariant, PTL

\* Captured minus unknown is the rate of what is listed, but for the rounding,
\* in every snapshot of a window filled for the source it is made from.
THEOREM CoverageIsHonest == Spec => []CoverageOfOneSource
<1>1. CollectorInv => CoverageOfOneSource
  BY DEF CollectorInv
<1> QED BY <1>1, CollectorInvariant, PTL

\* Each packet read is in one snapshot, or in the window being filled.
THEOREM PacketsCountedOnce == Spec => []EachPacketOnce
<1>1. CollectorInv => EachPacketOnce
  BY DEF CollectorInv
<1> QED BY <1>1, CollectorInvariant, PTL

\* The drops of all snapshots together are at most those that happened, whatever
\* the width of the counter, and the calls that failed are made up for.
THEOREM DropsCountedOnce == Spec => []DropsReportedOnce
<1>1. CollectorInv => DropsReportedOnce
  <2> SUFFICES ASSUME CollectorInv PROVE DropsReportedOnce
    OBVIOUS
  <2>1. dropped \in Nat /\ reported.drops \in Nat
    BY DEF CollectorInv, TypeOK
  <2>2. PICK L \in 0..dropped : DropsUpTo(L)
    BY DEF CollectorInv
  <2> QED BY <2>1, <2>2 DEF DropsUpTo, DropsReportedOnce
<1> QED BY <1>1, CollectorInvariant, PTL
=============================================================================
