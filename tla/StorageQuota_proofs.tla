------------------------- MODULE StorageQuota_proofs -------------------------
(***************************************************************************)
(* The storage quota, for any threads, branches, files, sizes and number   *)
(* of operations.                                                          *)
(***************************************************************************)
EXTENDS StorageQuota, FiniteSetTheorems, WellFoundedInduction, TLAPS

-----------------------------------------------------------------------------
(***************************************************************************)
(* Sums over finite sets.  What holds for every finite set is shown for a  *)
(* smallest set for which it would fail.                                   *)
(***************************************************************************)
\* Every non-empty set of natural numbers has a least element.
LEMMA LeastNumber ==
    ASSUME NEW T \in SUBSET Nat, T # {}
    PROVE  \E x \in T : \A y \in T : x <= y
<1> DEFINE R == OpToRel(<, Nat)
<1>1. IsWellFoundedOn(R, Nat)
  BY NatLessThanWellFounded
<1>2. \A x, y \in Nat : <<x, y>> \in R <=> x < y
  BY DEF OpToRel
<1> HIDE DEF R
<1>3. PICK x \in T : \A y \in T : ~(<<y, x>> \in R)
  BY <1>1, WFMin
<1>4. \A y \in T : x <= y
  <2> TAKE y \in T
  <2>1. x \in Nat /\ y \in Nat
    OBVIOUS
  <2>2. ~(y < x)
    BY <1>2, <1>3, <2>1
  <2> QED  BY <2>1, <2>2
<1> QED  BY <1>4

\* A family of finite sets has a member with the fewest elements.
LEMMA SmallestSet ==
    ASSUME NEW S, IsFiniteSet(S), NEW F \in SUBSET (SUBSET S), F # {}
    PROVE  \E s \in F : \A t \in F : Cardinality(s) <= Cardinality(t)
<1> DEFINE T == {Cardinality(s) : s \in F}
<1>1. \A s \in F : IsFiniteSet(s) /\ Cardinality(s) \in Nat
  BY FS_Subset, FS_CardinalityType
<1>2. T \in SUBSET Nat /\ T # {}
  BY <1>1
<1>3. PICK n \in T : \A y \in T : n <= y
  BY <1>2, LeastNumber
<1>4. PICK s \in F : n = Cardinality(s)
  BY <1>3
<1> QED  BY <1>3, <1>4

\* Sets without one of their elements.
LEMMA OneLess ==
    ASSUME NEW S, IsFiniteSet(S), NEW x \in S
    PROVE  /\ IsFiniteSet(S \ {x}) /\ Cardinality(S \ {x}) \in Nat /\ Cardinality(S) \in Nat
           /\ Cardinality(S \ {x}) = Cardinality(S) - 1
           /\ Cardinality(S \ {x}) < Cardinality(S)
<1>1. IsFiniteSet(S \ {x}) /\ Cardinality(S \ {x}) = Cardinality(S) - 1
  BY FS_RemoveElement
<1>2. Cardinality(S \ {x}) \in Nat /\ Cardinality(S) \in Nat
  BY <1>1, FS_CardinalityType
<1> QED  BY <1>1, <1>2

\* The element of a set that a sum adds next.
Pick(s) == CHOOSE x \in s : TRUE

LEMMA PickIn ==
    ASSUME NEW s, s # {}
    PROVE  Pick(s) \in s
BY DEF Pick

\* One unfolding of the recursion of the sum of f over the members of D.
Unfolds(g, f, D) ==
    g = [s \in D |-> IF s = {} THEN 0 ELSE f[Pick(s)] + g[s \ {Pick(s)}]]

\* What the sum is by its definition.
LEMMA SumDefined ==
    ASSUME NEW f, NEW S
    PROVE  SumFunctionOnSet(f, S) = (CHOOSE g : Unfolds(g, f, SUBSET S))[S]
BY DEF SumFunctionOnSet, FoldFunctionOnSet, MapThenFoldSet, Unfolds, Pick

\* The recursion has a solution.
LEMMA SumExists ==
    ASSUME NEW f, NEW S, IsFiniteSet(S)
    PROVE  \E g : Unfolds(g, f, SUBSET S)
<1> DEFINE D(n) == {s \in SUBSET S : Cardinality(s) <= n}
           T == {n \in Nat : ~ \E g : Unfolds(g, f, D(n))}
<1>1. \A s \in SUBSET S : IsFiniteSet(s) /\ Cardinality(s) \in Nat
  BY FS_Subset, FS_CardinalityType
<1>2. ASSUME NEW n \in T, \A y \in T : n <= y PROVE FALSE
  <2>1. n \in Nat /\ ~ \E g : Unfolds(g, f, D(n))
    OBVIOUS
  <2>2. CASE n = 0
    <3> DEFINE h == [s \in D(0) |-> 0]
    <3>1. \A s \in D(0) : s = {}
      <4> SUFFICES ASSUME NEW s \in D(0) PROVE s = {}
        OBVIOUS
      <4>1. IsFiniteSet(s) /\ Cardinality(s) \in Nat /\ Cardinality(s) <= 0
        BY <1>1
      <4>2. Cardinality(s) = 0
        BY <4>1
      <4> QED  BY <4>1, <4>2, FS_EmptySet
    <3>2. Unfolds(h, f, D(0))
      BY <3>1 DEF Unfolds
    <3> QED  BY <2>1, <2>2, <3>2
  <2>3. CASE n # 0
    <3>1. n - 1 \in Nat /\ ~(n <= n - 1)
      BY <2>1, <2>3
    <3>2. PICK g : Unfolds(g, f, D(n - 1))
      BY <1>2, <3>1
    <3> DEFINE h == [s \in D(n) |-> IF s = {} THEN 0 ELSE f[Pick(s)] + g[s \ {Pick(s)}]]
    <3>3. ASSUME NEW s \in D(n), s # {} PROVE h[s \ {Pick(s)}] = g[s \ {Pick(s)}]
      <4> DEFINE u == s \ {Pick(s)}
      <4>1. Pick(s) \in s /\ IsFiniteSet(s) /\ Cardinality(s) \in Nat /\ Cardinality(s) <= n
        BY <1>1, <3>3, PickIn
      <4>2. Cardinality(u) \in Nat /\ Cardinality(u) = Cardinality(s) - 1
        BY <4>1, OneLess
      <4>3. u \in D(n - 1) /\ u \in D(n)
        BY <4>1, <4>2, <2>1
      <4> HIDE DEF u, D
      <4>4. g[u] = IF u = {} THEN 0 ELSE f[Pick(u)] + g[u \ {Pick(u)}]
        BY <3>2, <4>3 DEF Unfolds
      <4>5. h[u] = IF u = {} THEN 0 ELSE f[Pick(u)] + g[u \ {Pick(u)}]
        BY <4>3
      <4> HIDE DEF h
      <4>6. h[u] = g[u]
        BY <4>4, <4>5
      <4> QED  BY <4>6 DEF u
    <3>4. Unfolds(h, f, D(n))
      <4> HIDE DEF D
      <4>1. [s \in D(n) |-> IF s = {} THEN 0 ELSE f[Pick(s)] + g[s \ {Pick(s)}]]
              = [s \in D(n) |-> IF s = {} THEN 0 ELSE f[Pick(s)] + h[s \ {Pick(s)}]]
        <5> HIDE DEF h
        <5> QED  BY <3>3
      <4>2. h = [s \in D(n) |-> IF s = {} THEN 0 ELSE f[Pick(s)] + g[s \ {Pick(s)}]]
        OBVIOUS
      <4> HIDE DEF h
      <4> QED  BY <4>1, <4>2 DEF Unfolds
    <3> QED  BY <2>1, <3>4
  <2> QED  BY <2>2, <2>3
<1>3. T = {}
  <2>1. T \in SUBSET Nat
    OBVIOUS
  <2> HIDE DEF T
  <2> QED  BY <2>1, <1>2, LeastNumber
<1>4. Cardinality(S) \in Nat
  BY FS_CardinalityType
<1>5. D(Cardinality(S)) = SUBSET S
  <2>1. \A s \in SUBSET S : Cardinality(s) <= Cardinality(S)
    BY FS_Subset
  <2> QED  BY <2>1
<1>6. \E g : Unfolds(g, f, D(Cardinality(S)))
  <2> HIDE DEF D
  <2> QED  BY <1>3, <1>4
<1> QED  BY <1>5, <1>6

\* Two solutions agree where both are defined.
LEMMA SumUnique ==
    ASSUME NEW f, NEW S, NEW R, IsFiniteSet(R), R \subseteq S, NEW g, NEW h,
           Unfolds(g, f, SUBSET S), Unfolds(h, f, SUBSET R)
    PROVE  g[R] = h[R]
<1> DEFINE F == {s \in SUBSET R : g[s] # h[s]}
<1>1. ASSUME NEW s \in F, \A t \in F : Cardinality(s) <= Cardinality(t) PROVE FALSE
  <2>1. s \in SUBSET R /\ s \in SUBSET S /\ g[s] # h[s] /\ IsFiniteSet(s)
    BY FS_Subset
  <2>2. /\ g[s] = IF s = {} THEN 0 ELSE f[Pick(s)] + g[s \ {Pick(s)}]
        /\ h[s] = IF s = {} THEN 0 ELSE f[Pick(s)] + h[s \ {Pick(s)}]
    BY <2>1 DEF Unfolds
  <2>3. s # {}
    BY <2>1, <2>2
  <2> DEFINE u == s \ {Pick(s)}
  <2>4. Cardinality(u) \in Nat /\ Cardinality(s) \in Nat /\ Cardinality(u) < Cardinality(s)
    BY <2>1, <2>3, PickIn, OneLess
  <2>5. u \notin F
    BY <2>4, <1>1
  <2>6. g[u] = h[u]
    BY <2>1, <2>5
  <2> QED  BY <2>1, <2>2, <2>3, <2>6
<1>2. F = {}
  <2>1. F \in SUBSET (SUBSET R)
    OBVIOUS
  <2> HIDE DEF F
  <2> QED  BY <2>1, <1>1, SmallestSet
<1> QED  BY <1>2

\* The sum over no element, and the sum with its next element taken out.
LEMMA SumEmpty ==
    ASSUME NEW f
    PROVE  SumFunctionOnSet(f, {}) = 0
<1>1. PICK g : g = CHOOSE h : Unfolds(h, f, SUBSET {})
  OBVIOUS
<1>2. Unfolds(g, f, SUBSET {})
  BY <1>1, SumExists, FS_EmptySet
<1>3. g[{}] = 0
  BY <1>2 DEF Unfolds
<1> QED  BY <1>1, <1>3, SumDefined

LEMMA SumPick ==
    ASSUME NEW f, NEW S, IsFiniteSet(S), S # {}
    PROVE  SumFunctionOnSet(f, S) = f[Pick(S)] + SumFunctionOnSet(f, S \ {Pick(S)})
<1> DEFINE R == S \ {Pick(S)}
<1>1. IsFiniteSet(R) /\ R \subseteq S
  BY PickIn, OneLess
<1>2. PICK g : g = CHOOSE x : Unfolds(x, f, SUBSET S)
  OBVIOUS
<1>3. PICK h : h = CHOOSE x : Unfolds(x, f, SUBSET R)
  OBVIOUS
<1>4. Unfolds(g, f, SUBSET S)
  BY <1>2, SumExists
<1> HIDE DEF R
<1>5. Unfolds(h, f, SUBSET R)
  BY <1>1, <1>3, SumExists
<1>6. g[R] = h[R]
  BY <1>1, <1>4, <1>5, SumUnique
<1>7. SumFunctionOnSet(f, S) = g[S] /\ SumFunctionOnSet(f, R) = h[R]
  BY <1>2, <1>3, SumDefined
<1>8. g[S] = f[Pick(S)] + g[S \ {Pick(S)}]
  BY <1>4 DEF Unfolds
<1> QED  BY <1>6, <1>7, <1>8 DEF R
\* A sum of integers is one.
LEMMA SumInt ==
    ASSUME NEW f, NEW S, IsFiniteSet(S), \A x \in S : f[x] \in Int
    PROVE  SumFunctionOnSet(f, S) \in Int
<1> DEFINE F == {s \in SUBSET S : SumFunctionOnSet(f, s) \notin Int}
<1>1. ASSUME NEW s \in F, \A t \in F : Cardinality(s) <= Cardinality(t) PROVE FALSE
  <2>1. s \in SUBSET S /\ SumFunctionOnSet(f, s) \notin Int /\ IsFiniteSet(s)
    BY FS_Subset
  <2>2. s # {}
    BY <2>1, SumEmpty
  <2> DEFINE u == s \ {Pick(s)}
  <2>3. Pick(s) \in S
    BY <2>1, <2>2, PickIn
  <2>4. Cardinality(u) \in Nat /\ Cardinality(s) \in Nat /\ Cardinality(u) < Cardinality(s)
    BY <2>1, <2>2, PickIn, OneLess
  <2>5. u \notin F
    BY <2>4, <1>1
  <2>6. SumFunctionOnSet(f, u) \in Int
    BY <2>1, <2>5
  <2>7. SumFunctionOnSet(f, s) = f[Pick(s)] + SumFunctionOnSet(f, u)
    BY <2>1, <2>2, SumPick
  <2> HIDE DEF u
  <2>8. f[Pick(s)] \in Int
    BY <2>3
  <2> QED  BY <2>1, <2>6, <2>7, <2>8
<1>2. F = {}
  <2>1. F \in SUBSET (SUBSET S)
    OBVIOUS
  <2> HIDE DEF F
  <2> QED  BY <2>1, <1>1, SmallestSet
<1> QED  BY <1>2

\* Any element can be taken out of a sum.
LEMMA SumRemove ==
    ASSUME NEW f, NEW S, IsFiniteSet(S), \A x \in S : f[x] \in Int, NEW a \in S
    PROVE  SumFunctionOnSet(f, S) = f[a] + SumFunctionOnSet(f, S \ {a})
<1> DEFINE Sum(s) == SumFunctionOnSet(f, s)
           F == {s \in SUBSET S : \E x \in s : Sum(s) # f[x] + Sum(s \ {x})}
<1>1. ASSUME NEW s \in F, \A t \in F : Cardinality(s) <= Cardinality(t) PROVE FALSE
  <2>1. s \in SUBSET S /\ IsFiniteSet(s)
    BY FS_Subset
  <2>2. PICK x \in s : Sum(s) # f[x] + Sum(s \ {x})
    OBVIOUS
  <2>3. PICK p \in s : p = Pick(s)
    BY PickIn
  <2>4. Sum(s) = f[p] + Sum(s \ {p})
    BY <2>1, <2>3, SumPick
  <2>5. x # p
    BY <2>2, <2>4
  <2>6. /\ Cardinality(s \ {p}) < Cardinality(s) /\ Cardinality(s \ {x}) < Cardinality(s)
        /\ Cardinality(s \ {p}) \in Nat /\ Cardinality(s \ {x}) \in Nat /\ Cardinality(s) \in Nat
        /\ IsFiniteSet(s \ {p}) /\ IsFiniteSet(s \ {x})
    BY <2>1, OneLess
  <2>7. s \ {p} \notin F /\ s \ {x} \notin F
    <3> HIDE DEF F, Sum
    <3> QED  BY <2>6, <1>1
  <2>8. x \in s \ {p} /\ p \in s \ {x} /\ s \ {p} \in SUBSET S /\ s \ {x} \in SUBSET S
    BY <2>1, <2>5
  <2>9. Sum(s \ {p}) = f[x] + Sum((s \ {p}) \ {x})
    BY <2>7, <2>8
  <2>10. Sum(s \ {x}) = f[p] + Sum((s \ {x}) \ {p})
    BY <2>7, <2>8
  <2>11. (s \ {p}) \ {x} = (s \ {x}) \ {p}
    OBVIOUS
  <2>12. IsFiniteSet((s \ {x}) \ {p})
    BY <2>6, <2>8, OneLess
  <2>13. Sum((s \ {x}) \ {p}) \in Int
    <3>1. \A y \in (s \ {x}) \ {p} : f[y] \in Int
      BY <2>1
    <3> QED  BY <2>12, <3>1, SumInt
  <2>14. f[x] \in Int /\ f[p] \in Int
    BY <2>1
  <2> HIDE DEF Sum, F
  <2>15. Sum((s \ {p}) \ {x}) = Sum((s \ {x}) \ {p})
    BY <2>11
  <2> QED  BY <2>2, <2>4, <2>9, <2>10, <2>13, <2>14, <2>15
<1>2. F = {}
  <2>1. F \in SUBSET (SUBSET S)
    OBVIOUS
  <2> HIDE DEF F
  <2> QED  BY <2>1, <1>1, SmallestSet
<1>3. S \notin F
  BY <1>2
<1> QED  BY <1>3

\* A sum of natural numbers is one.
LEMMA SumNat ==
    ASSUME NEW f, NEW S, IsFiniteSet(S), \A x \in S : f[x] \in Nat
    PROVE  SumFunctionOnSet(f, S) \in Nat
<1> DEFINE F == {s \in SUBSET S : SumFunctionOnSet(f, s) \notin Nat}
<1>1. ASSUME NEW s \in F, \A t \in F : Cardinality(s) <= Cardinality(t) PROVE FALSE
  <2>1. s \in SUBSET S /\ SumFunctionOnSet(f, s) \notin Nat /\ IsFiniteSet(s)
    BY FS_Subset
  <2>2. s # {}
    BY <2>1, SumEmpty
  <2> DEFINE u == s \ {Pick(s)}
  <2>3. Pick(s) \in S
    BY <2>1, <2>2, PickIn
  <2>4. Cardinality(u) \in Nat /\ Cardinality(s) \in Nat /\ Cardinality(u) < Cardinality(s)
    BY <2>1, <2>2, PickIn, OneLess
  <2>5. u \notin F
    BY <2>4, <1>1
  <2>6. SumFunctionOnSet(f, u) \in Nat
    BY <2>1, <2>5
  <2>7. SumFunctionOnSet(f, s) = f[Pick(s)] + SumFunctionOnSet(f, u)
    BY <2>1, <2>2, SumPick
  <2> HIDE DEF u
  <2>8. f[Pick(s)] \in Nat
    BY <2>3
  <2> QED  BY <2>1, <2>6, <2>7, <2>8
<1>2. F = {}
  <2>1. F \in SUBSET (SUBSET S)
    OBVIOUS
  <2> HIDE DEF F
  <2> QED  BY <2>1, <1>1, SmallestSet
<1> QED  BY <1>2
\* A sum grows with its terms.
LEMMA SumMonotone ==
    ASSUME NEW f, NEW g, NEW S, IsFiniteSet(S),
           \A x \in S : f[x] \in Int /\ g[x] \in Int /\ f[x] <= g[x]
    PROVE  SumFunctionOnSet(f, S) <= SumFunctionOnSet(g, S)
<1> DEFINE F == {s \in SUBSET S : ~(SumFunctionOnSet(f, s) <= SumFunctionOnSet(g, s))}
<1>1. ASSUME NEW s \in F, \A t \in F : Cardinality(s) <= Cardinality(t) PROVE FALSE
  <2>1. /\ s \in SUBSET S /\ IsFiniteSet(s)
        /\ ~(SumFunctionOnSet(f, s) <= SumFunctionOnSet(g, s))
    BY FS_Subset
  <2>2. s # {}
    BY <2>1, SumEmpty
  <2>3. PICK p \in s : p = Pick(s)
    BY <2>2, PickIn
  <2> DEFINE u == s \ {p}
  <2>4. Cardinality(u) \in Nat /\ Cardinality(s) \in Nat /\ Cardinality(u) < Cardinality(s) /\ IsFiniteSet(u)
    BY <2>1, OneLess
  <2>5. u \in SUBSET S
    BY <2>1
  <2>6. SumFunctionOnSet(f, u) <= SumFunctionOnSet(g, u)
    <3>1. u \notin F
      <4> HIDE DEF F, u
      <4> QED  BY <2>4, <1>1
    <3> QED  BY <2>5, <3>1
  <2>7. /\ SumFunctionOnSet(f, s) = f[p] + SumFunctionOnSet(f, u)
        /\ SumFunctionOnSet(g, s) = g[p] + SumFunctionOnSet(g, u)
    BY <2>1, <2>2, <2>3, SumPick
  <2> HIDE DEF u
  <2>8. SumFunctionOnSet(f, u) \in Int /\ SumFunctionOnSet(g, u) \in Int
    BY <2>4, <2>5, SumInt
  <2>9. f[p] \in Int /\ g[p] \in Int /\ f[p] <= g[p]
    BY <2>1
  <2> QED  BY <2>1, <2>6, <2>7, <2>8, <2>9
<1>2. F = {}
  <2>1. F \in SUBSET (SUBSET S)
    OBVIOUS
  <2> HIDE DEF F
  <2> QED  BY <2>1, <1>1, SmallestSet
<1>3. S \notin F
  BY <1>2
<1> QED  BY <1>3

\* Equal terms, equal sums.
LEMMA SumSame ==
    ASSUME NEW f, NEW g, NEW S, IsFiniteSet(S), \A x \in S : f[x] \in Int /\ g[x] = f[x]
    PROVE  SumFunctionOnSet(g, S) = SumFunctionOnSet(f, S)
<1>1. SumFunctionOnSet(f, S) \in Int /\ SumFunctionOnSet(g, S) \in Int
  BY SumInt
<1>2. SumFunctionOnSet(f, S) <= SumFunctionOnSet(g, S)
  BY SumMonotone
<1>3. SumFunctionOnSet(g, S) <= SumFunctionOnSet(f, S)
  BY SumMonotone
<1> QED  BY <1>1, <1>2, <1>3

\* The sum of two sums.
LEMMA SumPlus ==
    ASSUME NEW f, NEW g, NEW h, NEW S, IsFiniteSet(S),
           \A x \in S : f[x] \in Int /\ g[x] \in Int /\ h[x] = f[x] + g[x]
    PROVE  SumFunctionOnSet(h, S) = SumFunctionOnSet(f, S) + SumFunctionOnSet(g, S)
<1> DEFINE F == {s \in SUBSET S : SumFunctionOnSet(h, s)
                                    # SumFunctionOnSet(f, s) + SumFunctionOnSet(g, s)}
<1>1. ASSUME NEW s \in F, \A t \in F : Cardinality(s) <= Cardinality(t) PROVE FALSE
  <2>1. /\ s \in SUBSET S /\ IsFiniteSet(s)
        /\ SumFunctionOnSet(h, s) # SumFunctionOnSet(f, s) + SumFunctionOnSet(g, s)
    BY FS_Subset
  <2>2. s # {}
    BY <2>1, SumEmpty
  <2>3. PICK p \in s : p = Pick(s)
    BY <2>2, PickIn
  <2> DEFINE u == s \ {p}
  <2>4. Cardinality(u) \in Nat /\ Cardinality(s) \in Nat /\ Cardinality(u) < Cardinality(s) /\ IsFiniteSet(u)
    BY <2>1, OneLess
  <2>5. u \in SUBSET S
    BY <2>1
  <2>6. SumFunctionOnSet(h, u) = SumFunctionOnSet(f, u) + SumFunctionOnSet(g, u)
    <3>1. u \notin F
      <4> HIDE DEF F, u
      <4> QED  BY <2>4, <1>1
    <3> QED  BY <2>5, <3>1
  <2>7. /\ SumFunctionOnSet(f, s) = f[p] + SumFunctionOnSet(f, u)
        /\ SumFunctionOnSet(g, s) = g[p] + SumFunctionOnSet(g, u)
        /\ SumFunctionOnSet(h, s) = h[p] + SumFunctionOnSet(h, u)
    BY <2>1, <2>2, <2>3, SumPick
  <2> HIDE DEF u
  <2>8. SumFunctionOnSet(f, u) \in Int /\ SumFunctionOnSet(g, u) \in Int
    BY <2>4, <2>5, SumInt
  <2>9. f[p] \in Int /\ g[p] \in Int /\ h[p] = f[p] + g[p]
    BY <2>1
  <2> QED  BY <2>1, <2>6, <2>7, <2>8, <2>9
<1>2. F = {}
  <2>1. F \in SUBSET (SUBSET S)
    OBVIOUS
  <2> HIDE DEF F
  <2> QED  BY <2>1, <1>1, SmallestSet
<1>3. S \notin F
  BY <1>2
<1> QED  BY <1>3

\* Terms of at most m add up to at most m for each element.
LEMMA SumBound ==
    ASSUME NEW f, NEW S, IsFiniteSet(S), NEW m \in Nat,
           \A x \in S : f[x] \in Int /\ f[x] <= m
    PROVE  SumFunctionOnSet(f, S) <= Cardinality(S) * m
<1> DEFINE F == {s \in SUBSET S : ~(SumFunctionOnSet(f, s) <= Cardinality(s) * m)}
<1>1. ASSUME NEW s \in F, \A t \in F : Cardinality(s) <= Cardinality(t) PROVE FALSE
  <2>1. /\ s \in SUBSET S /\ IsFiniteSet(s)
        /\ ~(SumFunctionOnSet(f, s) <= Cardinality(s) * m)
    BY FS_Subset
  <2>2. s # {}
    BY <2>1, SumEmpty, FS_EmptySet
  <2>3. PICK p \in s : p = Pick(s)
    BY <2>2, PickIn
  <2> DEFINE u == s \ {p}
  <2>4. /\ Cardinality(u) \in Nat /\ Cardinality(s) \in Nat /\ Cardinality(u) < Cardinality(s)
        /\ Cardinality(u) = Cardinality(s) - 1 /\ IsFiniteSet(u)
    BY <2>1, OneLess
  <2>5. u \in SUBSET S
    BY <2>1
  <2>6. SumFunctionOnSet(f, u) <= Cardinality(u) * m
    <3>1. u \notin F
      <4> HIDE DEF F, u
      <4> QED  BY <2>4, <1>1
    <3> QED  BY <2>5, <3>1
  <2>7. SumFunctionOnSet(f, s) = f[p] + SumFunctionOnSet(f, u)
    BY <2>1, <2>2, <2>3, SumPick
  <2> HIDE DEF u
  <2>8. SumFunctionOnSet(f, u) \in Int
    BY <2>4, <2>5, SumInt
  <2>9. f[p] \in Int /\ f[p] <= m
    BY <2>1
  <2>10. PICK k \in Nat : k = Cardinality(s)
    BY <2>4
  <2>11. (k - 1) * m + m = k * m /\ k * m \in Int /\ (k - 1) * m \in Int
    OBVIOUS
  <2>12. Cardinality(u) * m = (k - 1) * m /\ Cardinality(s) * m = k * m
    BY <2>4, <2>10
  <2> QED  BY <2>1, <2>6, <2>7, <2>8, <2>9, <2>11, <2>12
<1>2. F = {}
  <2>1. F \in SUBSET (SUBSET S)
    OBVIOUS
  <2> HIDE DEF F
  <2> QED  BY <2>1, <1>1, SmallestSet
<1>3. S \notin F
  BY <1>2
<1> QED  BY <1>3

\* Terms that each find a term of their own at least as large.
LEMMA SumInject ==
    ASSUME NEW f, NEW g, NEW S, NEW X, IsFiniteSet(S), IsFiniteSet(X), NEW loc,
           \A x \in S : f[x] \in Nat,
           \A y \in X : g[y] \in Nat,
           \A x \in S : f[x] > 0 => loc[x] \in X /\ f[x] <= g[loc[x]],
           \A x, z \in S : f[x] > 0 /\ f[z] > 0 /\ loc[x] = loc[z] => x = z
    PROVE  SumFunctionOnSet(f, S) <= SumFunctionOnSet(g, X)
<1> DEFINE Fits(s, y) == \A x \in s : f[x] > 0 => loc[x] \in y
           F == {s \in SUBSET S : \E y \in SUBSET X :
                    Fits(s, y) /\ ~(SumFunctionOnSet(f, s) <= SumFunctionOnSet(g, y))}
<1>1. ASSUME NEW s \in F, \A t \in F : Cardinality(s) <= Cardinality(t) PROVE FALSE
  <2>1. s \in SUBSET S /\ IsFiniteSet(s)
    BY FS_Subset
  <2>2. PICK y \in SUBSET X : Fits(s, y) /\ ~(SumFunctionOnSet(f, s) <= SumFunctionOnSet(g, y))
    OBVIOUS
  <2>3. IsFiniteSet(y)
    BY FS_Subset
  <2>4. SumFunctionOnSet(g, y) \in Nat
    BY <2>3, SumNat
  <2>5. s # {}
    BY <2>2, <2>4, SumEmpty
  <2>6. PICK p \in s : p = Pick(s)
    BY <2>5, PickIn
  <2> DEFINE u == s \ {p}
  <2>7. Cardinality(u) \in Nat /\ Cardinality(s) \in Nat /\ Cardinality(u) < Cardinality(s) /\ IsFiniteSet(u)
    BY <2>1, OneLess
  <2>8. u \in SUBSET S
    BY <2>1
  <2>9. u \notin F
    <3> HIDE DEF F, u
    <3> QED  BY <2>7, <1>1
  <2>10. SumFunctionOnSet(f, s) = f[p] + SumFunctionOnSet(f, u)
    BY <2>1, <2>5, <2>6, SumPick
  <2>11. SumFunctionOnSet(f, u) \in Nat /\ f[p] \in Nat
    BY <2>1, <2>7, <2>8, SumNat
  <2>12. CASE f[p] = 0
    <3>1. Fits(u, y)
      BY <2>2
    <3>2. SumFunctionOnSet(f, u) <= SumFunctionOnSet(g, y)
      BY <2>8, <2>9, <3>1
    <3> HIDE DEF u
    <3> QED  BY <2>2, <2>4, <2>10, <2>11, <2>12, <3>2
  <2>13. CASE f[p] > 0
    <3>1. PICK q \in y : q = loc[p]
      BY <2>2, <2>13
    <3> DEFINE v == y \ {q}
    <3>2. Fits(u, v)
      BY <2>1, <2>2, <2>13, <3>1
    <3>3. v \in SUBSET X /\ IsFiniteSet(v)
      BY <2>3, OneLess
    <3>4. SumFunctionOnSet(f, u) <= SumFunctionOnSet(g, v)
      BY <2>8, <2>9, <3>2, <3>3
    <3>5. SumFunctionOnSet(g, y) = g[q] + SumFunctionOnSet(g, v)
      BY <2>3, SumRemove
    <3>6. SumFunctionOnSet(g, v) \in Nat /\ g[q] \in Nat /\ f[p] <= g[q]
      BY <2>1, <2>13, <3>1, <3>3, SumNat
    <3> HIDE DEF u, v
    <3> QED  BY <2>2, <2>10, <2>11, <3>4, <3>5, <3>6
  <2> QED  BY <2>11, <2>12, <2>13
<1>2. F = {}
  <2>1. F \in SUBSET (SUBSET S)
    OBVIOUS
  <2> HIDE DEF F
  <2> QED  BY <2>1, <1>1, SmallestSet
<1>3. S \notin F /\ Fits(S, X)
  BY <1>2
<1> QED  BY <1>3
-----------------------------------------------------------------------------
(***************************************************************************)
(* The inductive invariant.                                                *)
(***************************************************************************)
Place == Branch \X File

\* Only a set_len shortens a file.
Job == {j \in [br : Branch, file : File \cup {None}, old : 0..MaxSize, end : 0..MaxSize,
               kind : {"none", "copy", "path", "fd", "set"}, wrote : BOOLEAN] :
          j.end < j.old => j.kind = "set"}

Types ==
    /\ used \in Int /\ lapse \in {"none", "open", "healed"}
    /\ size \in [Branch -> [File -> None..MaxSize]] /\ links \in SUBSET Place
    /\ job \in [Writer -> Job]
    /\ missed \in Nat /\ linked \in Nat /\ missed <= linked /\ linked <= MaxLinked

\* A copy-up and a write by path keep their path, alone; a descriptor that has
\* not lost its file is that of the delta; a link is one.
Locks ==
    /\ \A w \in Writer : Holds(w) => job[w].file # None
    /\ \A w, v \in Writer : w # v /\ Holds(w) /\ Holds(v) =>
          <<job[w].br, job[w].file>> # <<job[v].br, job[v].file>>
    /\ \A w \in Writer : job[w].file # None /\ ~Holds(w) => size[job[w].br][job[w].file] # None
    /\ \A b \in Branch, f \in File : <<b, f>> \in links => size[b][f] # None

Cuts(w) == job[w].end < job[w].old
Attached(w) == job[w].file # None

\* The bytes a write adds or will add, those it will still store, the most it
\* may add, those it has stored and not added, and what it will change the
\* counter by: a truncation counts from its start.
Growth(w) == IF job[w].end > job[w].old THEN job[w].end - job[w].old ELSE 0
Room(w) == IF job[w].wrote THEN 0 ELSE Growth(w)
Credit(w) == IF job[w].kind = "path" THEN MaxSize - job[w].old ELSE Growth(w)
Late(w) == IF job[w].wrote /\ job[w].end > job[w].old THEN job[w].end - job[w].old ELSE 0
Owed(w) == IF job[w].wrote \/ Cuts(w) THEN job[w].end - job[w].old ELSE 0

\* The truncations of a file under way, and its size once they are done.
Cutter(w, b, f) == job[w].br = b /\ job[w].file = f /\ Cuts(w) /\ ~job[w].wrote
Cutters(b, f) == {w \in Writer : Cutter(w, b, f)}
Held(b, f) ==
    IF Cutters(b, f) = {} THEN Stored(b, f) ELSE job[CHOOSE w \in Cutters(b, f) : TRUE].end

StoredMap == [x \in Place |-> Stored(x[1], x[2])]
HeldMap   == [x \in Place |-> Held(x[1], x[2])]
GrowthMap == [w \in Writer |-> Growth(w)]
RoomMap   == [w \in Writer |-> Room(w)]
CreditMap == [w \in Writer |-> Credit(w)]
LateMap   == [w \in Writer |-> Late(w)]
OwedMap   == [w \in Writer |-> Owed(w)]

StoredSum == SumFunction(StoredMap)
HeldSum   == SumFunction(HeldMap)
GrowthSum == SumFunction(GrowthMap)
RoomSum   == SumFunction(RoomMap)
CreditSum == SumFunction(CreditMap)
LateSum   == SumFunction(LateMap)
OwedSum   == SumFunction(OwedMap)

\* A set_len, and so a truncation, is alone on its file.
SetAlone ==
    \A w, v \in Writer : w # v /\ Attached(w) /\ job[w].kind = "set" =>
        <<job[w].br, job[w].file>> # <<job[v].br, job[v].file>>
CutAlone ==
    \A w, v \in Writer : w # v /\ Attached(w) /\ Cuts(w) =>
        <<job[w].br, job[w].file>> # <<job[v].br, job[v].file>>

\* What a job has read of its file still holds: a set_len finds the size it
\* read, a copy nothing, a write at least what it read; and a write by path
\* finds again what it has written.
Fits(w) ==
    /\ Attached(w) /\ ~job[w].wrote =>
         /\ <<job[w].br, job[w].file>> \notin links
         /\ Stored(job[w].br, job[w].file) >= job[w].old
         /\ job[w].kind = "set" => Stored(job[w].br, job[w].file) = job[w].old
         /\ job[w].kind = "copy" => size[job[w].br][job[w].file] = None
    /\ job[w].kind = "path" /\ job[w].wrote => Stored(job[w].br, job[w].file) >= job[w].end
CutExact ==
    \A w \in Writer : Attached(w) /\ Cuts(w) /\ ~job[w].wrote =>
        Stored(job[w].br, job[w].file) = job[w].old
GrowthAbove ==
    \A w \in Writer : Attached(w) /\ ~Cuts(w) /\ ~job[w].wrote =>
        Stored(job[w].br, job[w].file) >= job[w].old

\* The counter, once every job has counted, covers the files, once every
\* truncation is done, but for the links it has missed.
Covered == HeldSum <= used + OwedSum + missed

Steady == lapse # "open" => SetAlone /\ (\A w \in Writer : Fits(w)) /\ Covered

Limit == MaxBytes + (Cardinality(Writer) - 1) * MaxSize

\* The files and the writes let through stay below the bound, and so does the
\* counter, so that the check never wraps.
Below ==
    /\ StoredSum + RoomSum <= Limit + linked
    /\ used + CreditSum <= Limit + MaxSize + Metadata + linked
Limited == lapse = "none" => Below

QuotaInv == Types /\ Locks /\ Steady /\ Limited
-----------------------------------------------------------------------------
(***************************************************************************)
(* Types and locks.                                                        *)
(***************************************************************************)
LEMMA NoneNotFile == /\ None \notin File /\ None = -1 /\ MaxSize \in Nat /\ MaxLinked \in Nat
                     /\ Child \in Branch /\ Parent \in Branch
BY QuotaAssumption DEF None

\* The fields of a job and the size of a file.
LEMMA JobFields ==
    ASSUME Types, NEW w \in Writer
    PROVE  /\ job[w].br \in Branch /\ job[w].file \in File \cup {None}
           /\ job[w].old \in 0..MaxSize /\ job[w].end \in 0..MaxSize
           /\ job[w].wrote \in BOOLEAN
           /\ Cuts(w) => job[w].kind = "set"
           /\ job[w] \in Job
<1>1. job[w] \in Job
  BY DEF Types
<1> QED  BY <1>1 DEF Job, Cuts

LEMMA SizeType ==
    ASSUME Types, NEW b \in Branch, NEW f \in File
    PROVE  /\ size[b][f] \in (-1)..MaxSize /\ size[b] \in [File -> None..MaxSize]
           /\ Stored(b, f) \in 0..MaxSize
BY NoneNotFile DEF Types, Stored, None

LEMMA NoJobType == NoJob \in Job
BY NoneNotFile DEF NoJob, Job

\* A job after one of its fields has changed.
LEMMA JobWrote ==
    ASSUME NEW j \in Job
    PROVE  [j EXCEPT !.wrote = TRUE] \in Job
BY DEF Job

LEMMA JobMoved ==
    ASSUME NEW j \in Job, NEW f \in File \cup {None}
    PROVE  [j EXCEPT !.file = f] \in Job
BY DEF Job

LEMMA DetachedType ==
    ASSUME Types, NEW S
    PROVE  Detached(S) \in [Writer -> Job]
<1>1. \A w \in Writer : job[w] \in Job /\ [job[w] EXCEPT !.file = None] \in Job
  BY JobFields, JobMoved
<1> QED  BY <1>1 DEF Detached

\* A job begins.
Begins(w, b, f, n) ==
    CopyUp(w, b, f, n) \/ WriteData(w, b, f, n) \/ WriteFd(w, b, f, n) \/ SetLen(w, b, f, n)

LEMMA BeginsJob ==
    ASSUME NEW w \in Writer, NEW b \in Branch, NEW f \in File, NEW n \in 0..MaxSize, Types,
           Begins(w, b, f, n)
    PROVE  \E k \in {"copy", "path", "fd", "set"} :
             /\ Starts(w, b, f, n, k)
             /\ k # "set" => n >= Stored(b, f) /\ Check(n - Stored(b, f))
             /\ k = "set" => SetLen(w, b, f, n) /\ (n > Stored(b, f) => Check(n - Stored(b, f)))
             /\ k \in {"copy", "path"} => ~Locked(b, f)
             /\ k = "copy" => size[b][f] = None
             /\ k # "copy" => <<b, f>> \notin links
             /\ k \in {"fd", "set"} => size[b][f] # None
             /\ k = "copy" => lapse' = lapse
             /\ k \in {"path", "fd"} => Lapses(Setting(b, f))
             /\ k = "set" => Lapses(On(b, f) # {})
<1>1. size[b][f] \in (-1)..MaxSize /\ None = -1
  BY SizeType, NoneNotFile
<1>2. CASE CopyUp(w, b, f, n)
  <2>1. Stored(b, f) = 0 /\ n - 0 = n /\ n >= 0
    BY <1>2, NoneNotFile DEF CopyUp, Stored
  <2> QED  BY <1>2, <2>1 DEF CopyUp
<1>3. CASE WriteData(w, b, f, n)
  <2>1. n >= Stored(b, f)
    BY <1>1, <1>3 DEF WriteData, Stored
  <2> QED  BY <1>3, <2>1 DEF WriteData
<1>4. CASE WriteFd(w, b, f, n)
  <2>1. n >= Stored(b, f) /\ Stored(b, f) = size[b][f] /\ size[b][f] # None
    BY <1>1, <1>4 DEF WriteFd, Stored, IsFile
  <2> QED  BY <1>4, <2>1 DEF WriteFd, IsFile
<1>5. CASE SetLen(w, b, f, n)
  <2>1. Stored(b, f) = size[b][f] /\ size[b][f] # None
    BY <1>1, <1>5 DEF SetLen, Stored, IsFile
  <2> QED  BY <1>5, <2>1 DEF SetLen, IsFile
<1> QED  BY <1>2, <1>3, <1>4, <1>5 DEF Begins

LEMMA TypesStart ==
    ASSUME NEW w \in Writer, NEW b \in Branch, NEW f \in File, NEW n \in 0..MaxSize, Types,
           Begins(w, b, f, n)
    PROVE  Types'
<1>1. Stored(b, f) \in 0..MaxSize /\ MaxSize \in Nat
  BY SizeType, NoneNotFile
<1>2. PICK k \in {"copy", "path", "fd", "set"} :
        Starts(w, b, f, n, k) /\ (k # "set" => n >= Stored(b, f)) /\ lapse' \in {lapse, "open"}
  BY BeginsJob DEF Lapses
<1> DEFINE j == [br |-> b, file |-> f, old |-> Stored(b, f), end |-> n, kind |-> k, wrote |-> FALSE]
<1>3. j \in Job
  BY <1>1, <1>2 DEF Job
<1>4. job' = [job EXCEPT ![w] = j]
  BY <1>2 DEF Starts
<1> HIDE DEF j
<1>5. job' \in [Writer -> Job]
  BY <1>3, <1>4 DEF Types
<1>6. UNCHANGED <<used, size, links, missed, linked>> /\ lapse' \in {"none", "open", "healed"}
  BY <1>2 DEF Starts, ghosts, Types
<1> QED  BY <1>5, <1>6 DEF Types

\* The entry of a job gets its bytes.
LEMMA PutsType ==
    ASSUME NEW w \in Writer, NEW n \in 0..MaxSize, Types, Puts(w, n)
    PROVE  /\ size' \in [Branch -> [File -> None..MaxSize]]
           /\ \A b \in Branch, f \in File :
                size'[b][f] = IF /\ job[w].br = b /\ job[w].file = f
                                 /\ <<b, f>> \notin links
                              THEN n ELSE size[b][f]
<1>1. job[w].br \in Branch /\ job[w].file \in File \cup {None} /\ n \in None..MaxSize
  BY JobFields, NoneNotFile
<1>2. CASE job[w].file = None \/ <<job[w].br, job[w].file>> \in links
  <2>1. size' = size
    BY <1>2 DEF Puts
  <2>2. \A b \in Branch, f \in File : ~(job[w].br = b /\ job[w].file = f /\ <<b, f>> \notin links)
    BY <1>2, NoneNotFile
  <2> QED  BY <2>1, <2>2 DEF Types
<1>3. CASE ~(job[w].file = None \/ <<job[w].br, job[w].file>> \in links)
  <2>1. PICK c \in Branch, g \in File : c = job[w].br /\ g = job[w].file
    BY <1>1, <1>3
  <2>2. size' = [size EXCEPT ![c][g] = n] /\ <<c, g>> \notin links
    BY <1>3, <2>1 DEF Puts
  <2>3. size' \in [Branch -> [File -> None..MaxSize]]
    BY <1>1, <2>2 DEF Types
  <2>4. \A b \in Branch, f \in File : size'[b][f] = IF c = b /\ g = f THEN n ELSE size[b][f]
    BY <2>2 DEF Types
  <2> QED  BY <2>1, <2>2, <2>3, <2>4
<1> QED  BY <1>2, <1>3

LEMMA TypesJob ==
    ASSUME NEW w \in Writer, Types, Locks,
           \/ Write(w) \/ Ignored(w) \/ Account(w) \/ Fail(w) \/ Stale(w)
           \/ \E n \in 0..MaxSize : FailPart(w, n)
    PROVE  Types'
<1>1. PICK j \in Job : job' = [job EXCEPT ![w] = j]
  <2>1. CASE Write(w) \/ Ignored(w)
    <3>1. job' = [job EXCEPT ![w] = [job[w] EXCEPT !.wrote = TRUE]]
      BY <2>1 DEF Write, Ignored, Types
    <3> QED  BY <3>1, JobFields, JobWrote
  <2> QED  BY <2>1, NoJobType DEF Account, Fail, Stale, FailPart
<1>2. job' \in [Writer -> Job]
  BY <1>1 DEF Types
<1>3. size' \in [Branch -> [File -> None..MaxSize]]
  <2>1. job[w].end \in 0..MaxSize
    BY JobFields
  <2>2. size' = size \/ \E n \in 0..MaxSize : Puts(w, n)
    BY <2>1 DEF Write, Ignored, Account, Fail, Stale, FailPart
  <2> QED  BY <2>2, PutsType DEF Types
<1>4. used' \in Int
  <2>1. CASE Account(w)
    <3>1. job[w].end - job[w].old \in Int /\ job[w].old \in Int
      BY JobFields, NoneNotFile
    <3>2. job[w].kind = "path" /\ Stored(job[w].br, job[w].file) > job[w].old /\ job[w].file \in File =>
            Stored(job[w].br, job[w].file) - job[w].old \in Int
      BY JobFields, SizeType, NoneNotFile
    <3>3. Counted(w) \in Int
      <4>1. CASE job[w].file \in File
        BY <3>1, <3>2, <4>1 DEF Counted
      <4>2. CASE job[w].file = None
        BY <3>1, <4>2 DEF Counted, Locks, Holds
      <4> QED  BY <4>1, <4>2, JobFields
    <3> QED  BY <2>1, <3>3 DEF Account, Types
  <2>2. CASE ~Account(w)
    BY <2>2 DEF Write, Ignored, Fail, Stale, FailPart, Types
  <2> QED  BY <2>1, <2>2
<1>5. UNCHANGED <<links, missed, linked>> /\ lapse' \in {"none", "open", "healed"}
  BY DEF Write, Ignored, Account, Fail, Stale, FailPart, Types, Lapses, ghosts
<1> QED  BY <1>2, <1>3, <1>4, <1>5 DEF Types

LEMMA TypesRemove ==
    ASSUME Types,
           \/ \E b \in Branch, f \in File, n \in 1..MaxSize : Symlink(b, f, n)
           \/ \E b \in Branch, f \in File : Delete(b, f)
           \/ \E b \in Branch, f, g \in File : Rename(b, f, g)
           \/ \E b \in Branch : Drop(b)
           \/ CommitUp
    PROVE  Types'
<1>0. None \in None..MaxSize
  BY NoneNotFile
<1>1. CASE \E b \in Branch, f \in File : Delete(b, f)
  <2>1. PICK b \in Branch, f \in File : Delete(b, f)
    BY <1>1
  <2>2. size' \in [Branch -> [File -> None..MaxSize]] /\ links' \in SUBSET Place
    BY <1>0, <2>1 DEF Delete, Types
  <2>3. /\ used' \in Int /\ job' \in [Writer -> Job] /\ lapse' \in {"none", "open", "healed"}
        /\ UNCHANGED <<missed, linked>>
    BY <2>1, SizeType, NoneNotFile, DetachedType DEF Delete, Types, Lapses, ghosts
  <2> QED  BY <2>2, <2>3 DEF Types
<1>2. CASE \E b \in Branch, f, g \in File : Rename(b, f, g)
  <2>1. PICK b \in Branch, f \in File, g \in File : Rename(b, f, g)
    BY <1>2
  <2>2. size' \in [Branch -> [File -> None..MaxSize]]
    <3>1. PICK n \in None..MaxSize : n = size[b][f]
      BY DEF Types
    <3>2. size' = [size EXCEPT ![b][f] = None, ![b][g] = n]
      BY <2>1, <3>1 DEF Rename
    <3> QED  BY <1>0, <3>2 DEF Types
  <2>3. \A w \in Writer : /\ job[w] \in Job /\ [job[w] EXCEPT !.file = g] \in Job
                          /\ [job[w] EXCEPT !.file = None] \in Job
    BY JobFields, JobMoved
  <2>4. job' \in [Writer -> Job]
    BY <2>1, <2>3 DEF Rename
  <2>5. UNCHANGED <<used, missed, linked>> /\ lapse' \in {"none", "open", "healed"}
    BY <2>1 DEF Rename, Types, Lapses, ghosts
  <2>6. links' \in SUBSET Place
    BY <2>1 DEF Rename, Types, Place
  <2> QED  BY <2>2, <2>4, <2>5, <2>6 DEF Types
<1>3. CASE \E b \in Branch : Drop(b)
  <2>1. PICK b \in Branch : Drop(b)
    BY <1>3
  <2>2. size' \in [Branch -> [File -> None..MaxSize]] /\ links' \in SUBSET Place
    BY <1>0, <2>1 DEF Drop, Types
  <2>3. job' \in [Writer -> Job] /\ UNCHANGED <<used, missed, linked, lapse>>
    BY <2>1, DetachedType DEF Drop, ghosts
  <2> QED  BY <2>2, <2>3 DEF Types
<1>4. CASE CommitUp
  <2>1. size' \in [Branch -> [File -> None..MaxSize]]
    <3>1. \A f \in File : size[Child][f] \in None..MaxSize /\ size[Parent][f] \in None..MaxSize
      BY NoneNotFile DEF Types
    <3>2. [f \in File |-> None] \in [File -> None..MaxSize]
      BY <1>0
    <3>3. [f \in File |-> IF Taken(f) THEN size[Child][f] ELSE size[Parent][f]] \in [File -> None..MaxSize]
      BY <3>1
    <3>4. size' = [size EXCEPT ![Child] = [f \in File |-> None],
                     ![Parent] = [f \in File |-> IF Taken(f) THEN size[Child][f] ELSE size[Parent][f]]]
      BY <1>4, NoneNotFile, QuotaAssumption DEF CommitUp, Merged, Types
    <3> QED  BY <3>2, <3>3, <3>4 DEF Types
  <2>2. /\ job' \in [Writer -> Job] /\ UNCHANGED <<used, missed, linked>>
        /\ lapse' \in {"none", "open", "healed"}
    BY <1>4, DetachedType DEF CommitUp, Lapses, Types, ghosts
  <2>3. links' \in SUBSET Place
    <3>1. links' = (links \ Replaced) \union {<<Parent, f>> : f \in {f \in File : <<Child, f>> \in links}}
      BY <1>4 DEF CommitUp, Relinked
    <3>2. \A f \in File : <<Parent, f>> \in Place
      BY NoneNotFile DEF Place
    <3> QED  BY <3>1, <3>2 DEF Types
  <2> QED  BY <2>1, <2>2, <2>3 DEF Types
<1>5. CASE \E b \in Branch, f \in File, n \in 1..MaxSize : Symlink(b, f, n)
  <2>1. PICK b \in Branch, f \in File, n \in 1..MaxSize : Symlink(b, f, n)
    BY <1>5
  <2>2. n \in None..MaxSize /\ n \in Nat
    BY NoneNotFile
  <2>3. size' \in [Branch -> [File -> None..MaxSize]] /\ links' \in SUBSET Place
    BY <2>1, <2>2 DEF Symlink, Types, Place
  <2>4. missed' \in Nat /\ linked' \in Nat /\ missed' <= linked' /\ linked' <= MaxLinked
    BY <2>1, <2>2 DEF Symlink, Types
  <2>5. UNCHANGED <<used, job>> /\ lapse' \in {"none", "open", "healed"}
    BY <2>1 DEF Symlink, Types, Lapses
  <2> QED  BY <2>3, <2>4, <2>5 DEF Types
<1> QED  BY <1>1, <1>2, <1>3, <1>4, <1>5
-----------------------------------------------------------------------------
(***************************************************************************)
(* What the actions do, job by job and file by file.                       *)
(***************************************************************************)
\* A job begins.
LEMMA StartEffect ==
    ASSUME NEW w \in Writer, NEW b \in Branch, NEW f \in File, NEW n \in 0..MaxSize, Types,
           Begins(w, b, f, n)
    PROVE  /\ job[w] = NoJob /\ used' = used /\ size' = size /\ links' = links
           /\ missed' = missed /\ linked' = linked
           /\ \A v \in Writer : v # w => job'[v] = job[v]
           /\ job'[w].br = b /\ job'[w].file = f /\ job'[w].old = Stored(b, f)
           /\ job'[w].end = n /\ ~job'[w].wrote
           /\ job'[w].kind \in {"copy", "path", "fd", "set"}
           /\ job'[w].kind # "set" => n >= Stored(b, f)
           /\ job'[w].kind \in {"copy", "path"} => ~Locked(b, f)
           /\ job'[w].kind = "copy" => size[b][f] = None
           /\ job'[w].kind # "copy" => <<b, f>> \notin links
           /\ job'[w].kind \in {"fd", "set"} => size[b][f] # None
           /\ n > Stored(b, f) => Check(n - Stored(b, f))
           /\ job'[w].kind # "set" => Check(n - Stored(b, f))
           /\ lapse' # "open" /\ job'[w].kind \in {"path", "fd"} => ~Setting(b, f)
           /\ lapse' # "open" /\ job'[w].kind = "set" => On(b, f) = {}
           /\ lapse' # "open" => lapse' = lapse
<1>1. job \in [Writer -> Job]
  BY DEF Types
<1>2. PICK k \in {"copy", "path", "fd", "set"} :
             /\ Starts(w, b, f, n, k)
             /\ k # "set" => n >= Stored(b, f) /\ Check(n - Stored(b, f))
             /\ k = "set" => SetLen(w, b, f, n) /\ (n > Stored(b, f) => Check(n - Stored(b, f)))
             /\ k \in {"copy", "path"} => ~Locked(b, f)
             /\ k = "copy" => size[b][f] = None
             /\ k # "copy" => <<b, f>> \notin links
             /\ k \in {"fd", "set"} => size[b][f] # None
             /\ k = "copy" => lapse' = lapse
             /\ k \in {"path", "fd"} => Lapses(Setting(b, f))
             /\ k = "set" => Lapses(On(b, f) # {})
  BY BeginsJob
<1>3. job' = [job EXCEPT ![w] = [br |-> b, file |-> f, old |-> Stored(b, f), end |-> n,
                                 kind |-> k, wrote |-> FALSE]]
      /\ job[w] = NoJob /\ UNCHANGED <<used, size, links, missed, linked>>
  BY <1>2 DEF Starts, ghosts
<1>4. /\ \A v \in Writer : v # w => job'[v] = job[v]
      /\ job'[w] = [br |-> b, file |-> f, old |-> Stored(b, f), end |-> n, kind |-> k, wrote |-> FALSE]
  BY <1>1, <1>3
<1>5. job'[w].kind = k
  BY <1>4
<1>6. /\ lapse' # "open" /\ k \in {"path", "fd"} => ~Setting(b, f)
      /\ lapse' # "open" /\ k = "set" => On(b, f) = {}
      /\ lapse' # "open" => lapse' = lapse
  BY <1>2 DEF Lapses
<1> QED  BY <1>2, <1>3, <1>4, <1>5, <1>6

\* A job ends.
LEMMA EndEffect ==
    ASSUME NEW w \in Writer, Types, Account(w) \/ Fail(w) \/ Stale(w) \/ \E n \in 0..MaxSize : FailPart(w, n)
    PROVE  /\ job'[w] = NoJob /\ links' = links /\ missed' = missed /\ linked' = linked
           /\ \A v \in Writer : v # w => job'[v] = job[v]
           /\ Account(w) \/ Fail(w) \/ Stale(w) => size' = size
BY DEF Account, Fail, Stale, FailPart, Types, ghosts

\* A job stores its bytes, or does not and goes on.
LEMMA WriteEffect ==
    ASSUME NEW w \in Writer, Types, Write(w) \/ Ignored(w)
    PROVE  /\ used' = used /\ ~job[w].wrote /\ links' = links /\ missed' = missed /\ linked' = linked
           /\ Write(w) => lapse' = lapse
           /\ Ignored(w) => size' = size /\ job[w].kind = "set"
           /\ Ignored(w) /\ lapse' # "open" => lapse' = lapse /\ ~Cuts(w)
           /\ \A v \in Writer : v # w => job'[v] = job[v]
           /\ job'[w].br = job[w].br /\ job'[w].file = job[w].file
           /\ job'[w].old = job[w].old /\ job'[w].end = job[w].end
           /\ job'[w].kind = job[w].kind /\ job'[w].wrote
<1>1. job' = [job EXCEPT ![w] = [job[w] EXCEPT !.wrote = TRUE]]
  BY DEF Write, Ignored, Types
<1>2. job'[w] = [job[w] EXCEPT !.wrote = TRUE] /\ \A v \in Writer : v # w => job'[v] = job[v]
  BY <1>1 DEF Types
<1>3. job[w] \in Job
  BY JobFields
<1>4. /\ job'[w].br = job[w].br /\ job'[w].file = job[w].file
      /\ job'[w].old = job[w].old /\ job'[w].end = job[w].end
      /\ job'[w].kind = job[w].kind /\ job'[w].wrote
  BY <1>2, <1>3 DEF Job
<1>5. /\ used' = used /\ ~job[w].wrote /\ links' = links /\ missed' = missed /\ linked' = linked
      /\ Write(w) => lapse' = lapse
      /\ Ignored(w) => size' = size /\ job[w].kind = "set"
      /\ Ignored(w) /\ lapse' # "open" => lapse' = lapse /\ ~Cuts(w)
  BY DEF Write, Ignored, ghosts, Lapses, Cuts
<1> QED  BY <1>2, <1>4, <1>5

\* What a write makes of the sizes.
LEMMA WritePlaces ==
    ASSUME NEW w \in Writer, Types, Write(w), NEW b \in Branch, NEW f \in File
    PROVE  size'[b][f] = IF /\ job[w].br = b /\ job[w].file = f /\ <<b, f>> \notin links
                            /\ job[w].kind \in {"copy", "set"} \/ size[b][f] < job[w].end
                         THEN job[w].end ELSE size[b][f]
<1>1. job[w].end \in 0..MaxSize
  BY JobFields
<1>2. CASE job[w].kind \in {"copy", "set"} \/ (job[w].file # None /\ size[job[w].br][job[w].file] < job[w].end)
  <2>1. Puts(w, job[w].end)
    BY <1>2 DEF Write
  <2>2. size'[b][f] = IF job[w].br = b /\ job[w].file = f /\ <<b, f>> \notin links THEN job[w].end ELSE size[b][f]
    BY <1>1, <2>1, PutsType
  <2> QED  BY <1>2, <2>2
<1>3. CASE ~(job[w].kind \in {"copy", "set"} \/ (job[w].file # None /\ size[job[w].br][job[w].file] < job[w].end))
  <2>1. size' = size
    BY <1>3 DEF Write
  <2> QED  BY <1>3, <2>1, NoneNotFile
<1> QED  BY <1>2, <1>3

LEMMA WriteSizes ==
    ASSUME NEW w \in Writer, Types, Fits(w), Write(w), NEW b \in Branch, NEW f \in File
    PROVE  Stored(b, f)' = IF job[w].br = b /\ job[w].file = f /\ (Cuts(w) \/ Stored(b, f) <= job[w].end)
                           THEN job[w].end ELSE Stored(b, f)
<1>1. size[b][f] \in (-1)..MaxSize /\ job[w].end \in 0..MaxSize /\ job[w].old \in 0..MaxSize
      /\ MaxSize \in Nat /\ None = -1
  BY SizeType, JobFields, NoneNotFile
<1>2. CASE job[w].br = b /\ job[w].file = f
  <2>1. /\ <<b, f>> \notin links
        /\ job[w].kind = "set" => Stored(b, f) = job[w].old
        /\ job[w].kind = "copy" => size[b][f] = None
    BY <1>2, WriteEffect, NoneNotFile DEF Fits, Attached
  <2>2. size'[b][f] = IF job[w].kind \in {"copy", "set"} \/ size[b][f] < job[w].end
                      THEN job[w].end ELSE size[b][f]
    BY <1>2, <2>1, WritePlaces
  <2>3. Cuts(w) => job[w].kind = "set"
    BY JobFields
  <2>4. CASE job[w].kind \in {"copy", "set"}
    <3>1. size'[b][f] = job[w].end /\ Stored(b, f)' = job[w].end
      BY <1>1, <2>2, <2>4 DEF Stored
    <3>2. Cuts(w) \/ Stored(b, f) <= job[w].end
      BY <1>1, <2>1, <2>4 DEF Stored, Cuts
    <3> QED  BY <1>2, <3>1, <3>2
  <2>5. CASE job[w].kind \notin {"copy", "set"}
    <3>1. ~Cuts(w)
      BY <2>3, <2>5
    <3>2. size'[b][f] = IF size[b][f] < job[w].end THEN job[w].end ELSE size[b][f]
      BY <2>2, <2>5
    <3>3. Stored(b, f)' = IF Stored(b, f) <= job[w].end THEN job[w].end ELSE Stored(b, f)
      BY <1>1, <3>2 DEF Stored
    <3> QED  BY <1>2, <3>1, <3>3
  <2> QED  BY <2>4, <2>5
<1>3. CASE ~(job[w].br = b /\ job[w].file = f)
  <2>1. size'[b][f] = size[b][f]
    BY <1>3, WritePlaces
  <2> QED  BY <1>3, <2>1 DEF Stored
<1> QED  BY <1>2, <1>3

\* A job loses its file, or follows it, and keeps its numbers.
Kept(v) ==
    /\ job'[v].br = job[v].br /\ job'[v].old = job[v].old /\ job'[v].end = job[v].end
    /\ job'[v].kind = job[v].kind /\ job'[v].wrote = job[v].wrote

LEMMA DetachEffect ==
    ASSUME Types, NEW S, job' = Detached(S), NEW v \in Writer
    PROVE  /\ Kept(v)
           /\ job'[v].file = IF <<job[v].br, job[v].file>> \in S THEN None ELSE job[v].file
<1>1. job[v] \in Job
  BY JobFields
<1>2. job'[v] = IF <<job[v].br, job[v].file>> \in S THEN [job[v] EXCEPT !.file = None] ELSE job[v]
  BY DEF Detached
<1>3. CASE <<job[v].br, job[v].file>> \in S
  BY <1>1, <1>2, <1>3 DEF Job, Kept
<1>4. CASE <<job[v].br, job[v].file>> \notin S
  BY <1>1, <1>2, <1>4 DEF Job, Kept
<1> QED  BY <1>3, <1>4

LEMMA DeleteEffect ==
    ASSUME NEW b \in Branch, NEW f \in File, Types, Delete(b, f), NEW v \in Writer
    PROVE  /\ Kept(v)
           /\ job'[v].file = IF job[v].br = b /\ job[v].file = f THEN None ELSE job[v].file
           /\ job[v].br = b /\ job[v].file = f => ~Holds(v)
<1>1. job' = Detached({<<b, f>>}) /\ ~Locked(b, f)
  BY DEF Delete
<1> QED  BY <1>1, DetachEffect DEF Locked, On

LEMMA DropEffect ==
    ASSUME NEW b \in Branch, Types, Drop(b), NEW v \in Writer
    PROVE  /\ Kept(v)
           /\ job'[v].file = IF job[v].br = b THEN None ELSE job[v].file
           /\ job[v].file # None => ~Holds(v)
<1>1. job' = Detached({b} \X File) /\ Exclusive
  BY DEF Drop
<1>2. job[v].br \in Branch /\ job[v].file \in File \cup {None}
  BY JobFields
<1>3. Kept(v) /\ job'[v].file = IF <<job[v].br, job[v].file>> \in {b} \X File THEN None ELSE job[v].file
  BY <1>1, DetachEffect
<1>4. job[v].file # None => ~Holds(v)
  BY <1>1, <1>2 DEF Exclusive, Locked, On
<1> QED  BY <1>2, <1>3, <1>4

LEMMA CommitEffect ==
    ASSUME Types, CommitUp, NEW v \in Writer
    PROVE  /\ Kept(v)
           /\ job'[v].file = IF \/ job[v].br = Child
                                \/ job[v].br = Parent /\ job[v].file \in File /\ Taken(job[v].file)
                             THEN None ELSE job[v].file
           /\ job[v].file # None => ~Holds(v)
<1>1. job' = Detached(Replaced) /\ Exclusive
  BY DEF CommitUp
<1>2. job[v].br \in Branch /\ job[v].file \in File \cup {None}
  BY JobFields
<1>3. Kept(v) /\ job'[v].file = IF <<job[v].br, job[v].file>> \in Replaced THEN None ELSE job[v].file
  BY <1>1, DetachEffect
<1>4. job[v].file # None => ~Holds(v)
  BY <1>1, <1>2 DEF Exclusive, Locked, On
<1>5. <<job[v].br, job[v].file>> \in Replaced <=>
        \/ job[v].br = Child /\ job[v].file \in File
        \/ job[v].br = Parent /\ job[v].file \in File /\ Taken(job[v].file)
  BY DEF Replaced
<1> QED  BY <1>2, <1>3, <1>4, <1>5

LEMMA RenameEffect ==
    ASSUME NEW b \in Branch, NEW f \in File, NEW g \in File, Types, Rename(b, f, g), NEW v \in Writer
    PROVE  /\ Kept(v)
           /\ Holds(v) => job'[v].file = job[v].file
           /\ ~Holds(v) =>
                job'[v].file = IF job[v].br = b /\ job[v].file = f THEN g
                               ELSE IF job[v].br = b /\ job[v].file = g THEN None ELSE job[v].file
<1>1. job[v] \in Job
  BY JobFields
<1>2. job'[v] = IF Holds(v) THEN job[v]
                ELSE IF v \in On(b, f) THEN [job[v] EXCEPT !.file = g]
                ELSE IF v \in On(b, g) THEN [job[v] EXCEPT !.file = None] ELSE job[v]
  BY DEF Rename
<1>3. /\ v \in On(b, f) <=> job[v].br = b /\ job[v].file = f
      /\ v \in On(b, g) <=> job[v].br = b /\ job[v].file = g
  BY DEF On
<1>4. CASE Holds(v)
  BY <1>1, <1>2, <1>4 DEF Job, Kept
<1>5. CASE ~Holds(v) /\ v \in On(b, f)
  BY <1>1, <1>2, <1>3, <1>5 DEF Job, Kept
<1>6. CASE ~Holds(v) /\ v \notin On(b, f) /\ v \in On(b, g)
  BY <1>1, <1>2, <1>3, <1>6 DEF Job, Kept
<1>7. CASE ~Holds(v) /\ v \notin On(b, f) /\ v \notin On(b, g)
  BY <1>1, <1>2, <1>3, <1>7 DEF Job, Kept
<1> QED  BY <1>4, <1>5, <1>6, <1>7

\* No path lock is in the way of a rename, or bytes may be lost.
LEMMA RenameSteady ==
    ASSUME NEW b \in Branch, NEW f \in File, NEW g \in File, Types, Rename(b, f, g), lapse' # "open",
           NEW v \in Writer
    PROVE  /\ Kept(v)
           /\ job'[v].file = IF job[v].br = b /\ job[v].file = f THEN g
                             ELSE IF job[v].br = b /\ job[v].file = g THEN None ELSE job[v].file
           /\ job[v].br = b /\ job[v].file \in {f, g} => ~Holds(v)
<1>1. ~Locked(b, f) /\ ~Locked(b, g)
  BY DEF Rename, Lapses
<1>2. job[v].br = b /\ job[v].file \in {f, g} => ~Holds(v)
  BY <1>1 DEF Locked, On
<1>3. CASE Holds(v)
  BY <1>2, <1>3, RenameEffect
<1>4. CASE ~Holds(v)
  BY <1>4, RenameEffect
<1> QED  BY <1>3, <1>4

\* The deltas after a removal or a move.
LEMMA DeleteSizes ==
    ASSUME NEW b \in Branch, NEW f \in File, Types, Delete(b, f), NEW c \in Branch, NEW g \in File
    PROVE  /\ size'[c][g] = IF c = b /\ g = f THEN None ELSE size[c][g]
           /\ <<c, g>> \in links' <=> <<c, g>> \in links /\ ~(c = b /\ g = f)
           /\ Stored(c, g)' = IF c = b /\ g = f THEN 0 ELSE Stored(c, g)
<1>1. size'[c][g] = IF c = b /\ g = f THEN None ELSE size[c][g]
  BY DEF Delete, Types
<1>2. <<c, g>> \in links' <=> <<c, g>> \in links /\ ~(c = b /\ g = f)
  BY DEF Delete
<1> QED  BY <1>1, <1>2 DEF Stored

LEMMA DropSizes ==
    ASSUME NEW b \in Branch, Types, Drop(b), NEW c \in Branch, NEW g \in File
    PROVE  /\ size'[c][g] = IF c = b THEN None ELSE size[c][g]
           /\ <<c, g>> \in links' <=> <<c, g>> \in links /\ c # b
           /\ Stored(c, g)' = IF c = b THEN 0 ELSE Stored(c, g)
<1>1. size'[c][g] = IF c = b THEN None ELSE size[c][g]
  BY DEF Drop, Types
<1>2. <<c, g>> \in links' <=> <<c, g>> \in links /\ c # b
  BY DEF Drop
<1> QED  BY <1>1, <1>2 DEF Stored

LEMMA RenameSizes ==
    ASSUME NEW b \in Branch, NEW f \in File, NEW g \in File, Types, Rename(b, f, g),
           NEW c \in Branch, NEW h \in File
    PROVE  /\ size'[c][h] = IF c = b /\ h = f THEN None
                            ELSE IF c = b /\ h = g THEN size[b][f] ELSE size[c][h]
           /\ <<c, h>> \in links' <=> IF c = b /\ h = f THEN FALSE
                                      ELSE IF c = b /\ h = g THEN <<b, f>> \in links ELSE <<c, h>> \in links
           /\ f # g /\ size[b][f] # None
<1>1. PICK n : n = size[b][f]
  OBVIOUS
<1>2. size' = [size EXCEPT ![b][f] = None, ![b][g] = n] /\ f # g /\ size[b][f] # None
  BY <1>1 DEF Rename
<1>3. size'[c][h] = IF c = b /\ h = f THEN None ELSE IF c = b /\ h = g THEN n ELSE size[c][h]
  BY <1>2 DEF Types
<1>4. <<c, h>> \in links' <=> IF c = b /\ h = f THEN FALSE
                              ELSE IF c = b /\ h = g THEN <<b, f>> \in links ELSE <<c, h>> \in links
  <2>1. links' = (links \ {<<b, f>>, <<b, g>>}) \union (IF <<b, f>> \in links THEN {<<b, g>>} ELSE {})
    BY DEF Rename
  <2> QED  BY <1>2, <2>1
<1> QED  BY <1>1, <1>2, <1>3, <1>4

LEMMA RenameStored ==
    ASSUME NEW b \in Branch, NEW f \in File, NEW g \in File, Types, Rename(b, f, g),
           NEW c \in Branch, NEW h \in File
    PROVE  /\ Stored(c, h)' = IF c = b /\ h = f THEN 0
                              ELSE IF c = b /\ h = g THEN Stored(b, f) ELSE Stored(c, h)
           /\ f # g
<1>1. PICK n : n = size[b][f]
  OBVIOUS
<1>2. size' = [size EXCEPT ![b][f] = None, ![b][g] = n] /\ f # g
  BY <1>1 DEF Rename
<1>3. size'[c][h] = IF c = b /\ h = f THEN None ELSE IF c = b /\ h = g THEN n ELSE size[c][h]
  BY <1>2 DEF Types
<1> QED  BY <1>1, <1>2, <1>3 DEF Stored

LEMMA CommitSizes ==
    ASSUME Types, Locks, CommitUp, NEW c \in Branch, NEW h \in File
    PROVE  /\ size'[c][h] = IF c = Child THEN None
                            ELSE IF c = Parent /\ Taken(h) THEN size[Child][h] ELSE size[c][h]
           /\ <<c, h>> \in links' <=> IF c = Child THEN FALSE
                                      ELSE IF c = Parent /\ Taken(h) THEN <<Child, h>> \in links
                                      ELSE <<c, h>> \in links
           /\ Stored(c, h)' = IF c = Child THEN 0
                              ELSE IF c = Parent /\ Taken(h) THEN Stored(Child, h) ELSE Stored(c, h)
<1>1. size' = [size EXCEPT ![Child] = [f \in File |-> None],
                 ![Parent] = [f \in File |-> IF Taken(f) THEN size[Child][f] ELSE size[Parent][f]]]
  BY NoneNotFile, QuotaAssumption DEF CommitUp, Merged, Types
<1>2. Child # Parent /\ Child \in Branch /\ Parent \in Branch
  BY QuotaAssumption
<1>3. size'[c][h] = IF c = Child THEN None
                    ELSE IF c = Parent /\ Taken(h) THEN size[Child][h] ELSE size[c][h]
  BY <1>1, <1>2 DEF Types
<1>4. <<c, h>> \in links' <=> IF c = Child THEN FALSE
                              ELSE IF c = Parent /\ Taken(h) THEN <<Child, h>> \in links
                              ELSE <<c, h>> \in links
  <2>1. links' = (links \ Replaced) \union {<<Parent, f>> : f \in {f \in File : <<Child, f>> \in links}}
    BY DEF CommitUp, Relinked
  <2>2. <<c, h>> \in Replaced <=> c = Child \/ (c = Parent /\ Taken(h))
    BY DEF Replaced
  <2>3. <<c, h>> \in {<<Parent, f>> : f \in {f \in File : <<Child, f>> \in links}}
          <=> c = Parent /\ <<Child, h>> \in links
    OBVIOUS
  <2>4. <<Child, h>> \in links => Taken(h)
    BY <1>2 DEF Locks, Taken
  <2> QED  BY <1>2, <2>1, <2>2, <2>3, <2>4
<1> QED  BY <1>3, <1>4 DEF Stored

LEMMA SymlinkSizes ==
    ASSUME NEW b \in Branch, NEW f \in File, NEW n \in Nat, Types, Symlink(b, f, n)
    PROVE  /\ \A c \in Branch, g \in File : size'[c][g] = IF c = b /\ g = f THEN n ELSE size[c][g]
           /\ \A c \in Branch, g \in File : <<c, g>> \in links' <=> (<<c, g>> \in links \/ (c = b /\ g = f))
           /\ \A c \in Branch, g \in File : Stored(c, g)' = IF c = b /\ g = f THEN n ELSE Stored(c, g)
           /\ Stored(b, f) = 0 /\ job' = job /\ used' = used
           /\ missed' = missed + n /\ linked' = linked + n
<1>1. \A c \in Branch, g \in File : size'[c][g] = IF c = b /\ g = f THEN n ELSE size[c][g]
  BY DEF Symlink, Types
<1>2. \A c \in Branch, g \in File : <<c, g>> \in links' <=> (<<c, g>> \in links \/ (c = b /\ g = f))
  BY DEF Symlink
<1>3. /\ Stored(b, f) = 0 /\ job' = job /\ used' = used
      /\ missed' = missed + n /\ linked' = linked + n
  BY DEF Symlink, Stored
<1>4. n # None
  BY NoneNotFile
<1>5. \A c \in Branch, g \in File : Stored(c, g)' = IF c = b /\ g = f THEN n ELSE Stored(c, g)
  BY <1>1, <1>4 DEF Stored
<1> QED  BY <1>1, <1>2, <1>3, <1>5
-----------------------------------------------------------------------------
(***************************************************************************)
(* The locks and what a job has read of its file.                          *)
(***************************************************************************)
LEMMA LocksStart ==
    ASSUME NEW w \in Writer, NEW b \in Branch, NEW f \in File, NEW n \in 0..MaxSize, Types, Locks,
           Begins(w, b, f, n)
    PROVE  Locks'
<1>1. /\ \A v \in Writer : v # w => job'[v] = job[v]
      /\ job'[w].br = b /\ job'[w].file = f /\ size' = size /\ links' = links
      /\ job'[w].kind \in {"copy", "path", "fd", "set"}
      /\ job'[w].kind \in {"copy", "path"} => ~Locked(b, f)
      /\ job'[w].kind \in {"fd", "set"} => size[b][f] # None
  BY StartEffect
<1>2. \A v \in Writer : v # w => Holds(v)' = Holds(v)
  BY <1>1 DEF Holds
<1>3. \A v \in Writer : v # w /\ Holds(w)' /\ Holds(v)' => <<job'[v].br, job'[v].file>> # <<b, f>>
  BY <1>1, <1>2 DEF Locked, On, Holds
<1>4. \A v \in Writer : Holds(v)' => job'[v].file # None
  BY <1>1, <1>2, NoneNotFile DEF Locks
<1>5. \A v, x \in Writer : v # x /\ Holds(v)' /\ Holds(x)' =>
          <<job'[v].br, job'[v].file>> # <<job'[x].br, job'[x].file>>
  BY <1>1, <1>2, <1>3 DEF Locks
<1>6. \A v \in Writer : job'[v].file # None /\ ~Holds(v)' => size'[job'[v].br][job'[v].file] # None
  BY <1>1, <1>2 DEF Locks, Holds
<1> QED  BY <1>1, <1>4, <1>5, <1>6 DEF Locks

\* A job stores its bytes or ends.
LEMMA LocksJob ==
    ASSUME NEW w \in Writer, Types, Locks,
           \/ Write(w) \/ Ignored(w) \/ Account(w) \/ Fail(w) \/ Stale(w)
           \/ \E n \in 0..MaxSize : FailPart(w, n)
    PROVE  Locks'
<1>1. \A b \in Branch, f \in File : size[b][f] # None => size'[b][f] # None
  <2>1. job[w].end \in 0..MaxSize
    BY JobFields
  <2>2. size' = size \/ \E n \in 0..MaxSize : Puts(w, n)
    BY <2>1 DEF Write, Ignored, Account, Fail, Stale, FailPart
  <2>3. \A n \in 0..MaxSize : n # None
    BY NoneNotFile
  <2> QED  BY <2>2, <2>3, PutsType
<1>2. /\ links' = links
      /\ \A v \in Writer : v # w => job'[v] = job[v]
      /\ \/ job'[w] = NoJob
         \/ job'[w].br = job[w].br /\ job'[w].file = job[w].file /\ job'[w].kind = job[w].kind
  BY WriteEffect, EndEffect
<1>3. \A v \in Writer : /\ Holds(v)' => Holds(v)
                        /\ Holds(v)' \/ job'[v].file # None =>
                             /\ job'[v].br = job[v].br /\ job'[v].file = job[v].file
                             /\ Holds(v)' = Holds(v)
  BY <1>2 DEF Holds, NoJob
<1>4. \A v \in Writer : job[v].br \in Branch /\ job[v].file \in File \cup {None}
  BY JobFields
<1>5. /\ \A v \in Writer : Holds(v)' => job'[v].file # None
      /\ \A v, x \in Writer : v # x /\ Holds(v)' /\ Holds(x)' =>
           <<job'[v].br, job'[v].file>> # <<job'[x].br, job'[x].file>>
  BY <1>3 DEF Locks
<1>6. ASSUME NEW v \in Writer, job'[v].file # None, ~Holds(v)'
      PROVE  size'[job'[v].br][job'[v].file] # None
  BY <1>1, <1>3, <1>4, <1>6 DEF Locks
<1>7. \A b \in Branch, f \in File : <<b, f>> \in links' => size'[b][f] # None
  BY <1>1, <1>2 DEF Locks
<1> QED  BY <1>5, <1>6, <1>7 DEF Locks

\* A job moves with its delta, keeps its lock or loses its file.
Place0(v) == size[job[v].br][job[v].file]
Linked(v) == <<job[v].br, job[v].file>> \in links
Follows(v) ==
    /\ Kept(v)
    /\ Holds(v) => job'[v].file = job[v].file
    /\ ~Holds(v) /\ job'[v].file # None =>
         job[v].file # None /\ Place0(v)' = Place0(v) /\ Linked(v)' = Linked(v)

LEMMA DeleteFollows ==
    ASSUME NEW b \in Branch, NEW f \in File, Types, Delete(b, f), NEW v \in Writer
    PROVE  Follows(v)
<1>1. /\ Kept(v) /\ job'[v].file = IF job[v].br = b /\ job[v].file = f THEN None ELSE job[v].file
      /\ job[v].br = b /\ job[v].file = f => ~Holds(v)
  BY DeleteEffect
<1>2. ASSUME job'[v].file # None
      PROVE  job[v].file # None /\ Place0(v)' = Place0(v) /\ Linked(v)' = Linked(v)
  <2>1. PICK c \in Branch, g \in File : c = job[v].br /\ g = job[v].file
    BY <1>1, <1>2, JobFields
  <2>2. job'[v].br = c /\ job'[v].file = g /\ ~(c = b /\ g = f)
    BY <1>1, <1>2, <2>1 DEF Kept
  <2>3. size'[c][g] = size[c][g] /\ (<<c, g>> \in links' <=> <<c, g>> \in links)
    BY <2>2, DeleteSizes
  <2> QED  BY <2>1, <2>2, <2>3, NoneNotFile DEF Place0, Linked
<1> QED  BY <1>1, <1>2 DEF Follows

LEMMA DropFollows ==
    ASSUME NEW b \in Branch, Types, Locks, Drop(b), NEW v \in Writer
    PROVE  Follows(v)
<1>1. /\ Kept(v) /\ job'[v].file = IF job[v].br = b THEN None ELSE job[v].file
      /\ ~Holds(v)
  BY DropEffect DEF Locks
<1>2. ASSUME job'[v].file # None
      PROVE  job[v].file # None /\ Place0(v)' = Place0(v) /\ Linked(v)' = Linked(v)
  <2>1. PICK c \in Branch, g \in File : c = job[v].br /\ g = job[v].file
    BY <1>1, <1>2, JobFields
  <2>2. job'[v].br = c /\ job'[v].file = g /\ c # b
    BY <1>1, <1>2, <2>1 DEF Kept
  <2>3. size'[c][g] = size[c][g] /\ (<<c, g>> \in links' <=> <<c, g>> \in links)
    BY <2>2, DropSizes
  <2> QED  BY <2>1, <2>2, <2>3, NoneNotFile DEF Place0, Linked
<1> QED  BY <1>1, <1>2 DEF Follows

LEMMA CommitFollows ==
    ASSUME Types, Locks, CommitUp, NEW v \in Writer
    PROVE  Follows(v)
<1>1. /\ Kept(v)
      /\ job'[v].file = IF \/ job[v].br = Child
                           \/ job[v].br = Parent /\ job[v].file \in File /\ Taken(job[v].file)
                        THEN None ELSE job[v].file
      /\ ~Holds(v)
  BY CommitEffect DEF Locks
<1>2. ASSUME job'[v].file # None
      PROVE  job[v].file # None /\ Place0(v)' = Place0(v) /\ Linked(v)' = Linked(v)
  <2>1. PICK c \in Branch, g \in File : c = job[v].br /\ g = job[v].file
    BY <1>1, <1>2, JobFields
  <2>2. job'[v].br = c /\ job'[v].file = g /\ c # Child /\ ~(c = Parent /\ Taken(g))
    BY <1>1, <1>2, <2>1 DEF Kept
  <2>3. size'[c][g] = size[c][g] /\ (<<c, g>> \in links' <=> <<c, g>> \in links)
    BY <2>2, CommitSizes
  <2> QED  BY <2>1, <2>2, <2>3, NoneNotFile DEF Place0, Linked
<1> QED  BY <1>1, <1>2 DEF Follows

LEMMA RenameFollows ==
    ASSUME NEW b \in Branch, NEW f \in File, NEW g \in File, Types, Rename(b, f, g), NEW v \in Writer
    PROVE  Follows(v)
<1>1. /\ Kept(v) /\ (Holds(v) => job'[v].file = job[v].file)
      /\ ~Holds(v) =>
           job'[v].file = IF job[v].br = b /\ job[v].file = f THEN g
                          ELSE IF job[v].br = b /\ job[v].file = g THEN None ELSE job[v].file
  BY RenameEffect
<1>2. ASSUME ~Holds(v), job'[v].file # None
      PROVE  job[v].file # None /\ Place0(v)' = Place0(v) /\ Linked(v)' = Linked(v)
  <2>0. f # g
    BY DEF Rename
  <2>1. job[v].file \in File /\ job[v].br \in Branch /\ f # g
    <3>1. job[v].file # None
      BY <1>1, <1>2, NoneNotFile
    <3> QED  BY <2>0, <3>1, JobFields
  <2>2. PICK c \in Branch, h \in File : c = job[v].br /\ h = job[v].file
    BY <2>1
  <2>3. PICK k \in File : k = job'[v].file /\ k = IF c = b /\ h = f THEN g ELSE h
    BY <1>1, <1>2, <2>2
  <2>4. ~(c = b /\ h = g) /\ job'[v].br = c
    BY <1>1, <1>2, <2>1, <2>2 DEF Kept
  <2>5. /\ size'[c][k] = IF c = b /\ k = f THEN None
                         ELSE IF c = b /\ k = g THEN size[b][f] ELSE size[c][k]
        /\ <<c, k>> \in links' <=> IF c = b /\ k = f THEN FALSE
                                   ELSE IF c = b /\ k = g THEN <<b, f>> \in links ELSE <<c, k>> \in links
    BY RenameSizes
  <2>6. size'[c][k] = size[c][h] /\ (<<c, k>> \in links' <=> <<c, h>> \in links)
    BY <2>1, <2>3, <2>4, <2>5
  <2> QED  BY <2>2, <2>3, <2>4, <2>6, NoneNotFile DEF Place0, Linked
<1> QED  BY <1>1, <1>2 DEF Follows

LEMMA LocksRemove ==
    ASSUME Types, Locks,
           \/ \E b \in Branch, f \in File, n \in 1..MaxSize : Symlink(b, f, n)
           \/ \E b \in Branch, f \in File : Delete(b, f)
           \/ \E b \in Branch, f, g \in File : Rename(b, f, g)
           \/ \E b \in Branch : Drop(b)
           \/ CommitUp
    PROVE  Locks'
<1>1. \A b \in Branch, f \in File : <<b, f>> \in links => size[b][f] # None
  BY DEF Locks
<1>2. ASSUME \E b \in Branch, f \in File, n \in 1..MaxSize : Symlink(b, f, n) PROVE Locks'
  <2>1. PICK b \in Branch, f \in File, n \in Nat : Symlink(b, f, n)
    BY <1>2, NoneNotFile
  <2>2. /\ \A c \in Branch, g \in File : size'[c][g] = IF c = b /\ g = f THEN n ELSE size[c][g]
        /\ \A c \in Branch, g \in File : <<c, g>> \in links' <=> (<<c, g>> \in links \/ (c = b /\ g = f))
    BY <2>1, SymlinkSizes
  <2>3. job' = job /\ n # None
    BY <2>1, SymlinkSizes, NoneNotFile
  <2>4. \A c \in Branch, g \in File : /\ size[c][g] # None => size'[c][g] # None
                                      /\ <<c, g>> \in links' => size'[c][g] # None
    BY <1>1, <2>2, <2>3
  <2>5. \A v \in Writer : job[v].br \in Branch /\ job[v].file \in File \cup {None}
    BY JobFields
  <2>6. \A v \in Writer : job'[v].file # None /\ ~Holds(v)' => size'[job'[v].br][job'[v].file] # None
    BY <2>3, <2>4, <2>5 DEF Locks, Holds
  <2> QED  BY <2>3, <2>4, <2>6 DEF Locks, Holds
<1>3. ASSUME \A v \in Writer : Follows(v),
             \A c \in Branch, g \in File : <<c, g>> \in links' => size'[c][g] # None
      PROVE  Locks'
  <2>1. \A v \in Writer : Holds(v)' = Holds(v) /\ job'[v].br = job[v].br
    BY <1>3 DEF Follows, Kept, Holds
  <2>2. \A v \in Writer : Holds(v) => job'[v].file = job[v].file
    BY <1>3 DEF Follows
  <2>3. ASSUME NEW v \in Writer, job'[v].file # None, ~Holds(v)'
        PROVE  size'[job'[v].br][job'[v].file] # None
    <3>1. ~Holds(v)
      BY <2>1, <2>3
    <3>2. job[v].file # None /\ Place0(v)' = Place0(v)
      BY <1>3, <2>3, <3>1 DEF Follows
    <3> QED  BY <3>1, <3>2 DEF Place0, Locks
  <2>4. /\ \A v \in Writer : Holds(v)' => job'[v].file # None
        /\ \A v, x \in Writer : v # x /\ Holds(v)' /\ Holds(x)' =>
             <<job'[v].br, job'[v].file>> # <<job'[x].br, job'[x].file>>
    BY <2>1, <2>2 DEF Locks
  <2> QED  BY <1>3, <2>3, <2>4 DEF Locks
<1>4. CASE \E b \in Branch, f \in File : Delete(b, f)
  <2>1. \A c \in Branch, g \in File : <<c, g>> \in links' => size'[c][g] # None
    BY <1>1, <1>4, DeleteSizes
  <2> QED  BY <1>3, <1>4, <2>1, DeleteFollows
<1>5. CASE \E b \in Branch, f, g \in File : Rename(b, f, g)
  <2>1. PICK b \in Branch, f \in File, g \in File : Rename(b, f, g)
    BY <1>5
  <2>2. ASSUME NEW c \in Branch, NEW h \in File, <<c, h>> \in links' PROVE size'[c][h] # None
    <3>1. /\ size'[c][h] = IF c = b /\ h = f THEN None
                            ELSE IF c = b /\ h = g THEN size[b][f] ELSE size[c][h]
          /\ <<c, h>> \in links' <=> IF c = b /\ h = f THEN FALSE
                                      ELSE IF c = b /\ h = g THEN <<b, f>> \in links ELSE <<c, h>> \in links
      BY <2>1, RenameSizes
    <3> QED  BY <1>1, <2>2, <3>1
  <2> QED  BY <1>3, <2>1, <2>2, RenameFollows
<1>6. CASE \E b \in Branch : Drop(b)
  <2>1. \A c \in Branch, g \in File : <<c, g>> \in links' => size'[c][g] # None
    BY <1>1, <1>6, DropSizes
  <2> QED  BY <1>3, <1>6, <2>1, DropFollows
<1>7. CASE CommitUp
  <2>1. ASSUME NEW c \in Branch, NEW h \in File, <<c, h>> \in links' PROVE size'[c][h] # None
    <3>1. /\ size'[c][h] = IF c = Child THEN None
                            ELSE IF c = Parent /\ Taken(h) THEN size[Child][h] ELSE size[c][h]
          /\ <<c, h>> \in links' <=> IF c = Child THEN FALSE
                                      ELSE IF c = Parent /\ Taken(h) THEN <<Child, h>> \in links
                                      ELSE <<c, h>> \in links
      BY <1>7, CommitSizes
    <3> QED  BY <1>1, <2>1, <3>1, NoneNotFile
  <2> QED  BY <1>3, <1>7, <2>1, CommitFollows
<1> QED  BY <1>2, <1>4, <1>5, <1>6, <1>7

JobsSteady == SetAlone /\ \A v \in Writer : Fits(v)

\* What follows for a truncation.
CutFacts == Types /\ JobsSteady => CutAlone /\ CutExact /\ GrowthAbove

LEMMA CutKnown == CutFacts
<1> SUFFICES ASSUME Types, JobsSteady PROVE CutAlone /\ CutExact /\ GrowthAbove
  BY DEF CutFacts
<1>1. \A w \in Writer : Cuts(w) => job[w].kind = "set"
  BY JobFields
<1>2. \A w \in Writer : Fits(w)
  BY DEF JobsSteady
<1>3. CutAlone
  BY <1>1 DEF JobsSteady, SetAlone, CutAlone
<1>4. CutExact
  BY <1>1, <1>2 DEF CutExact, Fits
<1>5. GrowthAbove
  BY <1>2 DEF GrowthAbove, Fits
<1> QED  BY <1>3, <1>4, <1>5

LEMMA CutKnownNext == CutFacts'
<1>1. CutFacts
  BY CutKnown
<1> QED  BY <1>1, PTL

LEMMA JobsStart ==
    ASSUME NEW w \in Writer, NEW b \in Branch, NEW f \in File, NEW n \in 0..MaxSize, Types, Locks,
           JobsSteady, Begins(w, b, f, n), lapse' # "open"
    PROVE  JobsSteady'
<1>1. /\ size' = size /\ links' = links /\ \A v \in Writer : v # w => job'[v] = job[v]
      /\ job'[w].br = b /\ job'[w].file = f /\ job'[w].old = Stored(b, f) /\ ~job'[w].wrote
      /\ job'[w].kind \in {"copy", "path", "fd", "set"}
      /\ job'[w].kind = "copy" => size[b][f] = None
      /\ job'[w].kind # "copy" => <<b, f>> \notin links
      /\ job'[w].kind \in {"path", "fd"} => ~Setting(b, f)
      /\ job'[w].kind = "set" => On(b, f) = {}
  BY StartEffect
<1>2. SetAlone'
  <2> SUFFICES ASSUME NEW x \in Writer, NEW v \in Writer, x # v, Attached(x)', job'[x].kind = "set",
                      <<job'[x].br, job'[x].file>> = <<job'[v].br, job'[v].file>>
               PROVE  FALSE
    BY DEF SetAlone
  <2>1. job'[x].br = job'[v].br /\ job'[x].file = job'[v].file
    OBVIOUS
  <2>2. CASE x = w
    <3>1. job[v].br = b /\ job[v].file = f
      BY <2>1, <2>2, <1>1
    <3> QED  BY <3>1, <2>2, <1>1 DEF On
  <2>3. CASE v = w
    <3>1. job[x].br = b /\ job[x].file = f /\ job[x].kind = "set"
      BY <2>1, <2>3, <1>1
    <3>2. x \in On(b, f) /\ Setting(b, f) /\ size[b][f] # None
      BY <3>1, NoneNotFile DEF On, Setting, Locks, Holds
    <3> QED  BY <3>2, <1>1
  <2>4. CASE x # w /\ v # w
    BY <2>1, <2>4, <1>1 DEF JobsSteady, SetAlone, Attached
  <2> QED  BY <2>2, <2>3, <2>4
<1>3. ASSUME NEW v \in Writer PROVE Fits(v)'
  <2>1. CASE v = w
    <3>1. Stored(b, f)' = Stored(b, f) /\ Stored(b, f) \in 0..MaxSize
      BY <1>1, SizeType DEF Stored
    <3>2. <<b, f>> \notin links'
      BY <1>1 DEF Locks
    <3>3. Stored(job[w].br, job[w].file)' = Stored(b, f)'
      BY <1>1 DEF Stored
    <3> QED  BY <1>1, <2>1, <3>1, <3>2, <3>3, NoneNotFile DEF Fits
  <2>2. CASE v # w
    <3>1. Fits(v) /\ job'[v] = job[v] /\ size' = size /\ links' = links
      BY <1>1, <2>2 DEF JobsSteady
    <3> QED  BY <3>1 DEF Fits, Attached, Stored
  <2> QED  BY <2>1, <2>2
<1> QED  BY <1>2, <1>3 DEF JobsSteady

LEMMA JobsEnd ==
    ASSUME NEW w \in Writer, Types, JobsSteady, Account(w) \/ Fail(w) \/ Stale(w)
    PROVE  JobsSteady'
<1>1. /\ job'[w] = NoJob /\ size' = size /\ links' = links
      /\ \A v \in Writer : v # w => job'[v] = job[v]
  BY EndEffect
<1>2. ~Attached(w)' /\ job'[w].kind = "none"
  BY <1>1 DEF Attached, NoJob
<1>3. SetAlone'
  <2> SUFFICES ASSUME NEW x \in Writer, NEW v \in Writer, x # v, Attached(x)', job'[x].kind = "set",
                      <<job'[x].br, job'[x].file>> = <<job'[v].br, job'[v].file>>
               PROVE  FALSE
    BY DEF SetAlone
  <2>1. job'[x].br = job'[v].br /\ job'[x].file = job'[v].file
    OBVIOUS
  <2>2. x # w /\ v # w
    BY <1>1, <1>2, <2>1 DEF Attached
  <2> QED  BY <2>1, <2>2, <1>1 DEF JobsSteady, SetAlone, Attached
<1>4. ASSUME NEW v \in Writer PROVE Fits(v)'
  <2>1. CASE v = w
    BY <1>2, <2>1 DEF Fits
  <2>2. CASE v # w
    <3>1. Fits(v) /\ job'[v] = job[v] /\ size' = size /\ links' = links
      BY <1>1, <2>2 DEF JobsSteady
    <3> QED  BY <3>1 DEF Fits, Attached, Stored
  <2> QED  BY <2>1, <2>2
<1> QED  BY <1>3, <1>4 DEF JobsSteady

LEMMA JobsWrite ==
    ASSUME NEW w \in Writer, Types, Locks, JobsSteady, Write(w) \/ Ignored(w)
    PROVE  JobsSteady'
<1>1. /\ \A v \in Writer : v # w => job'[v] = job[v]
      /\ job'[w].br = job[w].br /\ job'[w].file = job[w].file
      /\ job'[w].old = job[w].old /\ job'[w].end = job[w].end /\ job'[w].kind = job[w].kind
      /\ job'[w].wrote /\ ~job[w].wrote /\ links' = links
      /\ Ignored(w) => size' = size /\ job[w].kind = "set"
  BY WriteEffect
<1>2. SetAlone'
  BY <1>1 DEF JobsSteady, SetAlone, Attached
<1>3. ASSUME NEW v \in Writer, job[v].file = None PROVE Fits(v)'
  <2>1. job'[v].file = None /\ job'[v].kind = job[v].kind /\ ~Holds(v)
    BY <1>1, <1>3 DEF Locks
  <2> QED  BY <2>1 DEF Fits, Attached, Holds
<1>4. ASSUME Ignored(w), NEW v \in Writer PROVE Fits(v)'
  <2>1. CASE v = w
    BY <1>1, <1>4, <2>1 DEF Fits
  <2>2. CASE v # w
    <3>1. Fits(v) /\ job'[v] = job[v] /\ size' = size /\ links' = links
      BY <1>1, <1>4, <2>2 DEF JobsSteady
    <3> QED  BY <3>1 DEF Fits, Attached, Stored
  <2> QED  BY <2>1, <2>2
<1>5. ASSUME Write(w), NEW v \in Writer, job[v].file # None PROVE Fits(v)'
  <2>1. PICK b \in Branch, f \in File : b = job[v].br /\ f = job[v].file
    BY <1>5, JobFields
  <2>2. /\ Stored(b, f) \in 0..MaxSize /\ job[w].end \in 0..MaxSize /\ job[v].old \in 0..MaxSize
        /\ job[v].end \in 0..MaxSize /\ MaxSize \in Nat
    BY SizeType, JobFields, NoneNotFile
  <2>3. Fits(v) /\ Fits(w)
    BY DEF JobsSteady
  <2>4. Stored(b, f)' = IF job[w].br = b /\ job[w].file = f /\ (Cuts(w) \/ Stored(b, f) <= job[w].end)
                        THEN job[w].end ELSE Stored(b, f)
    BY <1>5, <2>3, WriteSizes
  <2>5. job'[v].br = b /\ job'[v].file = f
    BY <1>1, <2>1
  <2>6. Stored(job[v].br, job[v].file)' = Stored(b, f)' /\ Stored(job[v].br, job[v].file) = Stored(b, f)
    BY <2>1, <2>5 DEF Stored
  <2>7. CASE v = w
    <3>1. job[w].kind = "path" => ~Cuts(w)
      BY JobFields
    <3>2. job[w].kind = "path" => Stored(b, f)' >= job[w].end
      BY <2>1, <2>2, <2>4, <2>7, <3>1
    <3> QED  BY <1>1, <2>6, <2>7, <3>2 DEF Fits
  <2>8. CASE v # w /\ job[w].br = b /\ job[w].file = f
    <3>1. job[v].kind # "set" /\ job[w].kind # "set" /\ ~Cuts(w)
      BY <2>1, <2>8, NoneNotFile, JobFields DEF JobsSteady, SetAlone, Attached
    <3>2. job[v].kind = "copy" => job[v].wrote
      <4>1. job[v].kind = "copy" => ~Holds(w)
        BY <2>1, <2>8 DEF Locks, Holds
      <4>2. ~Holds(w) => size[b][f] # None
        BY <2>8, NoneNotFile DEF Locks
      <4> QED  BY <2>1, <2>3, <4>1, <4>2, NoneNotFile DEF Fits, Attached
    <3>3. Stored(b, f)' >= Stored(b, f)
      BY <2>2, <2>4, <2>8, <3>1
    <3>4. job'[v] = job[v] /\ links' = links /\ Stored(b, f)' \in Nat
      BY <1>1, <2>2, <2>4, <2>8
    <3>5. /\ Attached(v) /\ ~job[v].wrote => <<b, f>> \notin links /\ Stored(b, f) >= job[v].old
          /\ job[v].kind = "path" /\ job[v].wrote => Stored(b, f) >= job[v].end
      BY <2>1, <2>3, <2>6 DEF Fits
    <3>6. /\ Attached(v) /\ ~job[v].wrote => <<b, f>> \notin links /\ Stored(b, f)' >= job[v].old
          /\ job[v].kind = "path" /\ job[v].wrote => Stored(b, f)' >= job[v].end
      BY <2>2, <3>3, <3>4, <3>5
    <3> QED  BY <2>1, <2>6, <3>1, <3>2, <3>4, <3>6 DEF Fits, Attached
  <2>9. CASE v # w /\ ~(job[w].br = b /\ job[w].file = f)
    <3>1. size'[b][f] = size[b][f] /\ job'[v] = job[v] /\ links' = links
      BY <1>1, <1>5, <2>9, WritePlaces
    <3> QED  BY <2>1, <2>3, <3>1 DEF Fits, Attached, Stored
  <2> QED  BY <2>7, <2>8, <2>9
<1> QED  BY <1>2, <1>3, <1>4, <1>5 DEF JobsSteady

\* Jobs that move with their files or lose them, and keep their locks.
LEMMA JobsMoved ==
    ASSUME Types, Locks, JobsSteady, \A v \in Writer : Follows(v),
           \A v \in Writer : Holds(v) => Place0(v)' = Place0(v) /\ Linked(v)' = Linked(v),
           \A x, v \in Writer : job'[x].file # None /\ job'[x].br = job'[v].br /\ job'[x].file = job'[v].file
               => job[x].file = job[v].file
    PROVE  JobsSteady'
<1>1. ASSUME NEW v \in Writer
      PROVE  /\ Kept(v) /\ (job'[v].file # None => job[v].file # None)
             /\ Holds(v) \/ job'[v].file # None => Place0(v)' = Place0(v) /\ Linked(v)' = Linked(v)
  BY DEF Follows, Locks
<1>2. SetAlone'
  <2> SUFFICES ASSUME NEW x \in Writer, NEW v \in Writer, x # v, Attached(x)', job'[x].kind = "set",
                      <<job'[x].br, job'[x].file>> = <<job'[v].br, job'[v].file>>
               PROVE  FALSE
    BY DEF SetAlone
  <2>1. job'[x].br = job'[v].br /\ job'[x].file = job'[v].file /\ job'[x].file # None
    BY DEF Attached
  <2>2. job[x].br = job[v].br /\ job[x].file = job[v].file /\ Attached(x) /\ job[x].kind = "set"
    BY <1>1, <2>1 DEF Kept, Attached
  <2> QED  BY <2>2 DEF JobsSteady, SetAlone
<1>3. ASSUME NEW v \in Writer PROVE Fits(v)'
  <2>1. Fits(v) /\ Kept(v)
    BY <1>1 DEF JobsSteady
  <2>2. CASE Holds(v) \/ job'[v].file # None
    <3>1. Place0(v)' = Place0(v) /\ Linked(v)' = Linked(v) /\ (job'[v].file # None => job[v].file # None)
      BY <1>1, <2>2
    <3>2. Stored(job[v].br, job[v].file)' = Stored(job[v].br, job[v].file)
      BY <3>1 DEF Stored, Place0
    <3>3. Attached(v)' => Attached(v)
      BY <3>1 DEF Attached
    <3> QED  BY <2>1, <3>1, <3>2, <3>3 DEF Fits, Kept, Place0, Linked
  <2>3. CASE ~(Holds(v) \/ job'[v].file # None)
    BY <2>1, <2>3 DEF Fits, Kept, Attached, Holds
  <2> QED  BY <2>2, <2>3
<1> QED  BY <1>2, <1>3 DEF JobsSteady

LEMMA JobsRemove ==
    ASSUME Types, Locks, JobsSteady, lapse' # "open",
           \/ \E b \in Branch, f \in File, n \in 1..MaxSize : Symlink(b, f, n)
           \/ \E b \in Branch, f \in File : Delete(b, f)
           \/ \E b \in Branch, f, g \in File : Rename(b, f, g)
           \/ \E b \in Branch : Drop(b)
           \/ CommitUp
    PROVE  JobsSteady'
<1>1. \A v \in Writer : job[v].br \in Branch /\ job[v].file \in File \cup {None}
  BY JobFields
<1>2. \A v \in Writer : Holds(v) => job[v].file \in File
  BY <1>1 DEF Locks
<1>3. CASE \E b \in Branch, f \in File : Delete(b, f)
  <2>1. PICK b \in Branch, f \in File : Delete(b, f)
    BY <1>3
  <2>2. \A v \in Writer : /\ Kept(v)
                          /\ job'[v].file = IF job[v].br = b /\ job[v].file = f THEN None ELSE job[v].file
                          /\ job[v].br = b /\ job[v].file = f => ~Holds(v)
    BY <2>1, DeleteEffect
  <2>3. ASSUME NEW v \in Writer, Holds(v) PROVE Place0(v)' = Place0(v) /\ Linked(v)' = Linked(v)
    <3>1. PICK c \in Branch, g \in File : c = job[v].br /\ g = job[v].file
      BY <1>1, <1>2, <2>3
    <3>2. job'[v].br = c /\ job'[v].file = g /\ ~(c = b /\ g = f)
      BY <2>2, <2>3, <3>1 DEF Kept
    <3>3. size'[c][g] = size[c][g] /\ (<<c, g>> \in links' <=> <<c, g>> \in links)
      BY <2>1, <3>2, DeleteSizes
    <3> QED  BY <3>1, <3>2, <3>3 DEF Place0, Linked
  <2>4. \A x, v \in Writer : job'[x].file # None /\ job'[x].br = job'[v].br /\ job'[x].file = job'[v].file
               => job[x].file = job[v].file
    BY <2>2 DEF Kept
  <2> QED  BY <2>1, <2>3, <2>4, DeleteFollows, JobsMoved
<1>4. CASE \E b \in Branch, f, g \in File : Rename(b, f, g)
  <2>1. PICK b \in Branch, f \in File, g \in File : Rename(b, f, g)
    BY <1>4
  <2>2. \A v \in Writer : /\ Kept(v)
                          /\ job'[v].file = IF job[v].br = b /\ job[v].file = f THEN g
                             ELSE IF job[v].br = b /\ job[v].file = g THEN None ELSE job[v].file
                          /\ job[v].br = b /\ job[v].file \in {f, g} => ~Holds(v)
    BY <2>1, RenameSteady
  <2>3. ASSUME NEW v \in Writer, Holds(v) PROVE Place0(v)' = Place0(v) /\ Linked(v)' = Linked(v)
    <3>1. PICK c \in Branch, h \in File : c = job[v].br /\ h = job[v].file
      BY <1>1, <1>2, <2>3
    <3>2. job'[v].br = c /\ job'[v].file = h /\ ~(c = b /\ h = f) /\ ~(c = b /\ h = g)
      BY <2>2, <2>3, <3>1 DEF Kept
    <3>3. size'[c][h] = size[c][h] /\ (<<c, h>> \in links' <=> <<c, h>> \in links)
      <4>1. /\ size'[c][h] = IF c = b /\ h = f THEN None
                             ELSE IF c = b /\ h = g THEN size[b][f] ELSE size[c][h]
            /\ <<c, h>> \in links' <=> IF c = b /\ h = f THEN FALSE
                                       ELSE IF c = b /\ h = g THEN <<b, f>> \in links ELSE <<c, h>> \in links
        BY <2>1, RenameSizes
      <4> QED  BY <3>2, <4>1
    <3> QED  BY <3>1, <3>2, <3>3 DEF Place0, Linked
  <2>4. \A x, v \in Writer : job'[x].file # None /\ job'[x].br = job'[v].br /\ job'[x].file = job'[v].file
               => job[x].file = job[v].file
    BY <2>2 DEF Kept
  <2> QED  BY <2>1, <2>3, <2>4, RenameFollows, JobsMoved
<1>5. CASE \E b \in Branch : Drop(b)
  <2>1. PICK b \in Branch : Drop(b)
    BY <1>5
  <2>2. \A v \in Writer : /\ Kept(v) /\ ~Holds(v)
                          /\ job'[v].file = IF job[v].br = b THEN None ELSE job[v].file
    BY <2>1, DropEffect DEF Locks
  <2>3. \A x, v \in Writer : job'[x].file # None /\ job'[x].br = job'[v].br /\ job'[x].file = job'[v].file
               => job[x].file = job[v].file
    BY <2>2 DEF Kept
  <2> QED  BY <2>1, <2>2, <2>3, DropFollows, JobsMoved
<1>6. CASE CommitUp
  <2>1. \A v \in Writer :
          /\ Kept(v) /\ ~Holds(v)
          /\ job'[v].file = IF \/ job[v].br = Child
                               \/ job[v].br = Parent /\ job[v].file \in File /\ Taken(job[v].file)
                            THEN None ELSE job[v].file
    BY <1>6, CommitEffect DEF Locks
  <2>2. \A x, v \in Writer : job'[x].file # None /\ job'[x].br = job'[v].br /\ job'[x].file = job'[v].file
               => job[x].file = job[v].file
    BY <2>1 DEF Kept
  <2> QED  BY <1>6, <2>1, <2>2, CommitFollows, JobsMoved
<1>7. CASE \E b \in Branch, f \in File, n \in 1..MaxSize : Symlink(b, f, n)
  <2>1. PICK b \in Branch, f \in File, n \in Nat : Symlink(b, f, n)
    BY <1>7, NoneNotFile
  <2>2. /\ \A c \in Branch, g \in File : size'[c][g] = IF c = b /\ g = f THEN n ELSE size[c][g]
        /\ \A c \in Branch, g \in File : <<c, g>> \in links' <=> (<<c, g>> \in links \/ (c = b /\ g = f))
        /\ job' = job
    BY <2>1, SymlinkSizes
  <2>3. On(b, f) = {}
    BY <2>1 DEF Symlink, Lapses
  <2>4. ASSUME NEW v \in Writer, job[v].file # None
        PROVE  Place0(v)' = Place0(v) /\ Linked(v)' = Linked(v)
    <3>1. PICK c \in Branch, g \in File : c = job[v].br /\ g = job[v].file
      BY <1>1, <2>4
    <3>2. ~(c = b /\ g = f)
      BY <2>3, <3>1 DEF On
    <3>3. size'[c][g] = size[c][g] /\ (<<c, g>> \in links' <=> <<c, g>> \in links)
      BY <2>2, <3>2
    <3> QED  BY <2>2, <3>1, <3>3 DEF Place0, Linked
  <2>5. \A v \in Writer : Follows(v)
    BY <2>2, <2>4 DEF Follows, Kept
  <2>6. \A v \in Writer : Holds(v) => Place0(v)' = Place0(v) /\ Linked(v)' = Linked(v)
    BY <2>4 DEF Locks
  <2> QED  BY <2>2, <2>5, <2>6, JobsMoved
<1> QED  BY <1>3, <1>4, <1>5, <1>6, <1>7
-----------------------------------------------------------------------------
(***************************************************************************)
(* The sums over files and over jobs.                                      *)
(***************************************************************************)
\* The sum of a function is the sum over its domain.
LEMMA FunInt ==
    ASSUME NEW S, IsFiniteSet(S), NEW f \in [S -> Int]
    PROVE  SumFunction(f) \in Int /\ SumFunction(f) = SumFunctionOnSet(f, S)
<1>1. SumFunction(f) = SumFunctionOnSet(f, S)
  BY DEF SumFunction
<1>2. \A x \in S : f[x] \in Int
  OBVIOUS
<1> QED  BY <1>1, <1>2, SumInt

LEMMA FunMonotone ==
    ASSUME NEW S, IsFiniteSet(S), NEW f \in [S -> Int], NEW g \in [S -> Int],
           \A x \in S : f[x] <= g[x]
    PROVE  SumFunction(f) <= SumFunction(g)
<1>1. \A x \in S : f[x] \in Int /\ g[x] \in Int /\ f[x] <= g[x]
  OBVIOUS
<1>2. SumFunctionOnSet(f, S) <= SumFunctionOnSet(g, S)
  BY <1>1, SumMonotone
<1> QED  BY <1>2, FunInt

\* One term changes.
LEMMA FunChange ==
    ASSUME NEW S, IsFiniteSet(S), NEW f \in [S -> Int], NEW g \in [S -> Int], NEW a \in S,
           \A x \in S : x # a => g[x] = f[x]
    PROVE  SumFunction(g) = SumFunction(f) + (g[a] - f[a])
<1> DEFINE R == S \ {a}
<1>1. (\A x \in S : f[x] \in Int) /\ (\A x \in S : g[x] \in Int)
  OBVIOUS
<1>2. /\ SumFunctionOnSet(f, S) = f[a] + SumFunctionOnSet(f, R)
      /\ SumFunctionOnSet(g, S) = g[a] + SumFunctionOnSet(g, R)
  BY <1>1, SumRemove
<1>3. IsFiniteSet(R)
  BY OneLess
<1>4. \A x \in R : f[x] \in Int /\ g[x] = f[x]
  OBVIOUS
<1> HIDE DEF R
<1>5. SumFunctionOnSet(g, R) = SumFunctionOnSet(f, R)
  BY <1>3, <1>4, SumSame
<1>6. SumFunctionOnSet(f, R) \in Int
  BY <1>3, <1>4, SumInt
<1>7. SumFunction(f) = SumFunctionOnSet(f, S) /\ SumFunction(g) = SumFunctionOnSet(g, S)
  BY FunInt
<1>8. f[a] \in Int /\ g[a] \in Int
  OBVIOUS
<1> QED  BY <1>2, <1>5, <1>6, <1>7, <1>8

LEMMA FunPlus ==
    ASSUME NEW S, IsFiniteSet(S), NEW f \in [S -> Int], NEW g \in [S -> Int], NEW h \in [S -> Int],
           \A x \in S : h[x] = f[x] + g[x]
    PROVE  SumFunction(h) = SumFunction(f) + SumFunction(g)
<1>1. \A x \in S : f[x] \in Int /\ g[x] \in Int /\ h[x] = f[x] + g[x]
  OBVIOUS
<1>2. SumFunctionOnSet(h, S) = SumFunctionOnSet(f, S) + SumFunctionOnSet(g, S)
  BY <1>1, SumPlus
<1> QED  BY <1>2, FunInt

LEMMA FunPlusNat ==
    ASSUME NEW S, IsFiniteSet(S), NEW f \in [S -> Int], NEW g \in [S -> Nat], NEW h \in [S -> Int],
           \A x \in S : h[x] = f[x] + g[x]
    PROVE  SumFunction(h) = SumFunction(f) + SumFunction(g)
<1>1. g \in [S -> Int]
  OBVIOUS
<1> QED  BY <1>1, FunPlus

LEMMA FunInject ==
    ASSUME NEW S, NEW X, IsFiniteSet(S), IsFiniteSet(X), NEW f \in [S -> Nat], NEW g \in [X -> Nat],
           NEW loc,
           \A x \in S : f[x] > 0 => loc[x] \in X /\ f[x] <= g[loc[x]],
           \A x, z \in S : f[x] > 0 /\ f[z] > 0 /\ loc[x] = loc[z] => x = z
    PROVE  SumFunction(f) <= SumFunction(g)
<1>1. (\A x \in S : f[x] \in Nat) /\ (\A y \in X : g[y] \in Nat)
  OBVIOUS
<1>2. SumFunctionOnSet(f, S) <= SumFunctionOnSet(g, X)
  BY <1>1, SumInject
<1>3. f \in [S -> Int] /\ g \in [X -> Int]
  OBVIOUS
<1>4. SumFunction(f) = SumFunctionOnSet(f, S) /\ SumFunction(g) = SumFunctionOnSet(g, X)
  BY <1>3, FunInt
<1> QED  BY <1>2, <1>4

LEMMA Finite == IsFiniteSet(Writer) /\ IsFiniteSet(Place) /\ Writer # {}
BY QuotaAssumption, FS_Product DEF Place

\* The terms, of this state and of the next.
MapTypes ==
    Types => /\ StoredMap \in [Place -> 0..MaxSize] /\ HeldMap \in [Place -> 0..MaxSize]
             /\ GrowthMap \in [Writer -> 0..MaxSize] /\ RoomMap \in [Writer -> 0..MaxSize]
             /\ LateMap \in [Writer -> 0..MaxSize] /\ OwedMap \in [Writer -> Int]
             /\ CreditMap \in [Writer -> 0..MaxSize]

LEMMA MapsTyped == MapTypes
<1> SUFFICES ASSUME Types
             PROVE  /\ StoredMap \in [Place -> 0..MaxSize] /\ HeldMap \in [Place -> 0..MaxSize]
                    /\ GrowthMap \in [Writer -> 0..MaxSize] /\ RoomMap \in [Writer -> 0..MaxSize]
                    /\ LateMap \in [Writer -> 0..MaxSize] /\ OwedMap \in [Writer -> Int]
                    /\ CreditMap \in [Writer -> 0..MaxSize]
  BY DEF MapTypes
<1>1. \A x \in Place : x[1] \in Branch /\ x[2] \in File
  BY DEF Place
<1>2. \A b \in Branch, f \in File : Stored(b, f) \in 0..MaxSize /\ Held(b, f) \in 0..MaxSize
  <2> SUFFICES ASSUME NEW b \in Branch, NEW f \in File
               PROVE  Stored(b, f) \in 0..MaxSize /\ Held(b, f) \in 0..MaxSize
    OBVIOUS
  <2>1. Stored(b, f) \in 0..MaxSize
    BY SizeType
  <2>2. CASE Cutters(b, f) = {}
    BY <2>1, <2>2 DEF Held
  <2>3. CASE Cutters(b, f) # {}
    <3>1. PICK c \in Cutters(b, f) : c = CHOOSE w \in Cutters(b, f) : TRUE
      BY <2>3
    <3>2. c \in Writer
      BY DEF Cutters
    <3>3. job[c].end \in 0..MaxSize
      BY <3>2, JobFields
    <3> QED  BY <2>1, <2>3, <3>1, <3>3 DEF Held
  <2> QED  BY <2>2, <2>3
<1>3. \A w \in Writer : /\ Growth(w) \in 0..MaxSize /\ Room(w) \in 0..MaxSize
                        /\ Late(w) \in 0..MaxSize /\ Owed(w) \in Int /\ Credit(w) \in 0..MaxSize
  <2> SUFFICES ASSUME NEW w \in Writer
               PROVE  /\ Growth(w) \in 0..MaxSize /\ Room(w) \in 0..MaxSize
                      /\ Late(w) \in 0..MaxSize /\ Owed(w) \in Int /\ Credit(w) \in 0..MaxSize
    OBVIOUS
  <2>1. job[w].old \in 0..MaxSize /\ job[w].end \in 0..MaxSize /\ MaxSize \in Nat
    BY JobFields, NoneNotFile
  <2> QED  BY <2>1 DEF Growth, Room, Late, Owed, Credit
<1>4. StoredMap \in [Place -> 0..MaxSize] /\ HeldMap \in [Place -> 0..MaxSize]
  BY <1>1, <1>2 DEF StoredMap, HeldMap
<1>5. /\ GrowthMap \in [Writer -> 0..MaxSize] /\ RoomMap \in [Writer -> 0..MaxSize]
      /\ LateMap \in [Writer -> 0..MaxSize] /\ OwedMap \in [Writer -> Int]
      /\ CreditMap \in [Writer -> 0..MaxSize]
  BY <1>3 DEF GrowthMap, RoomMap, LateMap, OwedMap, CreditMap
<1> QED  BY <1>4, <1>5

LEMMA MapsTypedNext == MapTypes'
<1>1. MapTypes
  BY MapsTyped
<1> QED  BY <1>1, PTL

\* Bounded functions are functions into the numbers.
LEMMA Wider ==
    ASSUME NEW S, NEW f \in [S -> 0..MaxSize]
    PROVE  f \in [S -> Nat] /\ f \in [S -> Int]
BY NoneNotFile

\* What a file will hold once it has been cut.
HeldFacts ==
    CutAlone => \A b \in Branch, f \in File :
        /\ (\A v \in Writer : ~Cutter(v, b, f)) => Held(b, f) = Stored(b, f)
        /\ \A c \in Writer : Cutter(c, b, f) => Held(b, f) = job[c].end

LEMMA HeldKnown == HeldFacts
<1> SUFFICES ASSUME CutAlone, NEW b \in Branch, NEW f \in File
             PROVE  /\ (\A v \in Writer : ~Cutter(v, b, f)) => Held(b, f) = Stored(b, f)
                    /\ \A c \in Writer : Cutter(c, b, f) => Held(b, f) = job[c].end
  BY DEF HeldFacts
<1>1. (\A v \in Writer : ~Cutter(v, b, f)) => Held(b, f) = Stored(b, f)
  BY DEF Held, Cutters
<1>2. ASSUME NEW c \in Writer, Cutter(c, b, f) PROVE Held(b, f) = job[c].end
  <2>1. c \in Cutters(b, f)
    BY <1>2 DEF Cutters
  <2>2. PICK d \in Cutters(b, f) : d = CHOOSE w \in Cutters(b, f) : TRUE
    BY <2>1
  <2>3. d \in Writer /\ Cutter(d, b, f)
    BY DEF Cutters
  <2>4. d = c
    BY <1>2, <2>3, NoneNotFile DEF CutAlone, Cutter, Attached
  <2> QED  BY <2>1, <2>2, <2>4 DEF Held
<1> QED  BY <1>1, <1>2

LEMMA HeldKnownNext == HeldFacts'
<1>1. HeldFacts
  BY HeldKnown
<1> QED  BY <1>1, PTL

\* A file with the same truncations under way.
LEMMA HeldMoves ==
    ASSUME CutAlone, CutAlone', NEW b \in Branch, NEW f \in File, NEW c \in Branch, NEW g \in File,
           Stored(c, g)' = Stored(b, f),
           \A v \in Writer : Cutter(v, c, g)' <=> Cutter(v, b, f),
           \A v \in Writer : Cutter(v, b, f) => job'[v].end = job[v].end
    PROVE  Held(c, g)' = Held(b, f)
<1>1. /\ (\A v \in Writer : ~Cutter(v, b, f)) => Held(b, f) = Stored(b, f)
      /\ \A x \in Writer : Cutter(x, b, f) => Held(b, f) = job[x].end
  BY HeldKnown DEF HeldFacts
<1>2. /\ (\A v \in Writer : ~Cutter(v, c, g)') => Held(c, g)' = Stored(c, g)'
      /\ \A x \in Writer : Cutter(x, c, g)' => Held(c, g)' = job'[x].end
  BY HeldKnownNext DEF HeldFacts
<1>3. CASE \A v \in Writer : ~Cutter(v, b, f)
  BY <1>1, <1>2, <1>3
<1>4. CASE \E v \in Writer : Cutter(v, b, f)
  <2>1. PICK v \in Writer : Cutter(v, b, f)
    BY <1>4
  <2>2. Cutter(v, c, g)'
    BY <2>1
  <2> QED  BY <1>1, <1>2, <2>1, <2>2
<1> QED  BY <1>3, <1>4

\* What a step does to the sums.
LEMMA ActualIsSum == Actual = StoredSum /\ Pending = LateSum
BY DEF Actual, Pending, StoredSum, StoredMap, LateSum, LateMap, Late, Place

LEMMA ActualIsSumNext == (Actual = StoredSum /\ Pending = LateSum)'
BY DEF Actual, Pending, StoredSum, StoredMap, LateSum, LateMap, Late, Place

SumTypes == Types => /\ StoredSum \in Nat /\ HeldSum \in Nat /\ GrowthSum \in Nat
                     /\ RoomSum \in Nat /\ LateSum \in Nat /\ OwedSum \in Int /\ CreditSum \in Nat

LEMMA FunNat ==
    ASSUME NEW S, IsFiniteSet(S), NEW f \in [S -> 0..MaxSize]
    PROVE  SumFunction(f) \in Nat
<1>1. f \in [S -> Int] /\ \A x \in S : f[x] \in Nat
  BY Wider
<1>2. SumFunctionOnSet(f, S) \in Nat
  BY <1>1, SumNat
<1>3. SumFunction(f) = SumFunctionOnSet(f, S)
  BY <1>1, FunInt
<1> QED  BY <1>2, <1>3

LEMMA SumsTyped == SumTypes
<1> SUFFICES ASSUME Types
             PROVE  /\ StoredSum \in Nat /\ HeldSum \in Nat /\ GrowthSum \in Nat
                    /\ RoomSum \in Nat /\ LateSum \in Nat /\ OwedSum \in Int /\ CreditSum \in Nat
  BY DEF SumTypes
<1>1. /\ StoredMap \in [Place -> 0..MaxSize] /\ HeldMap \in [Place -> 0..MaxSize]
      /\ GrowthMap \in [Writer -> 0..MaxSize] /\ RoomMap \in [Writer -> 0..MaxSize]
      /\ LateMap \in [Writer -> 0..MaxSize] /\ OwedMap \in [Writer -> Int]
      /\ CreditMap \in [Writer -> 0..MaxSize]
  BY MapsTyped DEF MapTypes
<1>2. StoredSum \in Nat /\ HeldSum \in Nat
  BY <1>1, Finite, FunNat DEF StoredSum, HeldSum
<1>3. GrowthSum \in Nat /\ RoomSum \in Nat /\ LateSum \in Nat /\ CreditSum \in Nat
  BY <1>1, Finite, FunNat DEF GrowthSum, RoomSum, LateSum, CreditSum
<1>4. OwedSum \in Int
  BY <1>1, Finite, FunInt DEF OwedSum
<1> QED  BY <1>2, <1>3, <1>4

LEMMA SumsTypedNext == SumTypes'
<1>1. SumTypes
  BY SumsTyped
<1> QED  BY <1>1, PTL

\* One job changes.
LEMMA JobOne ==
    ASSUME Types, Types', NEW w \in Writer, \A v \in Writer : v # w => job'[v] = job[v]
    PROVE  /\ OwedSum' = OwedSum + (Owed(w)' - Owed(w))
           /\ GrowthSum' = GrowthSum + (Growth(w)' - Growth(w))
           /\ RoomSum' = RoomSum + (Room(w)' - Room(w))
           /\ CreditSum' = CreditSum + (Credit(w)' - Credit(w))
<1>1. OwedSum' = OwedSum + (Owed(w)' - Owed(w))
  <2>1. PICK f \in [Writer -> Int] : f = OwedMap
    BY MapsTyped DEF MapTypes
  <2>2. PICK g \in [Writer -> Int] : g = OwedMap'
    BY MapsTypedNext DEF MapTypes
  <2>3. \A v \in Writer : v # w => g[v] = f[v]
    BY <2>1, <2>2 DEF OwedMap, Owed, Cuts
  <2>4. SumFunction(g) = SumFunction(f) + (g[w] - f[w])
    BY <2>3, Finite, FunChange
  <2>5. g[w] = Owed(w)' /\ f[w] = Owed(w)
    BY <2>1, <2>2 DEF OwedMap
  <2>6. OwedSum = SumFunction(f) /\ OwedSum' = SumFunction(g)
    BY <2>1, <2>2 DEF OwedSum
  <2> QED  BY <2>4, <2>5, <2>6
<1>2. GrowthSum' = GrowthSum + (Growth(w)' - Growth(w))
  <2>1. PICK f \in [Writer -> Int] : f = GrowthMap
    BY MapsTyped, Wider DEF MapTypes
  <2>2. PICK g \in [Writer -> Int] : g = GrowthMap'
    BY MapsTypedNext, Wider DEF MapTypes
  <2>3. \A v \in Writer : v # w => g[v] = f[v]
    BY <2>1, <2>2 DEF GrowthMap, Growth
  <2>4. SumFunction(g) = SumFunction(f) + (g[w] - f[w])
    BY <2>3, Finite, FunChange
  <2>5. g[w] = Growth(w)' /\ f[w] = Growth(w)
    BY <2>1, <2>2 DEF GrowthMap
  <2>6. GrowthSum = SumFunction(f) /\ GrowthSum' = SumFunction(g)
    BY <2>1, <2>2 DEF GrowthSum
  <2> QED  BY <2>4, <2>5, <2>6
<1>3. RoomSum' = RoomSum + (Room(w)' - Room(w))
  <2>1. PICK f \in [Writer -> Int] : f = RoomMap
    BY MapsTyped, Wider DEF MapTypes
  <2>2. PICK g \in [Writer -> Int] : g = RoomMap'
    BY MapsTypedNext, Wider DEF MapTypes
  <2>3. \A v \in Writer : v # w => g[v] = f[v]
    BY <2>1, <2>2 DEF RoomMap, Room, Growth
  <2>4. SumFunction(g) = SumFunction(f) + (g[w] - f[w])
    BY <2>3, Finite, FunChange
  <2>5. g[w] = Room(w)' /\ f[w] = Room(w)
    BY <2>1, <2>2 DEF RoomMap
  <2>6. RoomSum = SumFunction(f) /\ RoomSum' = SumFunction(g)
    BY <2>1, <2>2 DEF RoomSum
  <2> QED  BY <2>4, <2>5, <2>6
<1>4. CreditSum' = CreditSum + (Credit(w)' - Credit(w))
  <2>1. PICK f \in [Writer -> Int] : f = CreditMap
    BY MapsTyped, Wider DEF MapTypes
  <2>2. PICK g \in [Writer -> Int] : g = CreditMap'
    BY MapsTypedNext, Wider DEF MapTypes
  <2>3. \A v \in Writer : v # w => g[v] = f[v]
    BY <2>1, <2>2 DEF CreditMap, Credit, Growth
  <2>4. SumFunction(g) = SumFunction(f) + (g[w] - f[w])
    BY <2>3, Finite, FunChange
  <2>5. g[w] = Credit(w)' /\ f[w] = Credit(w)
    BY <2>1, <2>2 DEF CreditMap
  <2>6. CreditSum = SumFunction(f) /\ CreditSum' = SumFunction(g)
    BY <2>1, <2>2 DEF CreditSum
  <2> QED  BY <2>4, <2>5, <2>6
<1> QED  BY <1>1, <1>2, <1>3, <1>4

\* No number of a job changes.
LEMMA JobsSame ==
    ASSUME Types, \A v \in Writer : Kept(v)
    PROVE  OwedSum' = OwedSum /\ GrowthSum' = GrowthSum /\ RoomSum' = RoomSum /\ CreditSum' = CreditSum
<1>1. OwedMap' = OwedMap
  BY DEF Kept, OwedMap, Owed, Cuts
<1>2. GrowthMap' = GrowthMap /\ RoomMap' = RoomMap
  BY DEF Kept, GrowthMap, RoomMap, Room, Growth
<1>3. CreditMap' = CreditMap
  BY DEF Kept, CreditMap, Credit, Growth
<1> QED  BY <1>1, <1>2, <1>3 DEF OwedSum, GrowthSum, RoomSum, CreditSum

\* One file changes.
LEMMA HeldOne ==
    ASSUME Types, Types', NEW b \in Branch, NEW f \in File,
           \A c \in Branch, g \in File : <<c, g>> # <<b, f>> => Held(c, g)' = Held(c, g)
    PROVE  HeldSum' = HeldSum + (Held(b, f)' - Held(b, f))
<1>1. PICK h \in [Place -> Int] : h = HeldMap
  BY MapsTyped, Wider DEF MapTypes
<1>2. PICK k \in [Place -> Int] : k = HeldMap'
  BY MapsTypedNext, Wider DEF MapTypes
<1>3. <<b, f>> \in Place /\ \A x \in Place : x[1] \in Branch /\ x[2] \in File /\ x = <<x[1], x[2]>>
  BY DEF Place
<1>4. \A x \in Place : x # <<b, f>> => k[x] = h[x]
  BY <1>1, <1>2, <1>3 DEF HeldMap
<1>5. SumFunction(k) = SumFunction(h) + (k[<<b, f>>] - h[<<b, f>>])
  BY <1>3, <1>4, Finite, FunChange
<1>6. k[<<b, f>>] = Held(b, f)' /\ h[<<b, f>>] = Held(b, f)
  BY <1>1, <1>2, <1>3 DEF HeldMap
<1>7. HeldSum = SumFunction(h) /\ HeldSum' = SumFunction(k)
  BY <1>1, <1>2 DEF HeldSum
<1> QED  BY <1>5, <1>6, <1>7

LEMMA StoredOne ==
    ASSUME Types, Types', NEW b \in Branch, NEW f \in File,
           \A c \in Branch, g \in File : <<c, g>> # <<b, f>> => Stored(c, g)' = Stored(c, g)
    PROVE  StoredSum' = StoredSum + (Stored(b, f)' - Stored(b, f))
<1>1. PICK h \in [Place -> Int] : h = StoredMap
  BY MapsTyped, Wider DEF MapTypes
<1>2. PICK k \in [Place -> Int] : k = StoredMap'
  BY MapsTypedNext, Wider DEF MapTypes
<1>3. <<b, f>> \in Place /\ \A x \in Place : x[1] \in Branch /\ x[2] \in File /\ x = <<x[1], x[2]>>
  BY DEF Place
<1>4. \A x \in Place : x # <<b, f>> => k[x] = h[x]
  BY <1>1, <1>2, <1>3 DEF StoredMap
<1>5. SumFunction(k) = SumFunction(h) + (k[<<b, f>>] - h[<<b, f>>])
  BY <1>3, <1>4, Finite, FunChange
<1>6. k[<<b, f>>] = Stored(b, f)' /\ h[<<b, f>>] = Stored(b, f)
  BY <1>1, <1>2, <1>3 DEF StoredMap
<1>7. StoredSum = SumFunction(h) /\ StoredSum' = SumFunction(k)
  BY <1>1, <1>2 DEF StoredSum
<1> QED  BY <1>5, <1>6, <1>7

\* Every file that has bytes has them from another, each from a different one.
LEMMA HeldInject ==
    ASSUME Types, Types', NEW loc,
           \A x \in Place : Held(x[1], x[2])' > 0 =>
               loc[x] \in Place /\ Held(x[1], x[2])' <= Held(loc[x][1], loc[x][2]),
           \A x, z \in Place : Held(x[1], x[2])' > 0 /\ Held(z[1], z[2])' > 0 /\ loc[x] = loc[z] => x = z
    PROVE  HeldSum' <= HeldSum
<1>1. PICK h \in [Place -> Nat] : h = HeldMap
  BY MapsTyped, Wider DEF MapTypes
<1>2. PICK k \in [Place -> Nat] : k = HeldMap'
  BY MapsTypedNext, Wider DEF MapTypes
<1>3. (\A x \in Place : k[x] = Held(x[1], x[2])') /\ (\A x \in Place : h[x] = Held(x[1], x[2]))
  BY <1>1, <1>2 DEF HeldMap
<1>4. \A x \in Place : k[x] > 0 => loc[x] \in Place /\ k[x] <= h[loc[x]]
  BY <1>3
<1>5. \A x, z \in Place : k[x] > 0 /\ k[z] > 0 /\ loc[x] = loc[z] => x = z
  BY <1>3
<1>6. SumFunction(k) <= SumFunction(h)
  BY <1>4, <1>5, Finite, FunInject
<1> QED  BY <1>1, <1>2, <1>6 DEF HeldSum

LEMMA StoredInject ==
    ASSUME Types, Types', NEW loc,
           \A x \in Place : Stored(x[1], x[2])' > 0 =>
               loc[x] \in Place /\ Stored(x[1], x[2])' <= Stored(loc[x][1], loc[x][2]),
           \A x, z \in Place : Stored(x[1], x[2])' > 0 /\ Stored(z[1], z[2])' > 0 /\ loc[x] = loc[z] => x = z
    PROVE  StoredSum' <= StoredSum
<1>1. PICK h \in [Place -> Nat] : h = StoredMap
  BY MapsTyped, Wider DEF MapTypes
<1>2. PICK k \in [Place -> Nat] : k = StoredMap'
  BY MapsTypedNext, Wider DEF MapTypes
<1>3. (\A x \in Place : k[x] = Stored(x[1], x[2])') /\ (\A x \in Place : h[x] = Stored(x[1], x[2]))
  BY <1>1, <1>2 DEF StoredMap
<1>4. \A x \in Place : k[x] > 0 => loc[x] \in Place /\ k[x] <= h[loc[x]]
  BY <1>3
<1>5. \A x, z \in Place : k[x] > 0 /\ k[z] > 0 /\ loc[x] = loc[z] => x = z
  BY <1>3
<1>6. SumFunction(k) <= SumFunction(h)
  BY <1>4, <1>5, Finite, FunInject
<1> QED  BY <1>1, <1>2, <1>6 DEF StoredSum

-----------------------------------------------------------------------------
(***************************************************************************)
(* The counter covers the files.                                           *)
(***************************************************************************)
LEMMA CoverStart ==
    ASSUME NEW w \in Writer, NEW b \in Branch, NEW f \in File, NEW n \in 0..MaxSize,
           Types, Types', JobsSteady, JobsSteady', Covered,
           Begins(w, b, f, n), lapse' # "open"
    PROVE  Covered'
<1>1. /\ job[w] = NoJob /\ used' = used /\ size' = size /\ missed' = missed
      /\ \A v \in Writer : v # w => job'[v] = job[v]
      /\ job'[w].br = b /\ job'[w].file = f /\ job'[w].old = Stored(b, f)
      /\ job'[w].end = n /\ ~job'[w].wrote
  <2>1. job[w] = NoJob /\ used' = used /\ size' = size /\ missed' = missed
    BY StartEffect
  <2>2. \A v \in Writer : v # w => job'[v] = job[v]
    BY StartEffect
  <2>3. job'[w].br = b /\ job'[w].file = f /\ job'[w].old = Stored(b, f)
    BY StartEffect
  <2>4. job'[w].end = n /\ ~job'[w].wrote
    BY StartEffect
  <2> QED  BY <2>1, <2>2, <2>3, <2>4
<1>0. n >= Stored(b, f) \/ On(b, f) = {}
  <2>1. job'[w].kind # "set" => n >= Stored(b, f)
    BY StartEffect
  <2>2. job'[w].kind = "set" => On(b, f) = {}
    BY StartEffect
  <2> QED  BY <2>1, <2>2
<1>2. /\ OwedSum' = OwedSum + (Owed(w)' - Owed(w)) /\ OwedSum \in Int /\ HeldSum \in Int /\ used \in Int
      /\ missed \in Int
      /\ Stored(b, f) \in 0..MaxSize /\ MaxSize \in Nat
  BY <1>1, JobOne, SumsTyped, SizeType, NoneNotFile DEF SumTypes, Types
<1>3. ~Cuts(w) /\ Owed(w) = 0 /\ \A c \in Branch, g \in File : ~Cutter(w, c, g)
  BY <1>1 DEF Cuts, Owed, NoJob, Cutter
<1>4. \A v \in Writer, c \in Branch, g \in File : v # w => (Cutter(v, c, g)' <=> Cutter(v, c, g))
  BY <1>1 DEF Cutter, Cuts
<1>5. \A c \in Branch, g \in File : Stored(c, g)' = Stored(c, g)
  BY <1>1 DEF Stored
<1>6. CutAlone /\ CutAlone'
  BY CutKnown, CutKnownNext DEF CutFacts
<1>7. CASE n >= Stored(b, f)
  <2>1. ~Cuts(w)' /\ Owed(w)' = 0 /\ \A c \in Branch, g \in File : ~Cutter(w, c, g)'
    BY <1>1, <1>2, <1>7 DEF Cuts, Owed, Cutter
  <2>2. ASSUME NEW c \in Branch, NEW g \in File PROVE Held(c, g)' = Held(c, g)
    <3>1. \A v \in Writer : /\ Cutter(v, c, g)' <=> Cutter(v, c, g)
                            /\ Cutter(v, c, g) => job'[v].end = job[v].end
      BY <1>1, <1>3, <1>4, <2>1
    <3> QED  BY <1>5, <1>6, <3>1, HeldMoves
  <2>3. HeldMap' = HeldMap
    BY <2>2 DEF HeldMap, Place
  <2> QED  BY <1>1, <1>2, <1>3, <2>1, <2>3 DEF Covered, HeldSum
<1>8. CASE n < Stored(b, f)
  <2>1. Cutter(w, b, f)' /\ Owed(w)' = n - Stored(b, f)
    BY <1>1, <1>2, <1>8 DEF Cuts, Owed, Cutter
  <2>2. Held(b, f)' = n
    BY <1>1, <1>6, <2>1, HeldKnownNext DEF HeldFacts
  <2>3. Held(b, f) = Stored(b, f)
    <3>1. \A v \in Writer : ~Cutter(v, b, f)
      <4>1. On(b, f) = {}
        BY <1>0, <1>2, <1>8
      <4> QED  BY <4>1 DEF Cutter, On
    <3> QED  BY <1>6, <3>1, HeldKnown DEF HeldFacts
  <2>4. ASSUME NEW c \in Branch, NEW g \in File, <<c, g>> # <<b, f>> PROVE Held(c, g)' = Held(c, g)
    <3>1. ~Cutter(w, c, g)'
      BY <1>1, <2>4 DEF Cutter
    <3>2. \A v \in Writer : /\ Cutter(v, c, g)' <=> Cutter(v, c, g)
                            /\ Cutter(v, c, g) => job'[v].end = job[v].end
      BY <1>1, <1>3, <1>4, <3>1
    <3> QED  BY <1>5, <1>6, <3>2, HeldMoves
  <2>5. HeldSum' = HeldSum + (Held(b, f)' - Held(b, f))
    BY <2>4, HeldOne
  <2> QED  BY <1>1, <1>2, <1>3, <2>1, <2>2, <2>3, <2>5 DEF Covered
<1> QED  BY <1>2, <1>7, <1>8

LEMMA CoverEnd ==
    ASSUME NEW w \in Writer, Types, Types', Locks, JobsSteady, JobsSteady', Covered, Account(w) \/ Fail(w)
    PROVE  Covered'
<1>1. /\ job'[w] = NoJob /\ size' = size /\ missed' = missed
      /\ \A v \in Writer : v # w => job'[v] = job[v]
  BY EndEffect
<1>2. /\ OwedSum' = OwedSum + (Owed(w)' - Owed(w)) /\ OwedSum \in Int /\ HeldSum \in Int /\ used \in Int
      /\ job[w].end \in Int /\ job[w].old \in Int /\ missed \in Int
  BY <1>1, JobOne, SumsTyped, JobFields, NoneNotFile DEF SumTypes, Types
<1>3. ~Cuts(w)' /\ Owed(w)' = 0 /\ \A c \in Branch, g \in File : ~Cutter(w, c, g)'
  BY <1>1 DEF Cuts, Owed, NoJob, Cutter
<1>4. \A v \in Writer, c \in Branch, g \in File : v # w => (Cutter(v, c, g)' <=> Cutter(v, c, g))
  BY <1>1 DEF Cutter, Cuts
<1>5. \A c \in Branch, g \in File : Stored(c, g)' = Stored(c, g)
  BY <1>1 DEF Stored
<1>6. CutAlone /\ CutAlone'
  BY CutKnown, CutKnownNext DEF CutFacts
<1>7. job[w].wrote \/ ~Cuts(w)
  BY JobFields DEF Account, Fail
<1>8. ASSUME NEW c \in Branch, NEW g \in File PROVE Held(c, g)' = Held(c, g)
  <2>1. \A v \in Writer : /\ Cutter(v, c, g)' <=> Cutter(v, c, g)
                          /\ Cutter(v, c, g) => job'[v].end = job[v].end
    BY <1>1, <1>3, <1>4, <1>7 DEF Cutter
  <2> QED  BY <1>5, <1>6, <2>1, HeldMoves
<1>9. HeldSum' = HeldSum
  <2>1. HeldMap' = HeldMap
    BY <1>8 DEF HeldMap, Place
  <2> QED  BY <2>1 DEF HeldSum
<1>10. CASE Account(w)
  <2>1. Owed(w) = job[w].end - job[w].old /\ used' = used + Counted(w)
    BY <1>10 DEF Account, Owed
  <2>2. Counted(w) \in Int /\ Counted(w) >= job[w].end - job[w].old
    <3>1. CASE job[w].kind # "path"
      BY <1>2, <3>1 DEF Counted
    <3>2. CASE job[w].kind = "path"
      <4>1. PICK b \in Branch, f \in File : b = job[w].br /\ f = job[w].file
        BY <3>2, JobFields DEF Locks, Holds
      <4>2. PICK k \in Nat : k = Stored(b, f)
        BY SizeType, NoneNotFile
      <4>3. k >= job[w].end
        BY <1>10, <3>2, <4>1, <4>2 DEF Account, JobsSteady, Fits
      <4>4. Counted(w) = IF k > job[w].old THEN k - job[w].old ELSE 0
        BY <3>2, <4>1, <4>2 DEF Counted
      <4> QED  BY <1>2, <4>3, <4>4
    <3> QED  BY <3>1, <3>2
  <2> HIDE DEF Counted
  <2> QED  BY <1>1, <1>2, <1>3, <1>9, <2>1, <2>2 DEF Covered
<1>11. CASE Fail(w)
  <2>1. Owed(w) = 0 /\ used' = used
    BY <1>7, <1>11 DEF Fail, Owed
  <2> QED  BY <1>1, <1>2, <1>3, <1>9, <2>1 DEF Covered
<1> QED  BY <1>10, <1>11

\* A set_len that fails to extend counts all the same.
LEMMA CoverIgnored ==
    ASSUME NEW w \in Writer, Types, Types', JobsSteady, JobsSteady', Covered, Ignored(w), lapse' # "open"
    PROVE  Covered'
<1>1. /\ used' = used /\ ~job[w].wrote /\ \A v \in Writer : v # w => job'[v] = job[v]
      /\ job'[w].old = job[w].old /\ job'[w].end = job[w].end /\ job'[w].wrote
      /\ size' = size /\ missed' = missed /\ ~Cuts(w)
  BY WriteEffect
<1>2. /\ OwedSum' = OwedSum + (Owed(w)' - Owed(w)) /\ OwedSum \in Int /\ HeldSum \in Int /\ used \in Int
      /\ job[w].end \in Int /\ job[w].old \in Int /\ missed \in Int
  BY <1>1, JobOne, SumsTyped, JobFields, NoneNotFile DEF SumTypes, Types
<1>3. Owed(w)' = job[w].end - job[w].old /\ Owed(w) = 0 /\ job[w].end >= job[w].old
  BY <1>1, <1>2 DEF Owed, Cuts
<1>4. \A v \in Writer, c \in Branch, g \in File : Cutter(v, c, g)' <=> Cutter(v, c, g)
  BY <1>1 DEF Cutter, Cuts
<1>5. \A c \in Branch, g \in File : Stored(c, g)' = Stored(c, g)
  BY <1>1 DEF Stored
<1>6. CutAlone /\ CutAlone'
  BY CutKnown, CutKnownNext DEF CutFacts
<1>7. ASSUME NEW c \in Branch, NEW g \in File PROVE Held(c, g)' = Held(c, g)
  <2>1. \A v \in Writer : /\ Cutter(v, c, g)' <=> Cutter(v, c, g)
                          /\ Cutter(v, c, g) => job'[v].end = job[v].end
    BY <1>1, <1>4
  <2> QED  BY <1>5, <1>6, <2>1, HeldMoves
<1>8. HeldSum' = HeldSum
  <2>1. HeldMap' = HeldMap
    BY <1>7 DEF HeldMap, Place
  <2> QED  BY <2>1 DEF HeldSum
<1> QED  BY <1>1, <1>2, <1>3, <1>8 DEF Covered

LEMMA CoverWrite ==
    ASSUME NEW w \in Writer, Types, Types', JobsSteady, JobsSteady', Covered, Write(w)
    PROVE  Covered'
<1>1. /\ used' = used /\ ~job[w].wrote /\ \A v \in Writer : v # w => job'[v] = job[v]
      /\ job'[w].br = job[w].br /\ job'[w].file = job[w].file
      /\ job'[w].old = job[w].old /\ job'[w].end = job[w].end /\ job'[w].wrote /\ missed' = missed
  BY WriteEffect
<1>2. /\ OwedSum' = OwedSum + (Owed(w)' - Owed(w)) /\ OwedSum \in Int /\ HeldSum \in Int /\ used \in Int
      /\ job[w].end \in Int /\ job[w].old \in Int /\ job[w].br \in Branch /\ job[w].file \in File \cup {None}
      /\ missed \in Int
  BY <1>1, JobOne, SumsTyped, JobFields, NoneNotFile DEF SumTypes, Types
<1>3. Owed(w)' = job[w].end - job[w].old /\ Owed(w) = IF Cuts(w) THEN job[w].end - job[w].old ELSE 0
  BY <1>1 DEF Owed
<1>4. \A v \in Writer, c \in Branch, g \in File : v # w => (Cutter(v, c, g)' <=> Cutter(v, c, g))
  BY <1>1 DEF Cutter, Cuts
<1>5. \A c \in Branch, g \in File : ~Cutter(w, c, g)'
  BY <1>1 DEF Cutter
<1>6. CutAlone /\ CutAlone' /\ GrowthAbove /\ Fits(w)
  BY CutKnown, CutKnownNext DEF CutFacts, JobsSteady
<1>7. ASSUME NEW c \in Branch, NEW g \in File, ~(job[w].br = c /\ job[w].file = g)
      PROVE  Held(c, g)' = Held(c, g)
  <2>1. Stored(c, g)' = Stored(c, g)
    BY <1>6, <1>7, WriteSizes
  <2>2. \A v \in Writer : /\ Cutter(v, c, g)' <=> Cutter(v, c, g)
                          /\ Cutter(v, c, g) => job'[v].end = job[v].end
    BY <1>1, <1>4, <1>5, <1>7 DEF Cutter
  <2> QED  BY <1>6, <2>1, <2>2, HeldMoves
<1>8. CASE job[w].file = None
  <2>1. HeldMap' = HeldMap
    BY <1>7, <1>8, NoneNotFile DEF HeldMap, Place
  <2>2. HeldSum' = HeldSum
    BY <2>1 DEF HeldSum
  <2>3. Owed(w)' >= Owed(w) /\ Owed(w) \in Int /\ Owed(w)' \in Int
    BY <1>2, <1>3 DEF Cuts
  <2> QED  BY <1>1, <1>2, <2>2, <2>3 DEF Covered
<1>9. CASE job[w].file # None
  <2>1. PICK b \in Branch, f \in File : b = job[w].br /\ f = job[w].file
    BY <1>2, <1>9
  <2>2. \A v \in Writer : v # w => ~Cutter(v, b, f)
    BY <1>6, <2>1, NoneNotFile DEF CutAlone, Cutter, Attached
  <2>3. \A v \in Writer : ~Cutter(v, b, f)'
    BY <1>4, <1>5, <2>2
  <2>4. Held(b, f)' = Stored(b, f)'
    BY <1>6, <2>3, HeldKnownNext DEF HeldFacts
  <2>5. Stored(b, f)' = IF Cuts(w) \/ Stored(b, f) <= job[w].end THEN job[w].end ELSE Stored(b, f)
    BY <1>6, <2>1, WriteSizes
  <2>6. HeldSum' = HeldSum + (Held(b, f)' - Held(b, f))
    <3>1. \A c \in Branch, g \in File : <<c, g>> # <<b, f>> => Held(c, g)' = Held(c, g)
      BY <1>7, <2>1
    <3> QED  BY <3>1, HeldOne
  <2>7. CASE Cuts(w)
    <3>1. Cutter(w, b, f)
      BY <1>1, <2>1, <2>7 DEF Cutter
    <3>2. Held(b, f) = job[w].end
      BY <1>6, <3>1, HeldKnown DEF HeldFacts
    <3> QED  BY <1>1, <1>2, <1>3, <2>4, <2>5, <2>6, <2>7, <3>2 DEF Covered
  <2>8. CASE ~Cuts(w)
    <3>1. \A v \in Writer : ~Cutter(v, b, f)
      BY <2>2, <2>8 DEF Cutter
    <3>2. Held(b, f) = Stored(b, f)
      BY <1>6, <3>1, HeldKnown DEF HeldFacts
    <3>3. Stored(b, f) >= job[w].old /\ Stored(b, f) \in 0..MaxSize /\ MaxSize \in Nat
      BY <1>1, <1>6, <1>9, <2>1, <2>8, SizeType, NoneNotFile DEF GrowthAbove, Attached
    <3>4. job[w].end >= job[w].old
      BY <1>2, <2>8 DEF Cuts
    <3>5. PICK s \in Int : s = Stored(b, f)
      BY <3>3
    <3>6. PICK t \in Int : t = Stored(b, f)'
      BY <1>2, <2>5, <3>5
    <3>7. t - s <= job[w].end - job[w].old
      BY <1>2, <2>5, <2>8, <3>3, <3>4, <3>5, <3>6
    <3> QED  BY <1>1, <1>2, <1>3, <2>4, <2>6, <2>8, <3>2, <3>5, <3>6, <3>7 DEF Covered
  <2> QED  BY <2>7, <2>8
<1> QED  BY <1>8, <1>9


LEMMA CoverDelete ==
    ASSUME NEW b \in Branch, NEW f \in File, Types, Types', JobsSteady, JobsSteady', Covered,
           Delete(b, f), ~Cutting(b, f)
    PROVE  Covered'
<1>1. \A v \in Writer : /\ Kept(v)
                        /\ job'[v].file = IF job[v].br = b /\ job[v].file = f THEN None ELSE job[v].file
  BY DeleteEffect
<1>2. OwedSum' = OwedSum /\ OwedSum \in Int /\ HeldSum \in Int /\ used \in Int /\ missed \in Int
  BY <1>1, JobsSame, SumsTyped DEF SumTypes, Types
<1>3. CutAlone /\ CutAlone'
  BY CutKnown, CutKnownNext DEF CutFacts
<1>4. Held(b, f) = Stored(b, f) /\ Held(b, f)' = 0
  <2>1. \A v \in Writer : ~Cutter(v, b, f) /\ ~Cutter(v, b, f)'
    BY <1>1, NoneNotFile DEF Cutting, On, Cutter, Cuts, Kept
  <2>2. Stored(b, f)' = 0
    BY DeleteSizes
  <2>3. Held(b, f) = Stored(b, f)
    BY <1>3, <2>1, HeldKnown DEF HeldFacts
  <2>4. Held(b, f)' = Stored(b, f)'
    BY <1>3, <2>1, HeldKnownNext DEF HeldFacts
  <2> QED  BY <2>2, <2>3, <2>4
<1>5. ASSUME NEW c \in Branch, NEW g \in File, <<c, g>> # <<b, f>> PROVE Held(c, g)' = Held(c, g)
  <2>1. Stored(c, g)' = Stored(c, g)
    BY <1>5, DeleteSizes
  <2>2. \A v \in Writer : /\ Cutter(v, c, g)' <=> Cutter(v, c, g)
                          /\ Cutter(v, c, g) => job'[v].end = job[v].end
    BY <1>1, <1>5, NoneNotFile DEF Cutter, Cuts, Kept
  <2> QED  BY <1>3, <2>1, <2>2, HeldMoves
<1>6. HeldSum' = HeldSum + (Held(b, f)' - Held(b, f))
  BY <1>5, HeldOne
<1>7. used' = used - Stored(b, f) /\ Stored(b, f) \in Int /\ missed' = missed
  BY SizeType, NoneNotFile DEF Delete, Stored, ghosts
<1> QED  BY <1>2, <1>4, <1>6, <1>7 DEF Covered

LEMMA CoverRename ==
    ASSUME NEW b \in Branch, NEW f \in File, NEW g \in File,
           Types, Types', JobsSteady, JobsSteady', Covered, Rename(b, f, g), lapse' # "open"
    PROVE  Covered'
<1>1. \A v \in Writer : /\ Kept(v)
                        /\ job'[v].file = IF job[v].br = b /\ job[v].file = f THEN g
                                          ELSE IF job[v].br = b /\ job[v].file = g THEN None ELSE job[v].file
  BY RenameSteady
<1>2. OwedSum' = OwedSum /\ OwedSum \in Int /\ HeldSum \in Int /\ HeldSum' \in Int /\ used \in Int /\ missed \in Int
  BY <1>1, JobsSame, SumsTyped, SumsTypedNext DEF SumTypes, Types
<1>3. CutAlone /\ CutAlone' /\ f # g
  BY CutKnown, CutKnownNext, RenameStored DEF CutFacts
<1>4. Held(b, f)' = 0
  <2>1. \A v \in Writer : ~Cutter(v, b, f)'
    BY <1>1, <1>3, NoneNotFile DEF Cutter, Kept
  <2>2. Stored(b, f)' = 0
    BY RenameStored
  <2> QED  BY <1>3, <2>1, <2>2, HeldKnownNext DEF HeldFacts
<1>5. Held(b, g)' = Held(b, f)
  <2>1. Stored(b, g)' = Stored(b, f)
    BY <1>3, RenameStored
  <2>2. \A v \in Writer : /\ Cutter(v, b, g)' <=> Cutter(v, b, f)
                          /\ Cutter(v, b, f) => job'[v].end = job[v].end
    BY <1>1, <1>3, NoneNotFile DEF Cutter, Cuts, Kept
  <2> QED  BY <1>3, <2>1, <2>2, HeldMoves
<1>6. ASSUME NEW c \in Branch, NEW h \in File, ~(c = b /\ h \in {f, g}) PROVE Held(c, h)' = Held(c, h)
  <2>1. Stored(c, h)' = Stored(c, h)
    BY <1>6, RenameStored
  <2>2. \A v \in Writer : /\ Cutter(v, c, h)' <=> Cutter(v, c, h)
                          /\ Cutter(v, c, h) => job'[v].end = job[v].end
    BY <1>1, <1>6, NoneNotFile DEF Cutter, Cuts, Kept
  <2> QED  BY <1>3, <2>1, <2>2, HeldMoves
<1>7. HeldSum' <= HeldSum
  <2> DEFINE loc == [x \in Place |-> IF x = <<b, g>> THEN <<b, f>> ELSE x]
  <2>1. /\ <<b, f>> \in Place /\ <<b, g>> \in Place
        /\ \A x \in Place : x[1] \in Branch /\ x[2] \in File /\ x = <<x[1], x[2]>>
    BY DEF Place
  <2>2. ASSUME NEW x \in Place, Held(x[1], x[2])' > 0
        PROVE  /\ loc[x] \in Place /\ Held(x[1], x[2])' = Held(loc[x][1], loc[x][2])
               /\ x # <<b, f>>
    <3>1. x # <<b, f>>
      BY <1>4, <2>2
    <3>2. CASE x = <<b, g>>
      BY <1>5, <2>1, <3>1, <3>2
    <3>3. CASE x # <<b, g>>
      <4>1. ~(x[1] = b /\ x[2] \in {f, g})
        BY <2>1, <3>1, <3>3
      <4> QED  BY <1>6, <2>1, <3>1, <3>3, <4>1
    <3> QED  BY <3>2, <3>3
  <2>3. \A x, z \in Place : x # <<b, f>> /\ z # <<b, f>> /\ loc[x] = loc[z] => x = z
    BY <2>1
  <2>4. PICK l : l = loc
    OBVIOUS
  <2> HIDE DEF loc
  <2>5. \A x \in Place : Held(x[1], x[2])' > 0 =>
            l[x] \in Place /\ Held(x[1], x[2])' <= Held(l[x][1], l[x][2])
    <3>1. \A x \in Place : Held(x[1], x[2])' \in Int
      <4>1. HeldMap' \in [Place -> Int]
        BY MapsTypedNext, Wider DEF MapTypes
      <4> QED  BY <4>1 DEF HeldMap
    <3> QED  BY <2>2, <2>4, <3>1
  <2>6. \A x, z \in Place : Held(x[1], x[2])' > 0 /\ Held(z[1], z[2])' > 0 /\ l[x] = l[z] => x = z
    BY <2>2, <2>3, <2>4
  <2> QED  BY <2>5, <2>6, HeldInject
<1>8. used' = used /\ missed' = missed
  BY DEF Rename, ghosts
<1> QED  BY <1>2, <1>7, <1>8 DEF Covered

LEMMA CoverDrop ==
    ASSUME NEW b \in Branch, Types, Types', JobsSteady, JobsSteady', Covered, Drop(b)
    PROVE  Covered'
<1>1. \A v \in Writer : Kept(v) /\ job'[v].file = IF job[v].br = b THEN None ELSE job[v].file
  BY DropEffect
<1>2. OwedSum' = OwedSum /\ OwedSum \in Int /\ HeldSum \in Int /\ HeldSum' \in Int /\ used \in Int /\ missed \in Int
  BY <1>1, JobsSame, SumsTyped, SumsTypedNext DEF SumTypes, Types
<1>3. CutAlone /\ CutAlone'
  BY CutKnown, CutKnownNext DEF CutFacts
<1>4. ASSUME NEW h \in File PROVE Held(b, h)' = 0
  <2>1. \A v \in Writer : ~Cutter(v, b, h)'
    BY <1>1, NoneNotFile DEF Cutter, Kept
  <2>2. Stored(b, h)' = 0
    BY DropSizes
  <2> QED  BY <1>3, <2>1, <2>2, HeldKnownNext DEF HeldFacts
<1>5. ASSUME NEW c \in Branch, NEW h \in File, c # b PROVE Held(c, h)' = Held(c, h)
  <2>1. Stored(c, h)' = Stored(c, h)
    BY <1>5, DropSizes
  <2>2. \A v \in Writer : /\ Cutter(v, c, h)' <=> Cutter(v, c, h)
                          /\ Cutter(v, c, h) => job'[v].end = job[v].end
    BY <1>1, <1>5, NoneNotFile DEF Cutter, Cuts, Kept
  <2> QED  BY <1>3, <2>1, <2>2, HeldMoves
<1>6. HeldSum' <= HeldSum
  <2>1. PICK h \in [Place -> Nat] : h = HeldMap
    BY MapsTyped, Wider DEF MapTypes
  <2>2. PICK k \in [Place -> Nat] : k = HeldMap'
    BY MapsTypedNext, Wider DEF MapTypes
  <2>3. \A x \in Place : x[1] \in Branch /\ x[2] \in File
    BY DEF Place
  <2>4. \A x \in Place : k[x] = Held(x[1], x[2])' /\ h[x] = Held(x[1], x[2]) /\ h[x] \in Nat
    BY <2>1, <2>2 DEF HeldMap
  <2>5. \A x \in Place : k[x] <= h[x]
    BY <1>4, <1>5, <2>3, <2>4
  <2>6. k \in [Place -> Int] /\ h \in [Place -> Int]
    OBVIOUS
  <2>7. SumFunction(k) <= SumFunction(h)
    BY <2>5, <2>6, Finite, FunMonotone
  <2> QED  BY <2>1, <2>2, <2>7 DEF HeldSum
<1>7. used' = used /\ missed' = missed
  BY DEF Drop, ghosts
<1> QED  BY <1>2, <1>6, <1>7 DEF Covered

LEMMA CoverCommit ==
    ASSUME Types, Types', Locks, JobsSteady, JobsSteady', Covered, CommitUp,
           \A f \in File : ~Cutting(Child, f)
    PROVE  Covered'
<1>0. Child \in Branch /\ Parent \in Branch /\ Child # Parent
  BY QuotaAssumption
<1>1. \A v \in Writer : /\ Kept(v)
                        /\ job'[v].file = IF \/ job[v].br = Child
                                             \/ job[v].br = Parent /\ job[v].file \in File /\ Taken(job[v].file)
                                          THEN None ELSE job[v].file
  BY CommitEffect
<1>2. OwedSum' = OwedSum /\ OwedSum \in Int /\ HeldSum \in Int /\ HeldSum' \in Int /\ used \in Int /\ missed \in Int
  BY <1>1, JobsSame, SumsTyped, SumsTypedNext DEF SumTypes, Types
<1>3. CutAlone /\ CutAlone'
  BY CutKnown, CutKnownNext DEF CutFacts
<1>4. ASSUME NEW h \in File PROVE Held(Child, h)' = 0 /\ Held(Child, h) = Stored(Child, h)
  <2>1. \A v \in Writer : ~Cutter(v, Child, h)' /\ ~Cutter(v, Child, h)
    BY <1>1, NoneNotFile DEF Cutter, Kept, Cutting, On, Cuts
  <2>2. Stored(Child, h)' = 0
    BY <1>0, CommitSizes
  <2>3. Held(Child, h) = Stored(Child, h)
    BY <1>0, <1>3, <2>1, HeldKnown DEF HeldFacts
  <2>4. Held(Child, h)' = Stored(Child, h)'
    BY <1>0, <1>3, <2>1, HeldKnownNext DEF HeldFacts
  <2> QED  BY <2>2, <2>3, <2>4
<1>5. ASSUME NEW h \in File, Taken(h) PROVE Held(Parent, h)' = Held(Child, h)
  <2>1. \A v \in Writer : ~Cutter(v, Parent, h)'
    BY <1>1, <1>5, NoneNotFile DEF Cutter, Kept
  <2>2. Stored(Parent, h)' = Stored(Child, h)
    BY <1>0, <1>5, CommitSizes
  <2>3. Held(Parent, h)' = Stored(Parent, h)'
    BY <1>0, <1>3, <2>1, HeldKnownNext DEF HeldFacts
  <2> QED  BY <1>4, <2>2, <2>3
<1>6. ASSUME NEW c \in Branch, NEW h \in File, c # Child, ~(c = Parent /\ Taken(h))
      PROVE  Held(c, h)' = Held(c, h)
  <2>1. Stored(c, h)' = Stored(c, h)
    BY <1>6, CommitSizes
  <2>2. \A v \in Writer : /\ Cutter(v, c, h)' <=> Cutter(v, c, h)
                          /\ Cutter(v, c, h) => job'[v].end = job[v].end
    BY <1>1, <1>6, NoneNotFile DEF Cutter, Cuts, Kept
  <2> QED  BY <1>3, <2>1, <2>2, HeldMoves
<1>7. HeldSum' <= HeldSum
  <2> DEFINE Copied(x) == x[1] = Parent /\ Taken(x[2])
             loc == [x \in Place |-> IF Copied(x) THEN <<Child, x[2]>> ELSE x]
  <2>1. /\ \A h \in File : <<Child, h>> \in Place
        /\ \A x \in Place : x[1] \in Branch /\ x[2] \in File /\ x = <<x[1], x[2]>>
    BY <1>0 DEF Place
  <2>2. ASSUME NEW x \in Place, Held(x[1], x[2])' > 0
        PROVE  /\ loc[x] \in Place /\ Held(x[1], x[2])' = Held(loc[x][1], loc[x][2])
               /\ x[1] # Child
    <3>1. x[1] # Child
      BY <1>4, <2>1, <2>2
    <3>2. CASE Copied(x)
      BY <1>5, <2>1, <3>1, <3>2
    <3>3. CASE ~Copied(x)
      BY <1>6, <2>1, <3>1, <3>3
    <3> QED  BY <3>2, <3>3
  <2>3. \A x, z \in Place : x[1] # Child /\ z[1] # Child /\ loc[x] = loc[z] => x = z
    <3> SUFFICES ASSUME NEW x \in Place, NEW z \in Place, x[1] # Child, z[1] # Child, loc[x] = loc[z]
                 PROVE  x = z
      OBVIOUS
    <3>1. CASE Copied(x) /\ Copied(z)
      BY <2>1, <3>1
    <3>2. CASE ~(Copied(x) /\ Copied(z))
      BY <2>1, <3>2
    <3> QED  BY <3>1, <3>2
  <2>4. PICK l : l = loc
    OBVIOUS
  <2> HIDE DEF loc
  <2>5. \A x \in Place : Held(x[1], x[2])' > 0 =>
            l[x] \in Place /\ Held(x[1], x[2])' <= Held(l[x][1], l[x][2])
    <3>1. \A x \in Place : Held(x[1], x[2])' \in Int
      <4>1. HeldMap' \in [Place -> Int]
        BY MapsTypedNext, Wider DEF MapTypes
      <4> QED  BY <4>1 DEF HeldMap
    <3> QED  BY <2>2, <2>4, <3>1
  <2>6. \A x, z \in Place : Held(x[1], x[2])' > 0 /\ Held(z[1], z[2])' > 0 /\ l[x] = l[z] => x = z
    BY <2>2, <2>3, <2>4
  <2> QED  BY <2>5, <2>6, HeldInject
<1>8. used' = used /\ missed' = missed
  BY DEF CommitUp, ghosts
<1> QED  BY <1>2, <1>7, <1>8 DEF Covered

\* A link is stored and missed.
LEMMA CoverSymlink ==
    ASSUME NEW b \in Branch, NEW f \in File, NEW n \in Nat, Types, Types', JobsSteady, JobsSteady', Covered,
           Symlink(b, f, n), lapse' # "open"
    PROVE  Covered'
<1>1. /\ \A c \in Branch, g \in File : Stored(c, g)' = IF c = b /\ g = f THEN n ELSE Stored(c, g)
      /\ Stored(b, f) = 0 /\ job' = job /\ used' = used /\ missed' = missed + n
  BY SymlinkSizes
<1>2. OwedSum' = OwedSum /\ OwedSum \in Int /\ HeldSum \in Int /\ used \in Int /\ missed \in Int
  <2>1. \A v \in Writer : Kept(v)
    BY <1>1 DEF Kept
  <2> QED  BY <2>1, JobsSame, SumsTyped DEF SumTypes, Types
<1>3. CutAlone /\ CutAlone'
  BY CutKnown, CutKnownNext DEF CutFacts
<1>4. \A v \in Writer, c \in Branch, g \in File : Cutter(v, c, g)' <=> Cutter(v, c, g)
  BY <1>1 DEF Cutter, Cuts
<1>5. \A v \in Writer : ~Cutter(v, b, f)
  BY DEF Symlink, Lapses, On, Cutter
<1>6. Held(b, f) = 0 /\ Held(b, f)' = n
  <2>1. Held(b, f) = Stored(b, f)
    BY <1>3, <1>5, HeldKnown DEF HeldFacts
  <2>2. Held(b, f)' = Stored(b, f)'
    BY <1>3, <1>4, <1>5, HeldKnownNext DEF HeldFacts
  <2> QED  BY <1>1, <2>1, <2>2
<1>7. ASSUME NEW c \in Branch, NEW g \in File, <<c, g>> # <<b, f>> PROVE Held(c, g)' = Held(c, g)
  <2>1. Stored(c, g)' = Stored(c, g)
    BY <1>1, <1>7
  <2>2. \A v \in Writer : /\ Cutter(v, c, g)' <=> Cutter(v, c, g)
                          /\ Cutter(v, c, g) => job'[v].end = job[v].end
    BY <1>1, <1>4
  <2> QED  BY <1>3, <2>1, <2>2, HeldMoves
<1>8. HeldSum' = HeldSum + (Held(b, f)' - Held(b, f))
  BY <1>7, HeldOne
<1> QED  BY <1>1, <1>2, <1>6, <1>8 DEF Covered


LEMMA FunZero ==
    ASSUME NEW S, IsFiniteSet(S), NEW f \in [S -> Int], \A x \in S : f[x] = 0
    PROVE  SumFunction(f) = 0
<1>1. SumFunction(f) = SumFunction(f) + SumFunction(f)
  <2>1. \A x \in S : f[x] = f[x] + f[x]
    OBVIOUS
  <2> QED  BY <2>1, FunPlus
<1>2. PICK s \in Int : s = SumFunction(f)
  BY FunInt
<1>3. \A t \in Int : t = t + t => t = 0
  OBVIOUS
<1> QED  BY <1>1, <1>2, <1>3

\* No job is under way.
Idle == Types /\ job = [w \in Writer |-> NoJob]

IdleSums == Idle => /\ JobsSteady /\ HeldSum = StoredSum
                    /\ OwedSum = 0 /\ GrowthSum = 0 /\ RoomSum = 0 /\ CreditSum = 0

LEMMA IdleKnown == IdleSums
<1> SUFFICES ASSUME Idle
             PROVE  /\ JobsSteady /\ HeldSum = StoredSum
                    /\ OwedSum = 0 /\ GrowthSum = 0 /\ RoomSum = 0 /\ CreditSum = 0
  BY DEF IdleSums
<1>1. \A v \in Writer : job[v].file = None /\ job[v].old = 0 /\ job[v].end = 0 /\ ~job[v].wrote /\ job[v].kind = "none"
  BY DEF Idle, NoJob
<1>2. JobsSteady /\ CutAlone
  BY <1>1 DEF JobsSteady, SetAlone, CutAlone, Fits, Attached
<1>3. \A b \in Branch, f \in File : Held(b, f) = Stored(b, f)
  <2>1. \A b \in Branch, f \in File, v \in Writer : ~Cutter(v, b, f)
    BY <1>1, NoneNotFile DEF Cutter
  <2> QED  BY <1>2, <2>1, HeldKnown DEF HeldFacts
<1>4. HeldSum = StoredSum
  BY <1>3 DEF HeldSum, StoredSum, HeldMap, StoredMap, Place
<1>5. \A v \in Writer : OwedMap[v] = 0 /\ GrowthMap[v] = 0 /\ RoomMap[v] = 0 /\ CreditMap[v] = 0
  BY <1>1 DEF OwedMap, Owed, Cuts, GrowthMap, Growth, RoomMap, Room, CreditMap, Credit
<1>6. OwedMap \in [Writer -> Int] /\ GrowthMap \in [Writer -> Int] /\ RoomMap \in [Writer -> Int]
      /\ CreditMap \in [Writer -> Int]
  BY MapsTyped, Wider DEF MapTypes, Idle
<1>7. OwedSum = 0 /\ GrowthSum = 0 /\ RoomSum = 0 /\ CreditSum = 0
  BY <1>5, <1>6, Finite, FunZero DEF OwedSum, GrowthSum, RoomSum, CreditSum
<1> QED  BY <1>2, <1>4, <1>7

LEMMA IdleKnownNext == IdleSums'
<1>1. IdleSums
  BY IdleKnown
<1> QED  BY <1>1, PTL

LEMMA RestartEffect ==
    ASSUME Types, Locks, NEW D \in SUBSET links, Restart(D)
    PROVE  /\ Types' /\ Locks' /\ JobsSteady' /\ Covered'
           /\ StoredSum' = StoredSum /\ used' <= StoredSum + Metadata /\ linked' >= linked
           /\ CreditSum' = 0 /\ RoomSum' = 0
<1>1. Bytes(D) \in Nat
  <2>1. PICK f : f = [x \in Place |-> IF x \in D THEN Stored(x[1], x[2]) ELSE 0]
    OBVIOUS
  <2>2. \A x \in Place : x[1] \in Branch /\ x[2] \in File
    BY DEF Place
  <2>3. f \in [Place -> 0..MaxSize]
    BY <2>1, <2>2, SizeType, NoneNotFile
  <2>4. SumFunction(f) \in Nat
    BY <2>3, Finite, FunNat
  <2> QED  BY <2>1, <2>4 DEF Bytes, Place
<1>2. PICK d \in Nat : d = Bytes(D)
  BY <1>1
<1>3. /\ used' = StoredSum - d + Metadata /\ size' = size /\ links' = links
      /\ job' = [w \in Writer |-> NoJob]
      /\ lapse' \in {"none", "open", "healed"}
      /\ missed' = d /\ linked' = linked + d /\ linked + d <= MaxLinked
  BY <1>2, ActualIsSum DEF Restart, Types
<1>4. StoredSum \in Nat /\ Metadata \in Nat /\ MaxLinked \in Nat /\ linked \in Nat
  BY SumsTyped, QuotaAssumption DEF SumTypes, Types
<1>5. missed' \in Nat /\ linked' \in Nat /\ missed' <= linked' /\ linked' <= MaxLinked /\ linked' >= linked
  BY <1>3, <1>4
<1>6. used' \in Int /\ used' <= StoredSum + Metadata /\ used' + missed' = StoredSum + Metadata
  BY <1>3, <1>4
<1>7. Types'
  BY <1>3, <1>5, <1>6, NoJobType DEF Types
<1>8. Idle'
  BY <1>3, <1>7 DEF Idle
<1>9. /\ JobsSteady' /\ HeldSum' = StoredSum'
      /\ OwedSum' = 0 /\ RoomSum' = 0 /\ CreditSum' = 0
  BY <1>8, IdleKnownNext DEF IdleSums
<1>10. StoredSum' = StoredSum
  BY <1>3 DEF StoredSum, StoredMap, Stored
<1>11. Covered'
  <2>1. PICK u \in Int, m \in Int : u = used' /\ m = missed'
    BY <1>5, <1>6
  <2>2. u + m = StoredSum + Metadata /\ u + 0 + m = u + m
    BY <1>6, <2>1
  <2>3. HeldSum' = StoredSum /\ OwedSum' = 0
    BY <1>9, <1>10
  <2>4. StoredSum <= u + 0 + m
    BY <1>4, <2>2
  <2>5. HeldSum' <= used' + OwedSum' + missed'
    BY <2>1, <2>3, <2>4
  <2> QED  BY <2>5 DEF Covered
<1>12. Locks'
  <2>1. \A v \in Writer : ~Holds(v)' /\ job'[v].file = None
    BY <1>3 DEF Holds, NoJob
  <2> QED  BY <1>3, <2>1 DEF Locks
<1> QED  BY <1>5, <1>6, <1>7, <1>9, <1>10, <1>11, <1>12

\* What a file loses to its truncation is what its truncation has yet to
\* subtract, so the counter covers what the files hold now.
LEMMA CoveredNow ==
    ASSUME Types, JobsSteady, Covered
    PROVE  StoredSum <= used + LateSum + missed
<1> DEFINE gap == [x \in Place |-> Stored(x[1], x[2]) - Held(x[1], x[2])]
           due == [w \in Writer |-> Late(w) - Owed(w)]
           loc == [x \in Place |-> CHOOSE w \in Cutters(x[1], x[2]) : TRUE]
<1>0. CutAlone /\ CutExact
  BY CutKnown DEF CutFacts
<1>1. \A w \in Writer : job[w].old \in Int /\ job[w].end \in Int
  BY JobFields, NoneNotFile
<1>2. \A w \in Writer : due[w] = IF Cuts(w) THEN job[w].old - job[w].end ELSE 0
  BY <1>1 DEF Late, Owed, Cuts
<1>3. due \in [Writer -> Nat]
  <2>1. \A w \in Writer : due[w] \in Nat
    BY <1>1, <1>2 DEF Cuts
  <2> QED  BY <2>1
<1>4. \A x \in Place : /\ x[1] \in Branch /\ x[2] \in File /\ x = <<x[1], x[2]>>
                       /\ Stored(x[1], x[2]) \in Int /\ Held(x[1], x[2]) \in Int
  <2>1. \A x \in Place : x[1] \in Branch /\ x[2] \in File /\ x = <<x[1], x[2]>>
    BY DEF Place
  <2>2. StoredMap \in [Place -> Int] /\ HeldMap \in [Place -> Int]
    BY MapsTyped, Wider DEF MapTypes
  <2> QED  BY <2>1, <2>2 DEF StoredMap, HeldMap
<1>5. ASSUME NEW x \in Place
      PROVE  \/ gap[x] = 0
             \/ /\ loc[x] \in Writer /\ Cutter(loc[x], x[1], x[2])
                /\ gap[x] = due[loc[x]]
  <2>1. CASE Cutters(x[1], x[2]) = {}
    <3>1. \A v \in Writer : ~Cutter(v, x[1], x[2])
      BY <2>1 DEF Cutters
    <3>2. Held(x[1], x[2]) = Stored(x[1], x[2])
      BY <1>0, <1>4, <3>1, HeldKnown DEF HeldFacts
    <3> QED  BY <1>4, <3>2
  <2>2. CASE Cutters(x[1], x[2]) # {}
    <3>1. loc[x] \in Cutters(x[1], x[2])
      BY <2>2
    <3>2. PICK c : c = loc[x]
      OBVIOUS
    <3>3. c \in Writer /\ Cutter(c, x[1], x[2])
      BY <3>1, <3>2 DEF Cutters
    <3>4. Held(x[1], x[2]) = job[c].end
      BY <1>0, <1>4, <3>3, HeldKnown DEF HeldFacts
    <3>5. Stored(x[1], x[2]) = job[c].old /\ Cuts(c)
      BY <1>0, <1>4, <3>3, NoneNotFile DEF CutExact, Cutter, Attached
    <3> QED  BY <1>2, <3>2, <3>3, <3>4, <3>5
  <2> QED  BY <2>1, <2>2
<1> HIDE DEF gap, due, loc
<1>6. gap \in [Place -> Nat]
  <2>1. \A x \in Place : gap[x] \in Nat
    BY <1>3, <1>5
  <2> QED  BY <2>1 DEF gap
<1>7. \A x, z \in Place : gap[x] > 0 /\ gap[z] > 0 /\ loc[x] = loc[z] => x = z
  <2> SUFFICES ASSUME NEW x \in Place, NEW z \in Place, gap[x] > 0, gap[z] > 0, loc[x] = loc[z]
               PROVE  x = z
    OBVIOUS
  <2>1. Cutter(loc[x], x[1], x[2]) /\ Cutter(loc[x], z[1], z[2])
    BY <1>5
  <2>2. x[1] = z[1] /\ x[2] = z[2]
    BY <2>1 DEF Cutter
  <2> QED  BY <1>4, <2>2
<1>8. PICK l : l = loc
  OBVIOUS
<1>9. PICK g \in [Place -> Nat] : g = gap
  BY <1>6
<1>10. PICK d \in [Writer -> Nat] : d = due
  BY <1>3
<1>11. \A x \in Place : g[x] > 0 => l[x] \in Writer /\ g[x] <= d[l[x]]
  BY <1>3, <1>5, <1>6, <1>8, <1>9, <1>10
<1>12. \A x, z \in Place : g[x] > 0 /\ g[z] > 0 /\ l[x] = l[z] => x = z
  BY <1>7, <1>8, <1>9
<1>13. SumFunction(g) <= SumFunction(d)
  BY <1>11, <1>12, Finite, FunInject
<1>14. StoredSum = HeldSum + SumFunction(g)
  <2>1. PICK s \in [Place -> Int] : s = StoredMap
    BY MapsTyped, Wider DEF MapTypes
  <2>2. PICK h \in [Place -> Int] : h = HeldMap
    BY MapsTyped, Wider DEF MapTypes
  <2>3. \A x \in Place : s[x] = h[x] + g[x]
    BY <1>4, <1>9, <2>1, <2>2 DEF StoredMap, HeldMap, gap
  <2>4. IsFiniteSet(Place)
    BY Finite
  <2>5. SumFunction(s) = SumFunction(h) + SumFunction(g)
    BY <2>3, <2>4, FunPlusNat
  <2> QED  BY <2>1, <2>2, <2>5 DEF StoredSum, HeldSum
<1>15. LateSum = OwedSum + SumFunction(d)
  <2>1. PICK s \in [Writer -> Int] : s = LateMap
    BY MapsTyped, Wider DEF MapTypes
  <2>2. PICK h \in [Writer -> Int] : h = OwedMap
    BY MapsTyped DEF MapTypes
  <2>3. \A w \in Writer : s[w] = h[w] + d[w]
    <3>1. \A w \in Writer : Late(w) \in Int /\ Owed(w) \in Int
      <4>1. LateMap \in [Writer -> Int] /\ OwedMap \in [Writer -> Int]
        BY <2>1, <2>2
      <4> QED  BY <4>1 DEF LateMap, OwedMap
    <3> QED  BY <1>10, <2>1, <2>2, <3>1 DEF LateMap, OwedMap, due
  <2>4. d \in [Writer -> Int]
    OBVIOUS
  <2>5. SumFunction(s) = SumFunction(h) + SumFunction(d)
    BY <2>3, <2>4, Finite, FunPlus
  <2> QED  BY <2>1, <2>2, <2>5 DEF LateSum, OwedSum
<1>16. SumFunction(g) \in Int /\ SumFunction(d) \in Int
  <2>1. g \in [Place -> Int] /\ d \in [Writer -> Int]
    OBVIOUS
  <2> QED  BY <2>1, Finite, FunInt
<1>17. HeldSum \in Int /\ OwedSum \in Int /\ used \in Int /\ missed \in Int
  BY SumsTyped DEF SumTypes, Types
<1> QED  BY <1>13, <1>14, <1>15, <1>16, <1>17 DEF Covered

-----------------------------------------------------------------------------
(***************************************************************************)
(* The files stay below the limit and one write of every thread but one.   *)
(***************************************************************************)
LEMMA Remainder ==
    ASSUME NEW n \in Nat, NEW x \in Int, 0 <= x, x < n
    PROVE  x % n = x /\ (x + n) % n = x /\ n > 0
OBVIOUS

LEMMA RemainderBelow ==
    ASSUME NEW n \in Nat, NEW x \in Int, 0 <= x + n, x < 0
    PROVE  x % n = x + n
OBVIOUS

\* A write let through fits, as long as the counter does not wrap.
LEMMA CheckFits ==
    ASSUME NEW u \in Int, NEW d \in Nat, NEW n \in Nat, NEW m \in Nat,
           u + d < n, d < n, ((u % n) + d) % n <= m
    PROVE  u + d <= m
<1>1. CASE u + d < 0
  BY <1>1
<1>2. CASE u >= 0
  <2>1. u % n = u
    BY <1>2, Remainder
  <2>2. (u + d) % n = u + d
    BY <1>2, Remainder
  <2> QED  BY <2>1, <2>2
<1>3. CASE u < 0 /\ u + d >= 0
  <2>1. u % n = u + n
    BY <1>3, RemainderBelow
  <2>2. PICK x \in Int : x = u + d
    OBVIOUS
  <2>3. (x + n) % n = x
    BY <1>3, <2>2, Remainder
  <2>4. (u % n) + d = x + n
    BY <2>1, <2>2
  <2> QED  BY <2>2, <2>3, <2>4
<1> QED  BY <1>1, <1>2, <1>3

\* The threads but one write at most MaxSize each.
LEMMA OthersBounded ==
    ASSUME NEW f \in [Writer -> 0..MaxSize], NEW w \in Writer, f[w] = 0
    PROVE  SumFunction(f) <= (Cardinality(Writer) - 1) * MaxSize
<1>1. \A v \in Writer : f[v] \in Int /\ f[v] <= MaxSize
  BY NoneNotFile
<1> DEFINE R == Writer \ {w}
<1>2. IsFiniteSet(R) /\ Cardinality(R) = Cardinality(Writer) - 1
  BY Finite, FS_RemoveElement
<1>3. SumFunctionOnSet(f, Writer) = f[w] + SumFunctionOnSet(f, R)
  BY <1>1, Finite, SumRemove
<1>4. \A v \in R : f[v] \in Int /\ f[v] <= MaxSize
  BY <1>1
<1> HIDE DEF R
<1>5. SumFunctionOnSet(f, R) <= Cardinality(R) * MaxSize
  BY <1>2, <1>4, NoneNotFile, SumBound
<1>6. SumFunctionOnSet(f, R) \in Int
  BY <1>2, <1>4, SumInt
<1>7. SumFunction(f) = SumFunctionOnSet(f, Writer)
  <2>1. f \in [Writer -> Int]
    BY Wider
  <2> QED  BY <2>1, Finite, FunInt
<1>8. PICK k : k = Cardinality(Writer) - 1
  OBVIOUS
<1>9. SumFunctionOnSet(f, R) <= k * MaxSize
  BY <1>2, <1>5, <1>8
<1> QED  BY <1>3, <1>6, <1>7, <1>8, <1>9

LEMMA Limits ==
    /\ MaxBytes \in Nat /\ Metadata \in Nat /\ MaxSize \in Nat /\ MaxLinked \in Nat
    /\ Limit \in Nat /\ 2 ^ Width \in Nat
    /\ Limit = MaxBytes + (Cardinality(Writer) - 1) * MaxSize
    /\ (Cardinality(Writer) - 1) * MaxSize \in Nat
    /\ Limit + MaxSize + MaxSize + MaxLinked + Metadata < 2 ^ Width
<1>1. Cardinality(Writer) \in Nat /\ Cardinality(Writer) # 0
  BY Finite, FS_CardinalityType, FS_EmptySet
<1>2. PICK k \in Nat : k = Cardinality(Writer) - 1
  BY <1>1
<1>3. Cardinality(Writer) = k + 1
  BY <1>1, <1>2
<1>4. MaxBytes \in Nat /\ Metadata \in Nat /\ MaxSize \in Nat /\ MaxLinked \in Nat
  BY QuotaAssumption
<1>5. PICK p \in Nat : p = k * MaxSize
  BY <1>4
<1>6. (Cardinality(Writer) + 1) * MaxSize = p + MaxSize + MaxSize
  BY <1>3, <1>4, <1>5
<1>7. MaxBytes + (p + MaxSize + MaxSize) + MaxLinked + Metadata < 2 ^ Width /\ 2 ^ Width \in Nat
  BY <1>6, WidthAssumption
<1>8. Limit = MaxBytes + p /\ (Cardinality(Writer) - 1) * MaxSize = p
  BY <1>2, <1>5 DEF Limit
<1> QED  BY <1>4, <1>7, <1>8

\* Every byte a write adds is stored already or not.
LEMMA GrowthSplit ==
    ASSUME Types
    PROVE  GrowthSum = RoomSum + LateSum
<1>1. PICK r \in [Writer -> Int] : r = RoomMap
  BY MapsTyped, Wider DEF MapTypes
<1>2. PICK l \in [Writer -> Int] : l = LateMap
  BY MapsTyped, Wider DEF MapTypes
<1>3. PICK g \in [Writer -> Int] : g = GrowthMap
  BY MapsTyped, Wider DEF MapTypes
<1>4. ASSUME NEW w \in Writer PROVE g[w] = r[w] + l[w]
  <2>1. job[w].old \in Int /\ job[w].end \in Int
    BY JobFields, NoneNotFile
  <2>2. Growth(w) = Room(w) + Late(w)
    BY <2>1 DEF Growth, Room, Late
  <2> QED  BY <1>1, <1>2, <1>3, <2>2 DEF GrowthMap, RoomMap, LateMap
<1>5. SumFunction(g) = SumFunction(r) + SumFunction(l)
  BY <1>4, Finite, FunPlus
<1> QED  BY <1>1, <1>2, <1>3, <1>5 DEF GrowthSum, RoomSum, LateSum


LEMMA BelowStart ==
    ASSUME NEW w \in Writer, NEW b \in Branch, NEW f \in File, NEW n \in 0..MaxSize,
           Types, Types', JobsSteady, Covered, Below, Begins(w, b, f, n)
    PROVE  Below'
<1>1. job[w] = NoJob /\ used' = used /\ size' = size /\ linked' = linked
  BY StartEffect
<1>2. \A v \in Writer : v # w => job'[v] = job[v]
  BY StartEffect
<1>3. job'[w].old = Stored(b, f) /\ job'[w].end = n /\ ~job'[w].wrote
  <2>1. job'[w].old = Stored(b, f)
    BY StartEffect
  <2>2. job'[w].end = n /\ ~job'[w].wrote
    BY StartEffect
  <2> QED  BY <2>1, <2>2
<1>4. /\ RoomSum' = RoomSum + (Room(w)' - Room(w))
      /\ CreditSum' = CreditSum + (Credit(w)' - Credit(w))
  BY <1>2, JobOne
<1>5. /\ StoredSum \in Nat /\ GrowthSum \in Nat /\ RoomSum \in Nat /\ LateSum \in Nat /\ CreditSum \in Nat
      /\ used \in Int /\ missed \in Nat /\ linked \in Nat /\ missed <= linked /\ linked <= MaxLinked
      /\ Stored(b, f) \in 0..MaxSize /\ MaxSize \in Nat
  BY SumsTyped, SizeType, NoneNotFile DEF SumTypes, Types
<1>6. StoredSum' = StoredSum
  BY <1>1 DEF StoredSum, StoredMap, Stored
<1>7. Growth(w) = 0 /\ Room(w) = 0 /\ Credit(w) = 0
  BY <1>1 DEF Growth, Room, Credit, NoJob
<1>8. CASE job'[w].kind = "set" /\ n <= Stored(b, f)
  <2>1. Room(w)' = 0 /\ Credit(w)' = 0
    BY <1>3, <1>5, <1>8 DEF Growth, Room, Credit
  <2> QED  BY <1>1, <1>4, <1>5, <1>6, <1>7, <2>1 DEF Below
<1>9. CASE ~(job'[w].kind = "set" /\ n <= Stored(b, f))
  <2>1. Check(n - Stored(b, f)) /\ n >= Stored(b, f)
    <3>1. job'[w].kind # "set" => n >= Stored(b, f)
      BY StartEffect
    <3>2. n > Stored(b, f) => Check(n - Stored(b, f))
      BY StartEffect
    <3>3. job'[w].kind # "set" => Check(n - Stored(b, f))
      BY StartEffect
    <3> QED  BY <1>5, <1>9, <3>1, <3>2, <3>3
  <2>2. PICK d \in Nat : d = n - Stored(b, f) /\ d <= MaxSize
    BY <1>5, <2>1
  <2>3. Room(w)' = d /\ Credit(w)' \in Nat /\ Credit(w)' <= MaxSize
    BY <1>3, <1>5, <2>1, <2>2 DEF Growth, Room, Credit
  <2>4. PICK N \in Nat : N = 2 ^ Width
    BY Limits
  <2>5. ((used % N) + d) % N <= MaxBytes
    BY <2>1, <2>2, <2>4 DEF Check
  <2>6. used + d < N /\ d < N
    <3>1. used + CreditSum <= Limit + MaxSize + Metadata + linked
      BY DEF Below
    <3> QED  BY <1>5, <2>2, <2>4, <3>1, Limits
  <2>7. used + d <= MaxBytes
    BY <1>5, <2>5, <2>6, Limits, CheckFits
  <2>8. PICK p \in Nat : p = (Cardinality(Writer) - 1) * MaxSize
    BY Limits
  <2>9. GrowthSum <= p
    <3>1. GrowthMap \in [Writer -> 0..MaxSize] /\ GrowthMap[w] = 0
      BY <1>7, MapsTyped DEF MapTypes, GrowthMap
    <3> QED  BY <2>8, <3>1, OthersBounded DEF GrowthSum
  <2>10. CreditSum <= p
    <3>1. CreditMap \in [Writer -> 0..MaxSize] /\ CreditMap[w] = 0
      BY <1>7, MapsTyped DEF MapTypes, CreditMap
    <3> QED  BY <2>8, <3>1, OthersBounded DEF CreditSum
  <2>11. GrowthSum = RoomSum + LateSum /\ StoredSum <= used + LateSum + missed
    BY GrowthSplit, CoveredNow
  <2>12. Limit = MaxBytes + p /\ MaxBytes \in Nat /\ Metadata \in Nat
    BY <2>8, Limits
  <2>13. PICK c \in Nat : c = Credit(w)' /\ c <= MaxSize
    BY <2>3
  <2>14. StoredSum + (RoomSum + d) <= Limit + linked
    BY <1>5, <2>7, <2>9, <2>11, <2>12
  <2>15. used + (CreditSum + c) <= Limit + MaxSize + Metadata + linked
    BY <1>5, <2>7, <2>10, <2>12, <2>13
  <2>16. RoomSum' = RoomSum + d /\ CreditSum' = CreditSum + c
    BY <1>4, <1>5, <1>7, <2>3, <2>13
  <2> QED  BY <1>1, <1>6, <2>14, <2>15, <2>16 DEF Below
<1> QED  BY <1>8, <1>9

LEMMA BelowEnd ==
    ASSUME NEW w \in Writer, Types, Types', Locks, Below, Account(w) \/ Fail(w)
    PROVE  Below'
<1>1. job'[w] = NoJob /\ linked' = linked /\ size' = size
  BY EndEffect
<1>2. \A v \in Writer : v # w => job'[v] = job[v]
  BY EndEffect
<1>3. /\ RoomSum' = RoomSum + (Room(w)' - Room(w))
      /\ CreditSum' = CreditSum + (Credit(w)' - Credit(w))
  BY <1>2, JobOne
<1>4. /\ StoredSum \in Nat /\ CreditSum \in Nat /\ RoomSum \in Nat /\ used \in Int /\ linked \in Nat
      /\ job[w].end \in 0..MaxSize /\ job[w].old \in 0..MaxSize /\ MaxSize \in Nat
  BY SumsTyped, JobFields, NoneNotFile DEF SumTypes, Types
<1>5. StoredSum' = StoredSum
  BY <1>1 DEF StoredSum, StoredMap, Stored
<1>6. Room(w)' = 0 /\ Credit(w)' = 0
  BY <1>1 DEF Growth, Room, Credit, NoJob
<1>7. Credit(w) \in Nat /\ Room(w) \in Nat
  BY <1>4 DEF Growth, Room, Credit
<1>8. PICK r \in Nat, c \in Nat : r = Room(w) /\ c = Credit(w)
  BY <1>7
<1>9. PICK d \in Int : used' = used + d /\ d <= c
  <2>1. CASE Fail(w)
    <3>1. used' = used
      BY <2>1 DEF Fail
    <3> QED  BY <1>4, <3>1
  <2>2. CASE Account(w) /\ job[w].kind # "path"
    <3>1. used' = used + (job[w].end - job[w].old)
      BY <2>2 DEF Account, Counted
    <3>2. job[w].end - job[w].old <= c
      BY <1>4, <1>8, <2>2 DEF Credit, Growth
    <3> QED  BY <1>4, <3>1, <3>2
  <2>3. CASE Account(w) /\ job[w].kind = "path"
    <3>1. job[w].br \in Branch /\ job[w].file \in File
      BY <2>3, JobFields DEF Locks, Holds
    <3>2. PICK k \in 0..MaxSize : k = Stored(job[w].br, job[w].file)
      BY <3>1, SizeType
    <3>3. used' = used + (IF k > job[w].old THEN k - job[w].old ELSE 0)
      BY <2>3, <3>2 DEF Account, Counted
    <3>4. c = MaxSize - job[w].old
      BY <1>8, <2>3 DEF Credit
    <3> QED  BY <1>4, <3>2, <3>3, <3>4
  <2> QED  BY <2>1, <2>2, <2>3
<1>10. RoomSum' = RoomSum - r /\ CreditSum' = CreditSum - c
  BY <1>3, <1>4, <1>6, <1>8
<1>11. StoredSum + RoomSum <= Limit + linked /\ used + CreditSum <= Limit + MaxSize + Metadata + linked
  BY DEF Below
<1>12. StoredSum + (RoomSum - r) <= Limit + linked
  BY <1>4, <1>11, Limits
<1>13. (used + d) + (CreditSum - c) <= Limit + MaxSize + Metadata + linked
  BY <1>4, <1>9, <1>11, Limits
<1> QED  BY <1>1, <1>5, <1>9, <1>10, <1>12, <1>13 DEF Below

LEMMA BelowWrite ==
    ASSUME NEW w \in Writer, Types, Types', JobsSteady, Below, Write(w) \/ Ignored(w)
    PROVE  Below'
<1>1. used' = used /\ ~job[w].wrote /\ linked' = linked
  BY WriteEffect
<1>2. \A v \in Writer : v # w => job'[v] = job[v]
  BY WriteEffect
<1>0. /\ job'[w].old = job[w].old /\ job'[w].end = job[w].end
      /\ job'[w].kind = job[w].kind /\ job'[w].wrote
  BY WriteEffect
<1>3. /\ RoomSum' = RoomSum + (Room(w)' - Room(w))
      /\ CreditSum' = CreditSum + (Credit(w)' - Credit(w))
  BY <1>2, JobOne
<1>4. /\ StoredSum \in Nat /\ CreditSum \in Nat /\ RoomSum \in Nat /\ used \in Int /\ linked \in Nat
      /\ job[w].end \in 0..MaxSize /\ job[w].old \in 0..MaxSize /\ MaxSize \in Nat
      /\ job[w].br \in Branch /\ job[w].file \in File \cup {None}
  BY SumsTyped, JobFields, NoneNotFile DEF SumTypes, Types
<1>5. Room(w)' = 0 /\ Room(w) = Growth(w) /\ Growth(w) \in Nat /\ Credit(w)' = Credit(w) /\ Credit(w) \in Nat
  BY <1>0, <1>1, <1>4 DEF Growth, Room, Credit
<1>6. PICK r \in Nat : r = Growth(w)
  BY <1>5
<1>7. PICK t \in Nat : t = StoredSum' /\ t <= StoredSum + r
  <2>0. StoredSum' \in Nat
    BY SumsTypedNext DEF SumTypes
  <2>1. CASE size' = size
    <3>1. StoredSum' = StoredSum
      BY <2>1 DEF StoredSum, StoredMap, Stored
    <3> QED  BY <1>4, <3>1
  <2>2. CASE Write(w) /\ job[w].file = None
    <3>1. size' = size
      BY <2>2 DEF Write, Puts
    <3>2. StoredSum' = StoredSum
      BY <3>1 DEF StoredSum, StoredMap, Stored
    <3> QED  BY <1>4, <3>2
  <2>3. CASE Write(w) /\ job[w].file # None
    <3>1. PICK b \in Branch, f \in File : b = job[w].br /\ f = job[w].file
      BY <1>4, <2>3
    <3>2. Fits(w)
      BY DEF JobsSteady
    <3>3. \A c \in Branch, g \in File :
            Stored(c, g)' = IF b = c /\ f = g /\ (Cuts(w) \/ Stored(c, g) <= job[w].end)
                            THEN job[w].end ELSE Stored(c, g)
      BY <2>3, <3>1, <3>2, WriteSizes
    <3>4. StoredSum' = StoredSum + (Stored(b, f)' - Stored(b, f))
      BY <3>3, StoredOne
    <3>5. PICK k \in Int : k = Stored(b, f)
      BY SizeType, NoneNotFile
    <3>6. PICK l \in Int : l = Stored(b, f)'
      BY <1>4, <3>3, <3>5
    <3>7. IF Cuts(w) THEN k = job[w].old ELSE k >= job[w].old
      BY <1>1, <2>3, <3>1, <3>5, CutKnown DEF CutFacts, CutExact, GrowthAbove, Attached
    <3>8. l = IF Cuts(w) \/ k <= job[w].end THEN job[w].end ELSE k
      BY <3>3, <3>5, <3>6
    <3>9. l - k <= r
      BY <1>4, <1>6, <3>5, <3>6, <3>7, <3>8 DEF Growth, Cuts
    <3> QED  BY <1>4, <2>0, <3>4, <3>5, <3>6, <3>9
  <2>4. Ignored(w) => size' = size
    BY WriteEffect
  <2> QED  BY <2>1, <2>2, <2>3, <2>4
<1>8. RoomSum' = RoomSum - r /\ CreditSum' = CreditSum
  BY <1>3, <1>4, <1>5, <1>6
<1>9. StoredSum + RoomSum <= Limit + linked /\ used + CreditSum <= Limit + MaxSize + Metadata + linked
  BY DEF Below
<1>10. t + (RoomSum - r) <= Limit + linked
  BY <1>4, <1>7, <1>9, Limits
<1> QED  BY <1>1, <1>7, <1>8, <1>9, <1>10 DEF Below

\* What removes and moves files stores no more than there was.
LEMMA StoredRenamed ==
    ASSUME NEW b \in Branch, NEW f \in File, NEW g \in File, Types, Types', Rename(b, f, g)
    PROVE  StoredSum' <= StoredSum
<1> DEFINE loc == [x \in Place |-> IF x = <<b, g>> THEN <<b, f>> ELSE x]
<1>1. /\ <<b, f>> \in Place /\ <<b, g>> \in Place
      /\ \A x \in Place : x[1] \in Branch /\ x[2] \in File /\ x = <<x[1], x[2]>>
  BY DEF Place
<1>2. ASSUME NEW x \in Place, Stored(x[1], x[2])' > 0
      PROVE  /\ loc[x] \in Place /\ Stored(x[1], x[2])' = Stored(loc[x][1], loc[x][2])
             /\ x # <<b, f>>
  <2>1. Stored(x[1], x[2])' = IF x[1] = b /\ x[2] = f THEN 0
                              ELSE IF x[1] = b /\ x[2] = g THEN Stored(b, f) ELSE Stored(x[1], x[2])
    BY <1>1, RenameStored
  <2>2. x # <<b, f>>
    BY <1>2, <2>1
  <2>3. CASE x = <<b, g>>
    BY <1>1, <2>1, <2>2, <2>3
  <2>4. CASE x # <<b, g>>
    <3>1. ~(x[1] = b /\ x[2] \in {f, g})
      BY <1>1, <2>2, <2>4
    <3> QED  BY <1>1, <2>1, <2>2, <2>4, <3>1
  <2> QED  BY <2>3, <2>4
<1>3. \A x, z \in Place : x # <<b, f>> /\ z # <<b, f>> /\ loc[x] = loc[z] => x = z
  BY <1>1
<1>4. PICK l : l = loc
  OBVIOUS
<1> HIDE DEF loc
<1>5. \A x \in Place : Stored(x[1], x[2])' > 0 =>
          l[x] \in Place /\ Stored(x[1], x[2])' <= Stored(l[x][1], l[x][2])
  <2>1. \A x \in Place : Stored(x[1], x[2])' \in Int
    <3>1. StoredMap' \in [Place -> Int]
      BY MapsTypedNext, Wider DEF MapTypes
    <3> QED  BY <3>1 DEF StoredMap
  <2> QED  BY <1>2, <1>4, <2>1
<1>6. \A x, z \in Place : Stored(x[1], x[2])' > 0 /\ Stored(z[1], z[2])' > 0 /\ l[x] = l[z] => x = z
  BY <1>2, <1>3, <1>4
<1> QED  BY <1>5, <1>6, StoredInject

LEMMA StoredCommitted ==
    ASSUME Types, Types', Locks, CommitUp
    PROVE  StoredSum' <= StoredSum
<1> DEFINE Copied(x) == x[1] = Parent /\ Taken(x[2])
           loc == [x \in Place |-> IF Copied(x) THEN <<Child, x[2]>> ELSE x]
<1>1. /\ \A h \in File : <<Child, h>> \in Place
      /\ \A x \in Place : x[1] \in Branch /\ x[2] \in File /\ x = <<x[1], x[2]>>
      /\ Child # Parent
  BY QuotaAssumption DEF Place
<1>2. ASSUME NEW x \in Place, Stored(x[1], x[2])' > 0
      PROVE  /\ loc[x] \in Place /\ Stored(x[1], x[2])' = Stored(loc[x][1], loc[x][2])
             /\ x[1] # Child
  <2>1. Stored(x[1], x[2])' = IF x[1] = Child THEN 0
                              ELSE IF x[1] = Parent /\ Taken(x[2]) THEN Stored(Child, x[2])
                              ELSE Stored(x[1], x[2])
    BY <1>1, CommitSizes
  <2>2. x[1] # Child
    BY <1>2, <2>1
  <2>3. CASE Copied(x)
    BY <1>1, <2>1, <2>2, <2>3
  <2>4. CASE ~Copied(x)
    BY <1>1, <2>1, <2>2, <2>4
  <2> QED  BY <2>3, <2>4
<1>3. \A x, z \in Place : x[1] # Child /\ z[1] # Child /\ loc[x] = loc[z] => x = z
  <2> SUFFICES ASSUME NEW x \in Place, NEW z \in Place, x[1] # Child, z[1] # Child, loc[x] = loc[z]
               PROVE  x = z
    OBVIOUS
  <2>1. CASE Copied(x) /\ Copied(z)
    BY <1>1, <2>1
  <2>2. CASE ~(Copied(x) /\ Copied(z))
    BY <1>1, <2>2
  <2> QED  BY <2>1, <2>2
<1>4. PICK l : l = loc
  OBVIOUS
<1> HIDE DEF loc
<1>5. \A x \in Place : Stored(x[1], x[2])' > 0 =>
          l[x] \in Place /\ Stored(x[1], x[2])' <= Stored(l[x][1], l[x][2])
  <2>1. \A x \in Place : Stored(x[1], x[2])' \in Int
    <3>1. StoredMap' \in [Place -> Int]
      BY MapsTypedNext, Wider DEF MapTypes
    <3> QED  BY <3>1 DEF StoredMap
  <2> QED  BY <1>2, <1>4, <2>1
<1>6. \A x, z \in Place : Stored(x[1], x[2])' > 0 /\ Stored(z[1], z[2])' > 0 /\ l[x] = l[z] => x = z
  BY <1>2, <1>3, <1>4
<1> QED  BY <1>5, <1>6, StoredInject

LEMMA StoredLower ==
    ASSUME Types, Types', \A c \in Branch, g \in File : Stored(c, g)' <= Stored(c, g)
    PROVE  StoredSum' <= StoredSum
<1>1. PICK h \in [Place -> Int] : h = StoredMap
  BY MapsTyped, Wider DEF MapTypes
<1>2. PICK k \in [Place -> Int] : k = StoredMap'
  BY MapsTypedNext, Wider DEF MapTypes
<1>3. \A x \in Place : x[1] \in Branch /\ x[2] \in File
  BY DEF Place
<1>4. \A x \in Place : k[x] <= h[x]
  BY <1>1, <1>2, <1>3 DEF StoredMap
<1>5. SumFunction(k) <= SumFunction(h)
  BY <1>4, Finite, FunMonotone
<1> QED  BY <1>1, <1>2, <1>5 DEF StoredSum

LEMMA BelowRemove ==
    ASSUME Types, Types', Locks, Below,
           \/ \E b \in Branch, f \in File : Delete(b, f)
           \/ \E b \in Branch, f, g \in File : Rename(b, f, g)
           \/ \E b \in Branch : Drop(b)
           \/ CommitUp
    PROVE  Below'
<1>1. \A v \in Writer : Kept(v)
  BY DeleteEffect, RenameEffect, DropEffect, CommitEffect
<1>2. CreditSum' = CreditSum /\ RoomSum' = RoomSum
  BY <1>1, JobsSame
<1>6. linked' = linked
  BY DEF Delete, Rename, Drop, CommitUp, ghosts
<1>3. /\ StoredSum \in Nat /\ StoredSum' \in Nat /\ CreditSum \in Nat /\ RoomSum \in Nat
      /\ used \in Int /\ used' \in Int /\ linked \in Nat
  BY SumsTyped, SumsTypedNext DEF SumTypes, Types
<1>4. used' <= used
  <2>1. CASE \E b \in Branch, f \in File : Delete(b, f)
    <3>1. PICK b \in Branch, f \in File : Delete(b, f)
      BY <2>1
    <3>2. PICK n \in Int : n = size[b][f] /\ n >= 0
      BY <3>1, SizeType, NoneNotFile DEF Delete
    <3>3. used' = used - n
      BY <3>1, <3>2 DEF Delete
    <3> QED  BY <1>3, <3>2, <3>3
  <2>2. CASE ~\E b \in Branch, f \in File : Delete(b, f)
    <3>1. used' = used
      BY <2>2 DEF Rename, Drop, CommitUp
    <3> QED  BY <1>3, <3>1
  <2> QED  BY <2>1, <2>2
<1>5. StoredSum' <= StoredSum
  <2>1. \A c \in Branch, g \in File : Stored(c, g) \in 0..MaxSize
    BY SizeType
  <2>2. CASE \E b \in Branch, f \in File : Delete(b, f)
    <3>1. PICK b \in Branch, f \in File : Delete(b, f)
      BY <2>2
    <3>2. \A c \in Branch, g \in File : Stored(c, g)' = IF c = b /\ g = f THEN 0 ELSE Stored(c, g)
      BY <3>1, DeleteSizes
    <3>3. \A c \in Branch, g \in File : Stored(c, g)' <= Stored(c, g)
      BY <2>1, <3>2, NoneNotFile
    <3> QED  BY <3>3, StoredLower
  <2>3. CASE \E b \in Branch : Drop(b)
    <3>1. PICK b \in Branch : Drop(b)
      BY <2>3
    <3>2. \A c \in Branch, g \in File : Stored(c, g)' = IF c = b THEN 0 ELSE Stored(c, g)
      BY <3>1, DropSizes
    <3>3. \A c \in Branch, g \in File : Stored(c, g)' <= Stored(c, g)
      BY <2>1, <3>2, NoneNotFile
    <3> QED  BY <3>3, StoredLower
  <2>4. CASE \E b \in Branch, f, g \in File : Rename(b, f, g)
    BY <2>4, StoredRenamed
  <2>5. CASE CommitUp
    BY <2>5, StoredCommitted
  <2> QED  BY <2>2, <2>3, <2>4, <2>5
<1> QED  BY <1>2, <1>3, <1>4, <1>5, <1>6, Limits DEF Below

\* A new link is as much above the limit as the counter misses.
LEMMA BelowSymlink ==
    ASSUME NEW b \in Branch, NEW f \in File, NEW n \in Nat, Types, Types', Below, Symlink(b, f, n)
    PROVE  Below'
<1>1. \A c \in Branch, g \in File : Stored(c, g)' = IF c = b /\ g = f THEN n ELSE Stored(c, g)
  BY SymlinkSizes
<1>2. Stored(b, f) = 0 /\ job' = job /\ used' = used /\ linked' = linked + n
  BY SymlinkSizes
<1>3. StoredSum' = StoredSum + (Stored(b, f)' - Stored(b, f))
  BY <1>1, StoredOne
<1>4. RoomSum' = RoomSum /\ CreditSum' = CreditSum
  BY <1>2 DEF RoomSum, RoomMap, Room, CreditSum, CreditMap, Credit, Growth
<1>5. /\ StoredSum \in Nat /\ CreditSum \in Nat /\ RoomSum \in Nat /\ used \in Int /\ linked \in Nat
  BY SumsTyped DEF SumTypes, Types
<1>6. StoredSum' = StoredSum + n
  BY <1>1, <1>2, <1>3, <1>5
<1> QED  BY <1>2, <1>4, <1>5, <1>6, Limits DEF Below

-----------------------------------------------------------------------------
(***************************************************************************)
(* The theorems.                                                           *)
(***************************************************************************)
LEMMA QuotaInit ==
    ASSUME Init
    PROVE  QuotaInv
<1>1. None \in None..MaxSize
  BY NoneNotFile
<1>2. /\ used = 0 /\ links = {} /\ missed = 0 /\ linked = 0 /\ lapse = "none"
      /\ job = [w \in Writer |-> NoJob]
      /\ size = [b \in Branch |-> [f \in File |-> None]]
  BY DEF Init
<1>3. Types
  BY <1>1, <1>2, NoJobType, NoneNotFile DEF Types
<1>4. Idle
  BY <1>2, <1>3 DEF Idle
<1>5. JobsSteady /\ HeldSum = StoredSum /\ OwedSum = 0 /\ CreditSum = 0 /\ RoomSum = 0
  BY <1>4, IdleKnown DEF IdleSums
<1>6. StoredSum = 0
  <2>1. StoredMap \in [Place -> Int]
    BY <1>3, MapsTyped, Wider DEF MapTypes
  <2>2. \A x \in Place : StoredMap[x] = 0
    BY <1>2 DEF StoredMap, Stored, Place
  <2> QED  BY <2>1, <2>2, Finite, FunZero DEF StoredSum
<1>7. Covered /\ Below
  BY <1>2, <1>5, <1>6, Limits DEF Covered, Below
<1>8. Locks
  <2>1. \A v \in Writer : ~Holds(v) /\ job[v].file = None
    BY <1>2 DEF Holds, NoJob
  <2> QED  BY <1>2, <2>1 DEF Locks
<1> QED  BY <1>3, <1>5, <1>7, <1>8 DEF QuotaInv, Steady, JobsSteady, Limited

\* A step after which no lapse is open, unless it is a restart, starts with
\* none open.
LEMMA QuotaStep ==
    ASSUME QuotaInv, Next
    PROVE  QuotaInv'
<1>1. Types /\ Locks /\ (lapse # "open" => JobsSteady /\ Covered) /\ (lapse = "none" => Below)
  BY DEF QuotaInv, Steady, JobsSteady, Limited
<1> SUFFICES /\ Types' /\ Locks' /\ (lapse' # "open" => JobsSteady' /\ Covered')
             /\ (lapse' = "none" => Below')
  BY DEF QuotaInv, Steady, JobsSteady, Limited
<1>2. CASE \E w \in Writer, b \in Branch, f \in File, n \in 0..MaxSize : Begins(w, b, f, n)
  <2>1. PICK w \in Writer, b \in Branch, f \in File, n \in 0..MaxSize : Begins(w, b, f, n)
    BY <1>2
  <2>2. Types' /\ Locks'
    BY <1>1, <2>1, TypesStart, LocksStart
  <2>3. ASSUME lapse' # "open"
        PROVE  JobsSteady' /\ Covered' /\ (lapse' = "none" => Below')
    <3>1. lapse' = lapse
      BY <1>1, <2>1, <2>3, StartEffect
    <3>2. JobsSteady /\ Covered
      BY <1>1, <2>3, <3>1
    <3>3. JobsSteady'
      BY <1>1, <2>1, <2>3, <3>2, JobsStart
    <3>4. Covered'
      BY <1>1, <2>1, <2>2, <2>3, <3>2, <3>3, CoverStart
    <3>5. lapse' = "none" => Below'
      BY <1>1, <2>1, <2>2, <3>1, <3>2, BelowStart
    <3> QED  BY <3>3, <3>4, <3>5
  <2> QED  BY <2>2, <2>3
<1>3. CASE \E w \in Writer : Write(w) \/ Ignored(w) \/ Account(w) \/ Fail(w) \/ Stale(w)
  <2>1. PICK w \in Writer : Write(w) \/ Ignored(w) \/ Account(w) \/ Fail(w) \/ Stale(w)
    BY <1>3
  <2>2. Types' /\ Locks'
    BY <1>1, <2>1, TypesJob, LocksJob
  <2>3. CASE Write(w) \/ Ignored(w)
    <3> SUFFICES ASSUME lapse' # "open"
                 PROVE  JobsSteady' /\ Covered' /\ (lapse' = "none" => Below')
      BY <2>2
    <3>1. lapse' = lapse
      BY <1>1, <2>3, WriteEffect
    <3>2. JobsSteady /\ Covered
      BY <1>1, <3>1
    <3>3. JobsSteady'
      BY <1>1, <2>3, <3>2, JobsWrite
    <3>4. Covered'
      BY <1>1, <2>2, <2>3, <3>2, <3>3, CoverWrite, CoverIgnored
    <3>5. lapse' = "none" => Below'
      BY <1>1, <2>2, <2>3, <3>1, <3>2, BelowWrite
    <3> QED  BY <3>3, <3>4, <3>5
  <2>4. CASE Account(w) \/ Fail(w)
    <3>1. lapse' = lapse
      BY <2>4 DEF Account, Fail
    <3>2. lapse' # "open" => JobsSteady'
      BY <1>1, <2>4, <3>1, JobsEnd
    <3>3. lapse' # "open" => Covered'
      BY <1>1, <2>2, <2>4, <3>1, <3>2, CoverEnd
    <3>4. lapse' = "none" => Below'
      BY <1>1, <2>2, <2>4, <3>1, BelowEnd
    <3> QED  BY <2>2, <3>2, <3>3, <3>4
  <2>5. CASE Stale(w)
    <3>1. lapse' = "open"
      BY <2>5 DEF Stale, Lapses
    <3> QED  BY <2>2, <3>1
  <2> QED  BY <2>1, <2>3, <2>4, <2>5
<1>4. CASE \E w \in Writer, n \in 0..MaxSize : FailPart(w, n)
  <2>1. Types' /\ Locks'
    BY <1>1, <1>4, TypesJob, LocksJob
  <2>2. lapse' = "open"
    BY <1>4 DEF FailPart, Lapses
  <2> QED  BY <2>1, <2>2
<1>5. CASE \E b \in Branch, f \in File, n \in 1..MaxSize : Symlink(b, f, n)
  <2>1. Types' /\ Locks'
    BY <1>1, <1>5, TypesRemove, LocksRemove
  <2>2. PICK b \in Branch, f \in File, n \in Nat : Symlink(b, f, n)
    BY <1>5, NoneNotFile
  <2>3. ASSUME lapse' # "open" PROVE JobsSteady' /\ Covered' /\ (lapse' = "none" => Below')
    <3>1. lapse' = lapse
      BY <2>2, <2>3 DEF Symlink, Lapses
    <3>2. JobsSteady /\ Covered
      BY <1>1, <2>3, <3>1
    <3>3. JobsSteady'
      BY <1>1, <1>5, <2>3, <3>2, JobsRemove
    <3>4. Covered'
      BY <1>1, <2>1, <2>2, <2>3, <3>2, <3>3, CoverSymlink
    <3>5. lapse' = "none" => Below'
      BY <1>1, <2>1, <2>2, <3>1, BelowSymlink
    <3> QED  BY <3>3, <3>4, <3>5
  <2> QED  BY <2>1, <2>3
<1>6. CASE \/ \E b \in Branch, f \in File : Delete(b, f)
           \/ \E b \in Branch, f, g \in File : Rename(b, f, g)
           \/ \E b \in Branch : Drop(b)
           \/ CommitUp
  <2>1. Types' /\ Locks'
    BY <1>1, <1>6, TypesRemove, LocksRemove
  <2>2. ASSUME lapse' # "open" PROVE JobsSteady' /\ Covered' /\ (lapse' = "none" => Below')
    <3>1. lapse' = lapse
      BY <1>6, <2>2 DEF Delete, Rename, Drop, CommitUp, Lapses
    <3>2. JobsSteady' /\ JobsSteady /\ Covered
      BY <1>1, <1>6, <2>2, <3>1, JobsRemove
    <3>3. Covered'
      <4>1. CASE \E b \in Branch, f \in File : Delete(b, f)
        <5>1. PICK b \in Branch, f \in File : Delete(b, f)
          BY <4>1
        <5>2. ~Cutting(b, f)
          BY <2>2, <5>1 DEF Delete, Lapses
        <5> QED  BY <1>1, <2>1, <3>2, <5>1, <5>2, CoverDelete
      <4>2. CASE \E b \in Branch, f, g \in File : Rename(b, f, g)
        BY <1>1, <2>1, <2>2, <3>2, <4>2, CoverRename
      <4>3. CASE \E b \in Branch : Drop(b)
        BY <1>1, <2>1, <3>2, <4>3, CoverDrop
      <4>4. CASE CommitUp
        <5>1. \A f \in File : ~Cutting(Child, f)
          BY <2>2, <4>4 DEF CommitUp, Lapses
        <5> QED  BY <1>1, <2>1, <3>2, <4>4, <5>1, CoverCommit
      <4> QED  BY <1>6, <4>1, <4>2, <4>3, <4>4
    <3>4. lapse' = "none" => Below'
      BY <1>1, <1>6, <2>1, <3>1, BelowRemove
    <3> QED  BY <3>2, <3>3, <3>4
  <2> QED  BY <2>1, <2>2
<1>7. CASE \E D \in SUBSET links : Restart(D)
  <2>0. PICK D \in SUBSET links : Restart(D)
    BY <1>7
  <2>1. Types' /\ Locks' /\ JobsSteady' /\ Covered'
    BY <1>1, <2>0, RestartEffect
  <2>2. /\ StoredSum' = StoredSum /\ used' <= StoredSum + Metadata /\ linked' >= linked
        /\ CreditSum' = 0 /\ RoomSum' = 0
    BY <1>1, <2>0, RestartEffect
  <2>3. StoredSum \in Nat /\ RoomSum \in Nat /\ linked \in Nat /\ linked' \in Nat /\ used' \in Int
    BY <1>1, <2>1, SumsTyped DEF SumTypes, Types
  <2>4. lapse' = "none" => lapse = "none"
    BY <2>0 DEF Restart
  <2>5. PICK u \in Int, l \in Nat : u = used' /\ l = linked'
    BY <2>3
  <2>6. ASSUME StoredSum + RoomSum <= Limit + linked
        PROVE  StoredSum + 0 <= Limit + l /\ u + 0 <= Limit + MaxSize + Metadata + l
    BY <2>2, <2>3, <2>5, <2>6, Limits
  <2>7. Below => Below'
    BY <2>2, <2>5, <2>6 DEF Below
  <2> QED  BY <1>1, <2>1, <2>4, <2>7
<1> QED  BY <1>2, <1>3, <1>4, <1>5, <1>6, <1>7 DEF Next, Begins

LEMMA QuotaStutter ==
    ASSUME QuotaInv, UNCHANGED vars
    PROVE  QuotaInv'
<1>1. /\ used' = used /\ size' = size /\ links' = links /\ job' = job
      /\ missed' = missed /\ linked' = linked /\ lapse' = lapse
  BY DEF vars
<1>2. Types' /\ Locks'
  BY <1>1 DEF QuotaInv, Types, Locks, Holds
<1>3. Steady'
  <2>1. Covered' = Covered
    BY <1>1 DEF Covered, HeldSum, OwedSum, HeldMap, OwedMap, Held, Cutters, Cutter, Cuts, Owed, Stored
  <2>2. SetAlone' = SetAlone
    BY <1>1 DEF SetAlone, Attached
  <2>3. \A w \in Writer : Fits(w)' = Fits(w)
    BY <1>1 DEF Fits, Attached, Stored
  <2> QED  BY <1>1, <2>1, <2>2, <2>3 DEF QuotaInv, Steady
<1>4. Limited'
  BY <1>1 DEF QuotaInv, Limited, Below, StoredSum, RoomSum, CreditSum, StoredMap, RoomMap, CreditMap,
              Stored, Room, Credit, Growth
<1> QED  BY <1>2, <1>3, <1>4 DEF QuotaInv

LEMMA QuotaInvariant == Spec => []QuotaInv
<1>1. Init => QuotaInv
  BY QuotaInit
<1>2. QuotaInv /\ [Next]_vars => QuotaInv'
  BY QuotaStep, QuotaStutter
<1> QED  BY <1>1, <1>2, PTL DEF Spec

\* Whatever the threads do and in whatever order, the sizes and the jobs keep
\* their types and no two holders of the path lock (a copy-up, a write by path)
\* work on the same file, in any number of threads, branches and files.
THEOREM QuotaTypes == Spec => []TypeOK
<1>1. QuotaInv => TypeOK
  <2> SUFFICES ASSUME QuotaInv PROVE TypeOK
    OBVIOUS
  <2>1. Types /\ Locks
    BY DEF QuotaInv
  <2>2. \A b \in Branch, f \in File : size[b][f] \in None..MaxSize
    BY <2>1 DEF Types
  <2>3. \A w \in Writer : {job[w].old, job[w].end} \subseteq 0..MaxSize
    BY <2>1, JobFields
  <2>4. links \subseteq Branch \X File
    BY <2>1 DEF Types, Place
  <2>5. missed \in 0..MaxLinked /\ linked \in 0..MaxLinked
    BY <2>1, NoneNotFile DEF Types
  <2>6. used \in Int /\ lapse \in {"none", "open", "healed"}
    BY <2>1 DEF Types
  <2> QED  BY <2>1, <2>2, <2>3, <2>4, <2>5, <2>6 DEF TypeOK, Locks
<1> QED  BY <1>1, QuotaInvariant, PTL

\* StorageQuota::add and sub, called before, after and beside the writes they
\* count, keep used_bytes at or above the bytes of the deltas but for what is
\* written and not yet added and for the links that the symlink handler does
\* not count or a scan follows, unless a setattr of the size met another
\* operation on its file or failed, a rename or a link met a holder of the path
\* lock, a copy-up failed half way or a write ended with ESTALE.
THEOREM CounterCovers == Spec => []NeverUnderstates
<1>1. QuotaInv => NeverUnderstates
  <2> SUFFICES ASSUME QuotaInv, lapse # "open" PROVE Actual <= used + Pending + missed
    BY DEF NeverUnderstates
  <2>1. Types /\ JobsSteady /\ Covered
    BY DEF QuotaInv, Steady, JobsSteady
  <2>2. StoredSum <= used + LateSum + missed
    BY <2>1, CoveredNow
  <2> QED  BY <2>2, ActualIsSum
<1> QED  BY <1>1, QuotaInvariant, PTL

\* StorageQuota::check reads the counter that other threads have yet to
\* advance: the deltas pass max_bytes by at most one write of every thread but
\* one and the bytes of the links missed so far, and the cast and the wrapping
\* sum of the check never let more through.
THEOREM OvershootLimit == Spec => []OvershootBounded
<1>1. QuotaInv => OvershootBounded
  <2> SUFFICES ASSUME QuotaInv, lapse = "none"
               PROVE  Actual <= MaxBytes + (Cardinality(Writer) - 1) * MaxSize + linked
    BY DEF OvershootBounded
  <2>1. Types /\ Below
    BY DEF QuotaInv, Limited
  <2>2. StoredSum \in Nat /\ RoomSum \in Nat /\ Limit \in Nat /\ linked \in Nat
    BY <2>1, SumsTyped, Limits DEF SumTypes, Types
  <2>3. StoredSum <= Limit + linked
    BY <2>1, <2>2 DEF Below
  <2> QED  BY <2>3, ActualIsSum, Limits
<1> QED  BY <1>1, QuotaInvariant, PTL

=============================================================================
