-------------------------- MODULE TextMerge_proofs --------------------------
(***************************************************************************)
(* Facts about the text merge that hold for texts of every length.         *)
(***************************************************************************)
EXTENDS TextMerge, FiniteSetTheorems, SequenceTheorems, WellFoundedInduction, TLAPS

\* Every non-empty set of natural numbers has a least element.
LEMMA LeastNumber ==
    ASSUME NEW T \in SUBSET Nat, T # {}
    PROVE  \E x \in T : \A y \in T : x <= y
<1> DEFINE R == OpToRel(<, Nat)
<1>1. IsWellFoundedOn(R, Nat)
  BY NatLessThanWellFounded
<1>2. \A x, y \in Nat : <<x, y>> \in R <=> x < y
  BY DEF OpToRel
<1> HIDE DEF R
<1>3. PICK x \in T : \A y \in T : ~(<<y, x>> \in R)
  BY <1>1, WFMin
<1>4. \A y \in T : x <= y
  <2> TAKE y \in T
  <2>1. x \in Nat /\ y \in Nat
    OBVIOUS
  <2>2. ~(y < x)
    BY <1>2, <1>3, <2>1
  <2> QED  BY <2>1, <2>2
<1> QED  BY <1>4

\* The shorter of two lengths is a natural number.
LEMMA ShorterType ==
    ASSUME NEW L, NEW s \in Seq(L), NEW t \in Seq(L)
    PROVE  /\ Shorter(s, t) \in Nat
           /\ Shorter(s, t) <= Len(s)
           /\ Shorter(s, t) <= Len(t)
BY DEF Shorter

\* A set of numbers of 1..n has at most n elements.
LEMMA AtMost ==
    ASSUME NEW n \in Nat, NEW S \in SUBSET (1..n)
    PROVE  Cardinality(S) \in 0..n
<1>1. IsFiniteSet(1..n) /\ Cardinality(1..n) = n
  <2>1. IF 1 > n THEN Cardinality(1..n) = 0 ELSE Cardinality(1..n) = n - 1 + 1
    BY FS_Interval
  <2> QED  BY <2>1, FS_Interval
<1>2. IsFiniteSet(S) /\ Cardinality(S) <= Cardinality(1..n)
  BY <1>1, FS_Subset
<1>3. Cardinality(S) \in Nat
  BY <1>2, FS_CardinalityType
<1> QED  BY <1>1, <1>2, <1>3

\* The prefix fits in both texts.
LEMMA CommonPrefixType ==
    ASSUME NEW L, NEW base \in Seq(L), NEW changed \in Seq(L)
    PROVE  CommonPrefix(base, changed) \in 0..Shorter(base, changed)
<1>1. Shorter(base, changed) \in Nat
  BY ShorterType
<1> QED  BY <1>1, AtMost DEF CommonPrefix

\* The suffix fits in what the prefix leaves of both texts.
LEMMA CommonSuffixType ==
    ASSUME NEW L, NEW base \in Seq(L), NEW changed \in Seq(L),
           NEW prefix \in 0..Shorter(base, changed)
    PROVE  CommonSuffix(base, changed, prefix) \in 0..(Shorter(base, changed) - prefix)
<1>1. Shorter(base, changed) - prefix \in Nat
  BY ShorterType
<1> QED  BY <1>1, AtMost DEF CommonSuffix

(***************************************************************************)
(* changed_range returns a range of base, and the slice of changed it      *)
(* takes is in bounds: its two subtractions do not go below zero and       *)
(* &changed[prefix..changed_end] does not panic.                           *)
(***************************************************************************)
THEOREM ChangedRangeInBounds ==
    ASSUME NEW L, NEW base \in Seq(L), NEW changed \in Seq(L)
    PROVE  LET r == ChangedRange(base, changed)
           IN  /\ r.start \in 0..Len(base)
               /\ r.end \in r.start..Len(base)
               /\ r.repl \in Seq(L)
<1> DEFINE m == Shorter(base, changed)
           x == CommonPrefix(base, changed)
           y == CommonSuffix(base, changed, x)
<1>1. m \in Nat /\ m <= Len(base) /\ m <= Len(changed)
  BY ShorterType
<1>2. x \in 0..m
  BY CommonPrefixType
<1>3. y \in 0..(m - x)
  BY <1>2, CommonSuffixType
<1> HIDE DEF m, x, y
<1>4. /\ x \in 0..Len(base)
      /\ Len(base) - y \in x..Len(base)
      /\ x + 1 \in 1..(Len(changed) + 1)
      /\ Len(changed) - y \in ((x + 1) - 1)..Len(changed)
  BY <1>1, <1>2, <1>3
<1>5. SubSeq(changed, x + 1, Len(changed) - y) \in Seq(L)
  BY <1>4, SubSeqProperties
<1> QED  BY <1>4, <1>5 DEF ChangedRange, x, y
-----------------------------------------------------------------------------
(***************************************************************************)
(* The two loops of changed_range: the lines they count agree, and the     *)
(* loops stop only where the next lines differ or a text ends.             *)
(***************************************************************************)
\* Numbers from 1 on without a gap are as many as the last one says.
LEMMA NoGap ==
    ASSUME NEW n \in Nat, NEW S \in SUBSET (1..n), \A x \in S : \A y \in 1..x : y \in S
    PROVE  S = 1..Cardinality(S)
<1> DEFINE T == {m \in 1..(n + 1) : m \notin S}
<1>1. n + 1 \in T /\ T \in SUBSET Nat
  OBVIOUS
<1>2. PICK x \in T : \A y \in T : x <= y
  BY <1>1, LeastNumber
<1>3. x \in 1..(n + 1) /\ x \notin S
  BY <1>2
<1>4. ASSUME NEW y \in 1..(x - 1) PROVE y \in S
  <2>1. y \in 1..(n + 1) /\ ~(x <= y)
    BY <1>3
  <2>2. y \notin T
    BY <2>1, <1>2
  <2> QED  BY <2>1, <2>2
<1>5. ASSUME NEW y \in S PROVE y \in 1..(x - 1)
  <2>1. y \in 1..n
    OBVIOUS
  <2>2. CASE x <= y
    <3>1. x \in 1..y
      BY <2>1, <2>2, <1>3
    <3> QED  BY <3>1, <1>3
  <2> QED  BY <2>1, <2>2, <1>3
<1>6. S = 1..(x - 1)
  BY <1>4, <1>5
<1>7. Cardinality(1..(x - 1)) = x - 1
  <2>1. 1 \in Int /\ x - 1 \in Int
    BY <1>3
  <2>2. Cardinality(1..(x - 1)) = IF 1 > x - 1 THEN 0 ELSE (x - 1) - 1 + 1
    BY <2>1, FS_Interval
  <2> QED  BY <2>2, <1>3
<1> QED  BY <1>6, <1>7

\* The lines of the common prefix are the same in both texts.
LEMMA PrefixAgrees ==
    ASSUME NEW L, NEW base \in Seq(L), NEW changed \in Seq(L),
           NEW i \in 1..CommonPrefix(base, changed)
    PROVE  base[i] = changed[i]
<1> DEFINE m == Shorter(base, changed)
           S == {n \in 1..m : \A j \in 1..n : base[j] = changed[j]}
<1>1. m \in Nat
  BY ShorterType
<1>2. \A x \in S : \A y \in 1..x : y \in S
  BY <1>1
<1>3. S = 1..Cardinality(S)
  <2> HIDE DEF m
  <2>1. S \in SUBSET (1..m)
    OBVIOUS
  <2> HIDE DEF S
  <2> QED  BY <1>1, <1>2, <2>1, NoGap
<1>4. i \in S
  BY <1>3 DEF CommonPrefix
<1> QED  BY <1>4

\* No longer prefix is the same in both texts.
LEMMA PrefixMaximal ==
    ASSUME NEW L, NEW base \in Seq(L), NEW changed \in Seq(L),
           NEW n \in 0..Shorter(base, changed), \A i \in 1..n : base[i] = changed[i]
    PROVE  n <= CommonPrefix(base, changed)
<1> DEFINE m == Shorter(base, changed)
           S == {k \in 1..m : \A j \in 1..k : base[j] = changed[j]}
<1>1. m \in Nat /\ n \in Nat /\ CommonPrefix(base, changed) \in Nat
  BY ShorterType, CommonPrefixType
<1>2. \A x \in S : \A y \in 1..x : y \in S
  BY <1>1
<1>3. S = 1..Cardinality(S)
  <2> HIDE DEF m
  <2>1. S \in SUBSET (1..m)
    OBVIOUS
  <2> HIDE DEF S
  <2> QED  BY <1>1, <1>2, <2>1, NoGap
<1>4. n = 0 \/ n \in S
  BY <1>1
<1>5. Cardinality(S) = CommonPrefix(base, changed)
  BY DEF CommonPrefix
<1> HIDE DEF S, m
<1> QED  BY <1>1, <1>3, <1>4, <1>5

\* The lines of the common suffix are the same in both texts.
LEMMA SuffixAgrees ==
    ASSUME NEW L, NEW base \in Seq(L), NEW changed \in Seq(L),
           NEW prefix \in 0..Shorter(base, changed),
           NEW i \in 0..(CommonSuffix(base, changed, prefix) - 1)
    PROVE  base[Len(base) - i] = changed[Len(changed) - i]
<1> DEFINE m == Shorter(base, changed) - prefix
           S == {n \in 1..m : \A j \in 0..(n - 1) :
                                base[Len(base) - j] = changed[Len(changed) - j]}
<1>1. m \in Nat /\ CommonSuffix(base, changed, prefix) \in Nat
  <2>1. Shorter(base, changed) \in Nat /\ prefix \in 0..Shorter(base, changed)
    BY ShorterType
  <2>2. CommonSuffix(base, changed, prefix) \in 0..(Shorter(base, changed) - prefix)
    BY CommonSuffixType
  <2> QED  BY <2>1, <2>2
<1>2. \A x \in S : \A y \in 1..x : y \in S
  BY <1>1
<1>3. S = 1..Cardinality(S)
  <2> HIDE DEF m
  <2>1. S \in SUBSET (1..m)
    OBVIOUS
  <2> HIDE DEF S
  <2> QED  BY <1>1, <1>2, <2>1, NoGap
<1>4. i + 1 \in 1..CommonSuffix(base, changed, prefix)
  BY <1>1
<1>5. i + 1 \in S
  BY <1>3, <1>4 DEF CommonSuffix
<1>6. \A j \in 0..((i + 1) - 1) : base[Len(base) - j] = changed[Len(changed) - j]
  BY <1>5
<1>7. i \in 0..((i + 1) - 1)
  BY <1>1
<1> QED  BY <1>6, <1>7

\* No longer suffix beyond the prefix is the same in both texts.
LEMMA SuffixMaximal ==
    ASSUME NEW L, NEW base \in Seq(L), NEW changed \in Seq(L),
           NEW prefix \in 0..Shorter(base, changed),
           NEW n \in 0..(Shorter(base, changed) - prefix),
           \A i \in 0..(n - 1) : base[Len(base) - i] = changed[Len(changed) - i]
    PROVE  n <= CommonSuffix(base, changed, prefix)
<1> DEFINE m == Shorter(base, changed) - prefix
           S == {k \in 1..m : \A j \in 0..(k - 1) :
                                base[Len(base) - j] = changed[Len(changed) - j]}
<1>1. m \in Nat /\ n \in Nat /\ CommonSuffix(base, changed, prefix) \in Nat
  <2>1. Shorter(base, changed) \in Nat /\ prefix \in 0..Shorter(base, changed)
    BY ShorterType
  <2>2. CommonSuffix(base, changed, prefix) \in 0..(Shorter(base, changed) - prefix)
    BY CommonSuffixType
  <2> QED  BY <2>1, <2>2
<1>2. \A x \in S : \A y \in 1..x : y \in S
  BY <1>1
<1>3. S = 1..Cardinality(S)
  <2> HIDE DEF m
  <2>1. S \in SUBSET (1..m)
    OBVIOUS
  <2> HIDE DEF S
  <2> QED  BY <1>1, <1>2, <2>1, NoGap
<1>4. n = 0 \/ n \in S
  BY <1>1
<1>5. Cardinality(S) = CommonSuffix(base, changed, prefix)
  BY DEF CommonSuffix
<1> HIDE DEF S, m
<1> QED  BY <1>1, <1>3, <1>4, <1>5
-----------------------------------------------------------------------------
(***************************************************************************)
(* The woven text.  It is the early text up to the end of its change and   *)
(* the late text from there on.                                            *)
(***************************************************************************)
\* Slices with the same lines are equal.
LEMMA SameSlice ==
    ASSUME NEW L, NEW s \in Seq(L), NEW t \in Seq(L), NEW n \in Nat,
           NEW i \in Nat, NEW j \in Nat, i + n <= Len(s), j + n <= Len(t),
           \A k \in 1..n : s[i + k] = t[j + k]
    PROVE  SubSeq(s, i + 1, i + n) = SubSeq(t, j + 1, j + n)
<1> DEFINE u == SubSeq(s, i + 1, i + n)
           v == SubSeq(t, j + 1, j + n)
<1>1. /\ \A k \in (i + 1)..(i + n) : s[k] \in L
      /\ \A k \in (j + 1)..(j + n) : t[k] \in L
  BY ElementOfSeq
<1>2. u \in Seq(L) /\ Len(u) = n /\ \A k \in 1..n : u[k] = s[i + k]
  BY <1>1, SubSeqProperties
<1>3. v \in Seq(L) /\ Len(v) = n /\ \A k \in 1..n : v[k] = t[j + k]
  BY <1>1, SubSeqProperties
<1> HIDE DEF u, v
<1>4. u = v
  BY <1>2, <1>3, SeqEqual
<1> QED  BY <1>4 DEF u, v

\* Texts with the same last lines end in the same slice.
LEMMA SameTail ==
    ASSUME NEW L, NEW s \in Seq(L), NEW t \in Seq(L), NEW n \in Nat,
           n <= Len(s), n <= Len(t),
           \A x \in 0..(n - 1) : s[Len(s) - x] = t[Len(t) - x]
    PROVE  SubSeq(s, Len(s) - n + 1, Len(s)) = SubSeq(t, Len(t) - n + 1, Len(t))
<1> DEFINE u == SubSeq(s, Len(s) - n + 1, Len(s))
           v == SubSeq(t, Len(t) - n + 1, Len(t))
<1>1. Len(s) \in Nat /\ Len(t) \in Nat
  BY LenProperties
<1>2. /\ \A k \in (Len(s) - n + 1)..Len(s) : s[k] \in L
      /\ \A k \in (Len(t) - n + 1)..Len(t) : t[k] \in L
  BY <1>1, ElementOfSeq
<1>3. u \in Seq(L) /\ Len(u) = n /\ \A k \in 1..n : u[k] = s[Len(s) - (n - k)]
  BY <1>1, <1>2, SubSeqProperties
<1>4. v \in Seq(L) /\ Len(v) = n /\ \A k \in 1..n : v[k] = t[Len(t) - (n - k)]
  BY <1>1, <1>2, SubSeqProperties
<1> HIDE DEF u, v
<1>5. ASSUME NEW k \in 1..n PROVE u[k] = v[k]
  <2>1. n - k \in 0..(n - 1)
    OBVIOUS
  <2>2. s[Len(s) - (n - k)] = t[Len(t) - (n - k)]
    BY <2>1
  <2> QED  BY <2>2, <1>3, <1>4
<1>6. u = v
  BY <1>3, <1>4, <1>5, SeqEqual
<1> QED  BY <1>6 DEF u, v

\* A slice of a text is a text.
LEMMA SliceIsText ==
    ASSUME NEW L, NEW s \in Seq(L), NEW i \in 1..(Len(s) + 1), NEW j \in 0..Len(s)
    PROVE  SubSeq(s, i, j) \in Seq(L)
<1>1. \A k \in i..j : s[k] \in L
  BY ElementOfSeq
<1> QED  BY <1>1, SubSeqProperties

\* The numbers of a range.
LEMMA RangeNumbers ==
    ASSUME NEW L, NEW base \in Seq(L), NEW changed \in Seq(L)
    PROVE  \E p, s \in Nat :
             /\ p = CommonPrefix(base, changed)
             /\ s = CommonSuffix(base, changed, p)
             /\ p + s <= Len(base) /\ p + s <= Len(changed)
             /\ ChangedRange(base, changed) =
                  [start |-> p, end |-> Len(base) - s,
                   repl |-> SubSeq(changed, p + 1, Len(changed) - s)]
<1> DEFINE m == Shorter(base, changed)
           p == CommonPrefix(base, changed)
           s == CommonSuffix(base, changed, p)
<1>1. m \in Nat /\ m <= Len(base) /\ m <= Len(changed)
  BY ShorterType
<1>2. p \in 0..m
  BY CommonPrefixType
<1>3. s \in 0..(m - p)
  BY <1>2, CommonSuffixType
<1>4. ChangedRange(base, changed) =
        [start |-> p, end |-> Len(base) - s, repl |-> SubSeq(changed, p + 1, Len(changed) - s)]
  BY DEF ChangedRange
<1>5. Len(base) \in Nat /\ Len(changed) \in Nat
  BY LenProperties
<1>6. \E x, y \in Nat : x = p /\ y = s
  <2> HIDE DEF m, p, s
  <2> QED  BY <1>1, <1>2, <1>3
<1>7. p + s <= Len(base) /\ p + s <= Len(changed)
  <2> HIDE DEF m, p, s
  <2> QED  BY <1>1, <1>2, <1>3, <1>5
<1> QED  BY <1>4, <1>6, <1>7

\* The first half of a woven text: base up to the change, and the change.
LEMMA FirstHalf ==
    ASSUME NEW L, NEW base \in Seq(L), NEW changed \in Seq(L),
           NEW p \in Nat, NEW s \in Nat,
           p + s <= Len(base), p + s <= Len(changed),
           \A i \in 1..p : base[i] = changed[i]
    PROVE  SubSeq(base, 1, p) \o SubSeq(changed, p + 1, Len(changed) - s)
             = SubSeq(changed, 1, Len(changed) - s)
<1>1. Len(base) \in Nat /\ Len(changed) \in Nat
  BY LenProperties
<1>2. \A k \in 1..p : base[0 + k] = changed[0 + k]
  OBVIOUS
<1>3. SubSeq(base, 0 + 1, 0 + p) = SubSeq(changed, 0 + 1, 0 + p)
  <2>1. 0 \in Nat /\ 0 + p <= Len(base) /\ 0 + p <= Len(changed)
    BY <1>1
  <2> QED  BY <2>1, <1>2, SameSlice
<1>4. SubSeq(base, 1, p) = SubSeq(changed, 1, p)
  BY <1>3
<1>5. SubSeq(changed, 1, p) \o SubSeq(changed, p + 1, Len(changed) - s)
        = SubSeq(changed, 1, Len(changed) - s)
  <2>1. 1 \in 1..(Len(changed) + 1) /\ p \in (1 - 1)..Len(changed) /\ Len(changed) - s \in p..Len(changed)
    BY <1>1
  <2> QED  BY <2>1, ConcatAdjacentSubSeq
<1> QED  BY <1>4, <1>5

\* The second half: base from the cut to the change, and the change.
LEMMA SecondHalf ==
    ASSUME NEW L, NEW base \in Seq(L), NEW changed \in Seq(L),
           NEW p \in Nat, NEW j \in 1..(p + 1), NEW m \in p..Len(changed),
           p <= Len(base), p <= Len(changed),
           \A i \in 1..p : base[i] = changed[i]
    PROVE  SubSeq(base, j, p) \o SubSeq(changed, p + 1, m)
             = SubSeq(changed, j, m)
<1>1. Len(base) \in Nat /\ Len(changed) \in Nat
  BY LenProperties
<1>2. SubSeq(base, j, p) = SubSeq(changed, j, p)
  <2>1. \A i \in 1..(p - (j - 1)) : base[(j - 1) + i] = changed[(j - 1) + i]
    OBVIOUS
  <2>2. /\ j - 1 \in Nat /\ p - (j - 1) \in Nat /\ (j - 1) + (p - (j - 1)) <= Len(base)
        /\ (j - 1) + (p - (j - 1)) <= Len(changed)
    BY <1>1
  <2>3. SubSeq(base, (j - 1) + 1, (j - 1) + (p - (j - 1)))
          = SubSeq(changed, (j - 1) + 1, (j - 1) + (p - (j - 1)))
    BY <2>1, <2>2, SameSlice
  <2>4. (j - 1) + (p - (j - 1)) = p /\ (j - 1) + 1 = j
    OBVIOUS
  <2> QED  BY <2>3, <2>4
<1>3. SubSeq(changed, j, p) \o SubSeq(changed, p + 1, m)
        = SubSeq(changed, j, m)
  <2>1. /\ j \in 1..(Len(changed) + 1) /\ p \in (j - 1)..Len(changed)
    BY <1>1
  <2> QED  BY <2>1, ConcatAdjacentSubSeq
<1> QED  BY <1>2, <1>3
=============================================================================
