------------------------- MODULE TextMergeRun_proofs -------------------------
(***************************************************************************)
(* The text merge against its reference, for texts of every length over    *)
(* any lines.                                                              *)
(***************************************************************************)
EXTENDS TextMergeRun, TextMerge_proofs

AnyLine == Line \cup OpenLine

\* The three texts are sequences of lines, and the outcome is the merge's.
MergeInv ==
    /\ base \in Seq(AnyLine) /\ current \in Seq(AnyLine) /\ session \in Seq(AnyLine)
    /\ out = NotRun \/ out = TryThreeWayTextMerge(base, current, session)

\* A text of at most MaxLen lines is a sequence of lines.
LEMMA TextType ==
    ASSUME NEW s \in Text
    PROVE  s \in Seq(AnyLine)
<1>1. PICK n \in 0..MaxLen : s \in [1..n -> Line \cup OpenLine]
  BY DEF Text
<1>2. n \in Nat
  BY <1>1, MaxLenAssumption
<1> QED  BY <1>1, <1>2 DEF AnyLine

LEMMA MergeInvHolds == Spec => []MergeInv
<1>1. Init => MergeInv
  BY TextType DEF Init, MergeInv
<1>2. MergeInv /\ [Merge]_vars => MergeInv'
  BY DEF MergeInv, Merge, vars
<1> QED  BY <1>1, <1>2, PTL DEF Spec

-----------------------------------------------------------------------------
(***************************************************************************)
(* A clean merge is a reference merge.                                     *)
(***************************************************************************)
\* A cut is in the reference once both sides are the base beyond it.
LEMMA HalvesIntro ==
    ASSUME NEW e, NEW l, NEW k \in 0..Len(base),
           Len(e) >= Len(base) - k,
           Suffix(e, Len(e) - (Len(base) - k)) = Suffix(base, k),
           Len(l) >= k, Prefix(l, k) = Prefix(base, k)
    PROVE  Prefix(e, Len(e) - (Len(base) - k)) \o Suffix(l, k) \in Halves(e, l)
BY DEF Halves

\* A side that changed nothing: the cut is before the first line.
LEMMA OtherSideWhole ==
    ASSUME NEW L, base \in Seq(L), NEW l \in Seq(L)
    PROVE  l \in Halves(base, l)
<1>1. Len(base) \in Nat /\ Len(l) \in Nat
  BY LenProperties
<1>2. 0 \in 0..Len(base) /\ Len(base) - (Len(base) - 0) = 0
  BY <1>1
<1>3. /\ Len(base) >= Len(base) - 0 /\ Len(l) >= 0
      /\ Suffix(base, Len(base) - (Len(base) - 0)) = Suffix(base, 0)
  BY <1>1
<1>4. Prefix(l, 0) = <<>> /\ Prefix(base, 0) = <<>>
  BY SubSeqEmpty DEF Prefix
<1>5. Suffix(l, 0) = l
  <2> DEFINE u == SubSeq(l, 0 + 1, Len(l))
  <2>1. \A i \in (0 + 1)..Len(l) : l[i] \in L
    BY ElementOfSeq
  <2>2. u \in Seq(L) /\ Len(u) = Len(l) /\ \A i \in 1..Len(l) : u[i] = l[i]
    BY <1>1, <2>1, SubSeqProperties
  <2> HIDE DEF u
  <2>3. u = l
    BY <2>2, SeqEqual
  <2> QED  BY <2>3 DEF u, Suffix
<1>6. Prefix(base, Len(base) - (Len(base) - 0)) \o Suffix(l, 0) \in Halves(base, l)
  BY <1>2, <1>3, <1>4, HalvesIntro
<1>7. Prefix(base, Len(base) - (Len(base) - 0)) = <<>>
  BY <1>2, <1>4
<1>8. <<>> \o l = l
  BY ConcatEmptySeq
<1> QED  BY <1>5, <1>6, <1>7, <1>8

\* Concatenation under a name the provers do not look into.
Cat(x, y) == x \o y

\* Concatenation of texts is a text and is associative.
LEMMA CatType ==
    ASSUME NEW L, NEW x \in Seq(L), NEW y \in Seq(L)
    PROVE  Cat(x, y) \in Seq(L)
BY ConcatProperties DEF Cat

LEMMA CatAssociative ==
    ASSUME NEW L, NEW x \in Seq(L), NEW y \in Seq(L), NEW z \in Seq(L)
    PROVE  Cat(Cat(x, y), z) = Cat(x, Cat(y, z))
BY ConcatAssociative DEF Cat

\* Five pieces in two groups.
LEMMA WovenGrouped ==
    ASSUME NEW L, NEW a \in Seq(L), NEW b \in Seq(L), NEW c \in Seq(L), NEW d \in Seq(L),
           NEW f \in Seq(L)
    PROVE  Cat(Cat(Cat(Cat(a, b), c), d), f) = Cat(Cat(a, b), Cat(Cat(c, d), f))
<1>1. Cat(a, b) \in Seq(L) /\ Cat(c, d) \in Seq(L)
  BY CatType
<1>2. Cat(Cat(Cat(a, b), c), d) = Cat(Cat(a, b), Cat(c, d))
  BY <1>1, CatAssociative
<1>3. Cat(Cat(Cat(a, b), Cat(c, d)), f) = Cat(Cat(a, b), Cat(Cat(c, d), f))
  BY <1>1, CatAssociative
<1> QED  BY <1>2, <1>3

\* The part of the base that a change leaves, followed by the change.
Fits(b, c, p, s) == /\ p + s <= Len(b) /\ p + s <= Len(c)
                    /\ \A i \in 1..p : b[i] = c[i]
Joins(b, c, p, s) == SubSeq(b, 1, p) \o SubSeq(c, p + 1, Len(c) - s)
                       = SubSeq(c, 1, Len(c) - s)

LEMMA FirstHalfJoins ==
    ASSUME NEW L, NEW b \in Seq(L), NEW c \in Seq(L), NEW p \in Nat, NEW s \in Nat,
           Fits(b, c, p, s)
    PROVE  Joins(b, c, p, s)
<1>1. p + s <= Len(b) /\ p + s <= Len(c) /\ \A i \in 1..p : b[i] = c[i]
  BY DEF Fits
<1>2. SubSeq(b, 1, p) \o SubSeq(c, p + 1, Len(c) - s) = SubSeq(c, 1, Len(c) - s)
  BY <1>1, FirstHalf
<1> QED  BY <1>2 DEF Joins

\* Two changes woven in order: the cut is the end of the first one.
LEMMA WovenIsExplained ==
    ASSUME NEW L, base \in Seq(L), NEW e \in Seq(L), NEW l \in Seq(L),
           Weave(base, ChangedRange(base, e), ChangedRange(base, l)).kind = "clean"
    PROVE  Weave(base, ChangedRange(base, e), ChangedRange(base, l)).text \in Halves(e, l)
<1> DEFINE first  == ChangedRange(base, e)
           second == ChangedRange(base, l)
           A == SubSeq(base, 1, first.start)
           B == first.repl
           C == SubSeq(base, first.end + 1, second.start)
           D == second.repl
           E == SubSeq(base, second.end + 1, Len(base))
<1>1. PICK p \in Nat, s \in Nat :
        /\ p = CommonPrefix(base, e) /\ s = CommonSuffix(base, e, p)
        /\ p + s <= Len(base) /\ p + s <= Len(e)
        /\ first = [start |-> p, end |-> Len(base) - s, repl |-> SubSeq(e, p + 1, Len(e) - s)]
  BY RangeNumbers
<1>2. PICK q \in Nat, t \in Nat :
        /\ q = CommonPrefix(base, l) /\ t = CommonSuffix(base, l, q)
        /\ q + t <= Len(base) /\ q + t <= Len(l)
        /\ second = [start |-> q, end |-> Len(base) - t, repl |-> SubSeq(l, q + 1, Len(l) - t)]
  BY RangeNumbers
<1>3. ~(first.end > second.start) /\ Weave(base, first, second).text = A \o B \o C \o D \o E
  BY DEF Weave, Panic, Clean
<1>4. Len(base) \in Nat /\ Len(e) \in Nat /\ Len(l) \in Nat
  BY LenProperties
<1>5. /\ A = SubSeq(base, 1, p) /\ B = SubSeq(e, p + 1, Len(e) - s)
      /\ C = SubSeq(base, (Len(base) - s) + 1, q) /\ D = SubSeq(l, q + 1, Len(l) - t)
      /\ E = SubSeq(base, Len(base) - t + 1, Len(base))
  <2> HIDE DEF first, second
  <2>1. first.start = p /\ first.end = Len(base) - s /\ first.repl = SubSeq(e, p + 1, Len(e) - s)
    BY <1>1
  <2>2. second.start = q /\ second.end = Len(base) - t /\ second.repl = SubSeq(l, q + 1, Len(l) - t)
    BY <1>2
  <2> QED  BY <2>1, <2>2
<1>6. /\ p + s <= Len(base) /\ p + s <= Len(e)
      /\ q + t <= Len(base) /\ q + t <= Len(l)
  BY <1>1, <1>2
<1>7. Len(base) - s <= q
  <2>1. first.end = Len(base) - s /\ second.start = q
    BY <1>1, <1>2
  <2> QED  BY <2>1, <1>3, <1>4
<1>8. p = CommonPrefix(base, e) /\ s = CommonSuffix(base, e, p)
  BY <1>1
<1>9. q = CommonPrefix(base, l) /\ t = CommonSuffix(base, l, q)
  BY <1>2
<1> HIDE DEF A, B, C, D, E, first, second
<1>10. A \in Seq(L) /\ B \in Seq(L) /\ C \in Seq(L) /\ D \in Seq(L) /\ E \in Seq(L)
  <2>1. /\ 1 \in 1..(Len(base) + 1) /\ p \in 0..Len(base)
        /\ p + 1 \in 1..(Len(e) + 1) /\ Len(e) - s \in 0..Len(e)
        /\ (Len(base) - s) + 1 \in 1..(Len(base) + 1) /\ q \in 0..Len(base)
        /\ q + 1 \in 1..(Len(l) + 1) /\ Len(l) - t \in 0..Len(l)
        /\ Len(base) - t + 1 \in 1..(Len(base) + 1) /\ Len(base) \in 0..Len(base)
    BY <1>4, <1>6
  <2>2. /\ SubSeq(base, 1, p) \in Seq(L)
        /\ SubSeq(e, p + 1, Len(e) - s) \in Seq(L)
        /\ SubSeq(base, (Len(base) - s) + 1, q) \in Seq(L)
        /\ SubSeq(l, q + 1, Len(l) - t) \in Seq(L)
        /\ SubSeq(base, Len(base) - t + 1, Len(base)) \in Seq(L)
    BY <2>1, SliceIsText
  <2> QED  BY <2>2, <1>5
<1>11. A \o B \o C \o D \o E = (A \o B) \o ((C \o D) \o E)
  <2>1. Cat(Cat(Cat(Cat(A, B), C), D), E) = Cat(Cat(A, B), Cat(Cat(C, D), E))
    BY <1>10, WovenGrouped
  <2> QED  BY <2>1, Zenon DEF Cat
<1>12. PICK k \in 0..Len(base) : k = Len(base) - s
  <2>1. Len(base) - s \in 0..Len(base)
    BY <1>4, <1>6
  <2> QED  BY <2>1
<1>13. Len(base) - k = s /\ k <= q
  BY <1>4, <1>7, <1>12
<1>14. A \o B = Prefix(e, Len(e) - (Len(base) - k))
  <2>1. SubSeq(base, 1, p) \o SubSeq(e, p + 1, Len(e) - s) = SubSeq(e, 1, Len(e) - s)
    <3>1. \A i \in 1..p : base[i] = e[i]
      BY <1>8, PrefixAgrees
    <3>2. p + s <= Len(base) /\ p + s <= Len(e)
      BY <1>6
    <3>3. Fits(base, e, p, s)
      BY <3>1, <3>2 DEF Fits
    <3>4. Joins(base, e, p, s)
      BY ONLY base \in Seq(L), e \in Seq(L), p \in Nat, s \in Nat, <3>3, FirstHalfJoins
    <3> QED  BY <3>4 DEF Joins
  <2> QED  BY <2>1, <1>5, <1>13 DEF Prefix
<1>15. (C \o D) \o E = Suffix(l, k)
  <2>1. k \in 0..q
    BY <1>12, <1>13, <1>4
  <2>2. \A i \in 1..q : base[i] = l[i]
    BY <1>9, PrefixAgrees
  <2>3. \A x \in 0..(t - 1) : base[Len(base) - x] = l[Len(l) - x]
    <3>1. q \in 0..Shorter(base, l)
      BY <1>9, CommonPrefixType
    <3> QED  BY <3>1, <1>9, SuffixAgrees
  <2>4. C \o D = SubSeq(l, k + 1, Len(l) - t)
    <3>1. q + t <= Len(base) /\ q + t <= Len(l)
      BY <1>6
    <3>2. SubSeq(base, k + 1, q) \o SubSeq(l, q + 1, Len(l) - t) = SubSeq(l, k + 1, Len(l) - t)
      <4>1. /\ k + 1 \in 1..(q + 1) /\ Len(l) - t \in q..Len(l)
            /\ q <= Len(base) /\ q <= Len(l)
        BY <1>4, <2>1, <3>1
      <4>2. PICK j \in 1..(q + 1) : j = k + 1
        BY <4>1
      <4>3. PICK m \in q..Len(l) : m = Len(l) - t
        BY <4>1
      <4>4. q <= Len(base) /\ q <= Len(l)
        BY <4>1
      <4>5. SubSeq(base, j, q) \o SubSeq(l, q + 1, m) = SubSeq(l, j, m)
        BY <2>2, <4>4, SecondHalf
      <4> QED  BY <4>2, <4>3, <4>5
    <3> QED  BY <3>2, <1>5, <1>12
  <2>5. E = SubSeq(l, Len(l) - t + 1, Len(l))
    <3>1. t <= Len(base) /\ t <= Len(l)
      BY <1>4, <1>6
    <3>2. SubSeq(base, Len(base) - t + 1, Len(base)) = SubSeq(l, Len(l) - t + 1, Len(l))
      BY <2>3, <3>1, SameTail
    <3> QED  BY <3>2, <1>5
  <2>6. SubSeq(l, k + 1, Len(l) - t) \o SubSeq(l, Len(l) - t + 1, Len(l)) = SubSeq(l, k + 1, Len(l))
    <3>1. /\ k + 1 \in 1..(Len(l) + 1) /\ Len(l) - t \in ((k + 1) - 1)..Len(l)
          /\ Len(l) \in (Len(l) - t)..Len(l)
      BY <1>4, <1>6, <2>1
    <3> QED  BY <3>1, ConcatAdjacentSubSeq
  <2>7. (C \o D) \o E = SubSeq(l, k + 1, Len(l))
    BY <2>4, <2>5, <2>6
  <2> QED  BY <2>7 DEF Suffix
<1>16. Suffix(e, Len(e) - (Len(base) - k)) = Suffix(base, k)
  <2>1. p \in 0..Shorter(base, e)
    BY <1>8, CommonPrefixType
  <2>2. \A x \in 0..(s - 1) : base[Len(base) - x] = e[Len(e) - x]
    BY <1>8, <2>1, SuffixAgrees
  <2>3. s <= Len(base) /\ s <= Len(e)
    BY <1>4, <1>6
  <2>4. SubSeq(base, Len(base) - s + 1, Len(base)) = SubSeq(e, Len(e) - s + 1, Len(e))
    BY <2>2, <2>3, SameTail
  <2> QED  BY <2>4, <1>12, <1>13 DEF Suffix
<1>17. Prefix(l, k) = Prefix(base, k)
  <2>1. ASSUME NEW x \in 1..k PROVE base[0 + x] = l[0 + x]
    <3>1. x \in 1..CommonPrefix(base, l)
      BY <1>4, <1>9, <1>12, <1>13
    <3> QED  BY <3>1, PrefixAgrees
  <2>2. 0 \in Nat /\ k \in Nat /\ 0 + k <= Len(base) /\ 0 + k <= Len(l)
    BY <1>4, <1>6, <1>12, <1>13
  <2>3. SubSeq(base, 0 + 1, 0 + k) = SubSeq(l, 0 + 1, 0 + k)
    BY <2>1, <2>2, SameSlice
  <2> QED  BY <2>3 DEF Prefix
<1>18. Len(e) >= Len(base) - k /\ Len(l) >= k
  BY <1>4, <1>6, <1>12, <1>13
<1>19. Prefix(e, Len(e) - (Len(base) - k)) \o Suffix(l, k) \in Halves(e, l)
  BY <1>16, <1>17, <1>18, HalvesIntro
<1> QED  BY <1>3, <1>11, <1>14, <1>15, <1>19 DEF first, second

(***************************************************************************)
(* Whatever texts commit_with_report finds, a text that                    *)
(* try_three_way_text_merge publishes is one the reference explains: it is *)
(* one side's text up to a line of the base and the other's text after it, *)
(* and neither side changed what is taken from the other.  No change is    *)
(* dropped and none is applied twice, for texts of any length, with        *)
(* repeated lines or without.                                              *)
(***************************************************************************)
THEOREM CleanMergesExplained == Spec => []CleanMergeIsExplained
<1>1. MergeInv => CleanMergeIsExplained
  <2> SUFFICES ASSUME MergeInv, out.kind = "clean"
               PROVE  \/ out.text \in CleanMerges
                      \/ current = session /\ out.text = session
    BY DEF CleanMergeIsExplained
  <2> DEFINE cur == ChangedRange(base, current)
             ses == ChangedRange(base, session)
  <2>1. out = TryThreeWayTextMerge(base, current, session)
    <3>1. out = NotRun \/ out = TryThreeWayTextMerge(base, current, session)
      BY DEF MergeInv
    <3>2. NotRun.kind = "not run"
      BY DEF NotRun
    <3>3. out # NotRun
      BY <3>2
    <3> QED  BY <3>1, <3>3
  <2>2. /\ base \in Seq(AnyLine) /\ current \in Seq(AnyLine) /\ session \in Seq(AnyLine)
    BY DEF MergeInv
  <2>3. CASE current = session
    BY <2>1, <2>3 DEF TryThreeWayTextMerge, Clean
  <2>4. CASE current # session /\ base = current
    <3>1. out.text = session
      BY <2>1, <2>4 DEF TryThreeWayTextMerge, Clean
    <3>2. session \in Halves(current, session)
      BY <2>2, <2>4, OtherSideWhole
    <3> QED  BY <3>1, <3>2 DEF CleanMerges
  <2>5. CASE current # session /\ base # current /\ base = session
    <3>1. out.text = current
      BY <2>1, <2>5 DEF TryThreeWayTextMerge, Clean
    <3>2. current \in Halves(session, current)
      BY <2>2, <2>5, OtherSideWhole
    <3> QED  BY <3>1, <3>2 DEF CleanMerges
  <2>6. CASE current # session /\ base # current /\ base # session
    <3> HIDE DEF cur, ses
    <3>1. out = Weave(base, cur, ses) \/ out = Weave(base, ses, cur)
      BY <2>1, <2>6 DEF TryThreeWayTextMerge, Conflict, cur, ses
    <3>2. CASE out = Weave(base, cur, ses)
      BY <2>2, <3>2, WovenIsExplained DEF CleanMerges, cur, ses
    <3>3. CASE out = Weave(base, ses, cur)
      BY <2>2, <3>3, WovenIsExplained DEF CleanMerges, cur, ses
    <3> QED  BY <3>1, <3>2, <3>3
  <2> QED  BY <2>3, <2>4, <2>5, <2>6
<1> QED  BY <1>1, MergeInvHolds, PTL

-----------------------------------------------------------------------------
(***************************************************************************)
(* A reference merge is found.                                             *)
(***************************************************************************)
\* Equal tails agree line by line.
LEMMA TailsAgree ==
    ASSUME NEW L, NEW s \in Seq(L), NEW t \in Seq(L), NEW n \in Nat,
           n <= Len(s), n <= Len(t), Suffix(s, Len(s) - n) = Suffix(t, Len(t) - n),
           NEW x \in 0..(n - 1)
    PROVE  s[Len(s) - x] = t[Len(t) - x]
<1> DEFINE i == n - x
<1>1. Len(s) \in Nat /\ Len(t) \in Nat /\ i \in 1..n
  BY LenProperties
<1>2. /\ \A k \in (Len(s) - n + 1)..Len(s) : s[k] \in L
      /\ \A k \in (Len(t) - n + 1)..Len(t) : t[k] \in L
  BY <1>1, ElementOfSeq
<1>3. \A k \in 1..(Len(s) - (Len(s) - n + 1) + 1) :
        SubSeq(s, Len(s) - n + 1, Len(s))[k] = s[(Len(s) - n + 1) + k - 1]
  BY <1>1, <1>2, SubSeqProperties
<1>4. \A k \in 1..(Len(t) - (Len(t) - n + 1) + 1) :
        SubSeq(t, Len(t) - n + 1, Len(t))[k] = t[(Len(t) - n + 1) + k - 1]
  BY <1>1, <1>2, SubSeqProperties
<1>5. Suffix(s, Len(s) - n)[i] = s[Len(s) - x]
  <2>1. i \in 1..(Len(s) - (Len(s) - n + 1) + 1) /\ (Len(s) - n + 1) + i - 1 = Len(s) - x
    BY <1>1
  <2> QED  BY <2>1, <1>3 DEF Suffix
<1>6. Suffix(t, Len(t) - n)[i] = t[Len(t) - x]
  <2>1. i \in 1..(Len(t) - (Len(t) - n + 1) + 1) /\ (Len(t) - n + 1) + i - 1 = Len(t) - x
    BY <1>1
  <2> QED  BY <2>1, <1>4 DEF Suffix
<1> QED  BY <1>5, <1>6

\* Equal heads agree line by line.
LEMMA HeadsAgree ==
    ASSUME NEW L, NEW s \in Seq(L), NEW t \in Seq(L), NEW n \in Nat,
           n <= Len(s), n <= Len(t), Prefix(s, n) = Prefix(t, n), NEW x \in 1..n
    PROVE  s[x] = t[x]
<1>1. Len(s) \in Nat /\ Len(t) \in Nat
  BY LenProperties
<1>2. (\A k \in 1..n : s[k] \in L) /\ (\A k \in 1..n : t[k] \in L)
  BY <1>1, ElementOfSeq
<1>3. SubSeq(s, 1, n)[x] = s[1 + x - 1] /\ SubSeq(t, 1, n)[x] = t[1 + x - 1]
  BY <1>1, <1>2, SubSeqProperties
<1>4. 1 + x - 1 = x
  OBVIOUS
<1> QED  BY <1>3, <1>4 DEF Prefix

(***************************************************************************)
(* In texts without repeated lines the common prefix and a common tail     *)
(* cannot meet, unless the texts are equal: a line both of the one and of  *)
(* the other would have two positions.                                     *)
(***************************************************************************)
LEMMA NoMeeting ==
    ASSUME NEW L, NEW b \in Seq(L), NEW e \in Seq(L), Distinct(b), Distinct(e), b # e,
           NEW n \in Nat, n <= Len(b), n <= Len(e),
           \A x \in 0..(n - 1) : b[Len(b) - x] = e[Len(e) - x]
    PROVE  CommonPrefix(b, e) + n <= Shorter(b, e)
<1>1. PICK m \in Nat : /\ m = Shorter(b, e) /\ m <= Len(b) /\ m <= Len(e)
                       /\ m = Len(b) \/ m = Len(e)
  BY ShorterType DEF Shorter
<1>2. PICK p \in Nat : p = CommonPrefix(b, e) /\ p <= m
  BY <1>1, CommonPrefixType
<1>3. \A i \in 1..p : b[i] = e[i]
  BY <1>2, PrefixAgrees
<1>4. Len(b) \in Nat /\ Len(e) \in Nat /\ DOMAIN b = 1..Len(b) /\ DOMAIN e = 1..Len(e)
  BY LenProperties
<1> SUFFICES ASSUME p + n > m PROVE FALSE
  BY <1>1, <1>2, <1>4
<1>5. n > 0 /\ n - 1 \in 0..(n - 1)
  BY <1>1, <1>2
<1>6. b[Len(b) - (n - 1)] = e[Len(e) - (n - 1)]
  BY <1>5
<1>7. Len(b) = Len(e)
  <2>1. CASE m = Len(b)
    <3> DEFINE i == Len(b) - (n - 1)
               j == Len(e) - (n - 1)
    <3>1. i \in 1..p /\ i \in DOMAIN e /\ j \in DOMAIN e
      BY <1>1, <1>2, <1>4, <1>5, <2>1
    <3>2. e[i] = e[j]
      BY <1>3, <1>6, <3>1
    <3>3. i = j
      BY <3>1, <3>2 DEF Distinct
    <3>4. Len(b) - (n - 1) = Len(e) - (n - 1) /\ Len(b) \in Nat /\ Len(e) \in Nat
      BY <3>3, <1>4
    <3> QED  BY <3>4
  <2>2. CASE m = Len(e)
    <3> DEFINE i == Len(b) - (n - 1)
               j == Len(e) - (n - 1)
    <3>1. j \in 1..p /\ i \in DOMAIN b /\ j \in DOMAIN b
      BY <1>1, <1>2, <1>4, <1>5, <2>2
    <3>2. b[i] = b[j]
      BY <1>3, <1>6, <3>1
    <3>3. i = j
      BY <3>1, <3>2 DEF Distinct
    <3>4. Len(b) - (n - 1) = Len(e) - (n - 1) /\ Len(b) \in Nat /\ Len(e) \in Nat
      BY <3>3, <1>4
    <3> QED  BY <3>4
  <2> QED  BY <1>1, <2>1, <2>2
<1>8. ASSUME NEW i \in 1..Len(b) PROVE b[i] = e[i]
  <2>1. CASE i <= p
    BY <2>1, <1>3
  <2>2. CASE i > p
    <3>1. Len(b) - i \in 0..(n - 1)
      BY <1>1, <1>2, <1>4, <1>7, <2>2
    <3>2. b[Len(b) - (Len(b) - i)] = e[Len(e) - (Len(b) - i)]
      BY <3>1
    <3>3. Len(b) - (Len(b) - i) = i /\ Len(e) - (Len(b) - i) = i
      BY <1>4, <1>7
    <3> QED  BY <3>2, <3>3
  <2> QED  BY <2>1, <2>2, <1>2
<1> QED  BY <1>7, <1>8, SeqEqual

\* Where the reference has a cut, the first change ends before the second starts.
LEMMA ReferenceIsFound ==
    ASSUME NEW L, base \in Seq(L), NEW e \in Seq(L), NEW l \in Seq(L),
           Distinct(base), Distinct(e), base # e, Halves(e, l) # {}
    PROVE  ChangedRange(base, e).end <= ChangedRange(base, l).start
<1>1. PICK k \in 0..Len(base) :
        /\ Len(e) >= Len(base) - k
        /\ Suffix(e, Len(e) - (Len(base) - k)) = Suffix(base, k)
        /\ Len(l) >= k
        /\ Prefix(l, k) = Prefix(base, k)
  BY DEF Halves
<1>2. Len(base) \in Nat /\ Len(e) \in Nat /\ Len(l) \in Nat
  BY LenProperties
<1>3. PICK n \in Nat : n = Len(base) - k
  <2>1. Len(base) - k \in Nat
    BY <1>2
  <2> QED  BY <2>1
<1>4. PICK p \in Nat, s \in Nat :
        /\ p = CommonPrefix(base, e) /\ s = CommonSuffix(base, e, p)
        /\ p + s <= Len(base) /\ p + s <= Len(e)
        /\ ChangedRange(base, e) =
             [start |-> p, end |-> Len(base) - s, repl |-> SubSeq(e, p + 1, Len(e) - s)]
  BY RangeNumbers
<1>5. PICK q \in Nat, t \in Nat :
        /\ q = CommonPrefix(base, l) /\ t = CommonSuffix(base, l, q)
        /\ q + t <= Len(base) /\ q + t <= Len(l)
        /\ ChangedRange(base, l) =
             [start |-> q, end |-> Len(base) - t, repl |-> SubSeq(l, q + 1, Len(l) - t)]
  BY RangeNumbers
<1>6. k <= q
  <2>1. k \in 0..Shorter(base, l)
    BY <1>1, <1>2 DEF Shorter
  <2>2. \A i \in 1..k : base[i] = l[i]
    <3>1. k \in Nat /\ k <= Len(base) /\ k <= Len(l) /\ Prefix(base, k) = Prefix(l, k)
      BY <1>1, <1>2
    <3> QED  BY <3>1, HeadsAgree
  <2>3. k <= CommonPrefix(base, l)
    BY <2>1, <2>2, PrefixMaximal
  <2> QED  BY <2>3, <1>5
<1>7. n <= s
  <2>1. n <= Len(base) /\ n <= Len(e) /\ Len(base) - n = k
    BY <1>1, <1>2, <1>3
  <2>2. Suffix(base, Len(base) - n) = Suffix(e, Len(e) - n)
    BY <1>1, <1>3, <2>1
  <2>3. \A x \in 0..(n - 1) : base[Len(base) - x] = e[Len(e) - x]
    <3>1. n <= Len(base) /\ n <= Len(e)
      BY <2>1
    <3> QED  BY <3>1, <2>2, TailsAgree
  <2>4. CommonPrefix(base, e) + n <= Shorter(base, e)
    <3>1. n <= Len(base) /\ n <= Len(e)
      BY <2>1
    <3> QED  BY <3>1, <2>3, NoMeeting
  <2>5. p \in 0..Shorter(base, e) /\ Shorter(base, e) \in Nat
    BY <1>4, CommonPrefixType, ShorterType
  <2>6. p = CommonPrefix(base, e) /\ s = CommonSuffix(base, e, p)
    BY <1>4
  <2>7. n \in 0..(Shorter(base, e) - p)
    BY <2>4, <2>5, <2>6
  <2>8. n <= CommonSuffix(base, e, p)
    BY <2>3, <2>5, <2>7, SuffixMaximal
  <2> QED  BY <2>6, <2>8
<1>8. ChangedRange(base, e).end = Len(base) - s /\ ChangedRange(base, l).start = q
  BY <1>4, <1>5
<1> QED  BY <1>2, <1>3, <1>6, <1>7, <1>8

(***************************************************************************)
(* try_three_way_text_merge gives up only where it must: if no text        *)
(* repeats a line, and the parent and the session changed different parts  *)
(* of the base, the call does not report a conflict, for texts of any      *)
(* length.                                                                 *)
(***************************************************************************)
THEOREM NoConflictIsNeedless == Spec => []NoNeedlessConflict
<1>1. MergeInv => NoNeedlessConflict
  <2> SUFFICES ASSUME MergeInv, out.kind = "conflict",
                      Distinct(base), Distinct(current), Distinct(session),
                      CleanMerges # {}
               PROVE  FALSE
    BY DEF NoNeedlessConflict
  <2> DEFINE cur == ChangedRange(base, current)
             ses == ChangedRange(base, session)
  <2>1. out = TryThreeWayTextMerge(base, current, session)
    <3>1. out = NotRun \/ out = TryThreeWayTextMerge(base, current, session)
      BY DEF MergeInv
    <3>2. NotRun.kind = "not run"
      BY DEF NotRun
    <3>3. out # NotRun
      BY <3>2
    <3> QED  BY <3>1, <3>3
  <2>2. base \in Seq(AnyLine) /\ current \in Seq(AnyLine) /\ session \in Seq(AnyLine)
    BY DEF MergeInv
  <2> HIDE DEF cur, ses
  <2>3. base # current /\ base # session /\ ~NonOverlapping(cur, ses)
    BY <2>1 DEF TryThreeWayTextMerge, Clean, Weave, Panic, cur, ses
  <2>4. CASE Halves(current, session) # {}
    <3>1. cur.end <= ses.start
      BY <2>2, <2>3, <2>4, ReferenceIsFound DEF cur, ses
    <3> QED  BY <3>1, <2>3 DEF NonOverlapping
  <2>5. CASE Halves(session, current) # {}
    <3>1. ses.end <= cur.start
      BY <2>2, <2>3, <2>5, ReferenceIsFound DEF cur, ses
    <3> QED  BY <3>1, <2>3 DEF NonOverlapping
  <2> QED  BY <2>4, <2>5 DEF CleanMerges
<1> QED  BY <1>1, MergeInvHolds, PTL
=============================================================================
