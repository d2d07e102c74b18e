-------------------------- MODULE BranchLog_proofs --------------------------
(***************************************************************************)
(* What a restart finds of a branch, for any paths, threads and number of  *)
(* operations and faults.                                                  *)
(***************************************************************************)
EXTENDS BranchLog, FiniteSetTheorems, WellFoundedInduction, TLAPS

----------------------------------------------------------------------------
(* The inductive invariant                                                 *)

\* Threads: what a step of an operation has still to handle, and that a
\* commit is alone.
Threaded ==
    \A t \in Thread :
        /\ pc[t].at \in {"idle", "touch", "tomb", "untomb", "untouch"} => pc[t].left = {}
        /\ pc[t].at \in {"append", "removal", "content"} => pc[t].left \subseteq Below[pc[t].path]
        /\ pc[t].at = "rewrite" => /\ pc[t].op = "commit"
                                   /\ snap \union pc[t].left = tombs
                                   /\ \A u \in Thread \ {t} : ~Busy(u)
        /\ Busy(t) => boot = "up"

\* Files: a log without a final newline has a line, and the records of
\* earlier releases have no content file.
Filed ==
    /\ "log" \in open => log # <<>>
    /\ "tlog" \in open => tlog # <<>>
    /\ \A p \in Path : ~tsnap[p].key

\* TombstonesDurable, and when exactly a revert is its exception.
TombsKept ==
    boot = "up" =>
        \A p \in Path :
            \/ (p \in Replay(snap, log)) <=> (p \in tombs)
            \/ p \in lost
            \/ \E t \in Thread : pc[t].at = "rewrite" \/ (pc[t].at = "append" /\ p \in pc[t].left)

\* TouchesDurable, and that a revert knows the content files it will remove.
TouchesKept ==
    boot = "up" /\ Loadable(tlog) =>
        \A p \in Path :
            \/ ReplayTouches(tsnap, tlog)[p] = touches[p]
            \/ p \in tlost
            \/ \E t \in Thread :
                  /\ pc[t].at = "removal" /\ p \in Below[pc[t].path]
                  /\ ReplayTouches(tsnap, tlog)[p].key => p \in pc[t].left

\* MergeBaseKept of what a log holds.
Held(l) ==
    Loadable(l) =>
        \A p \in Path :
            ReplayTouches(tsnap, l)[p].key /\ p \notin bare
                => content[p] = ReplayTouches(tsnap, l)[p].base

\* The log once another line is fused with its last.
Fused(l) == [l EXCEPT ![Len(l)] = Garbled(@)]

\* What is in touches.log and in memory of the records.
Records ==
    /\ TouchesKept /\ MergeBaseKept /\ Held(tlog)
    /\ "tlog" \in open => Held(Fused(tlog))

\* Once a snapshot is in its log it can be emptied.
Migrating ==
    /\ boot = "tsnap" =>
          \A p \in Path : ReplayTouches(NoTouches, tlog)[p] = ReplayTouches(tsnap, tlog)[p]
    /\ boot = "snap" => \A p \in Path : p \in Replay({}, log) <=> p \in Replay(snap, log)

IInv == Types /\ Threaded /\ Filed /\ TombsKept /\ Records /\ Migrating

----------------------------------------------------------------------------
(* Reading a log                                                           *)

\* Every non-empty set of natural numbers has a least element.
LEMMA LeastNumber ==
    ASSUME NEW T \in SUBSET Nat, T # {}
    PROVE  \E x \in T : \A y \in T : x <= y
<1> DEFINE R == OpToRel(<, Nat)
<1>1. IsWellFoundedOn(R, Nat)
  BY NatLessThanWellFounded
<1>2. \A x, y \in Nat : <<x, y>> \in R <=> x < y
  BY DEF OpToRel
<1> HIDE DEF R
<1>3. PICK x \in T : \A y \in T : ~(<<y, x>> \in R)
  BY <1>1, WFMin
<1>4. \A y \in T : x <= y
  <2> TAKE y \in T
  <2>1. x \in Nat /\ y \in Nat
    OBVIOUS
  <2>2. ~(y < x)
    BY <1>2, <1>3, <2>1
  <2> QED  BY <2>1, <2>2
<1> QED  BY <1>4

\* If any line is about p, one of them is the last.
LEMMA LastExists ==
    ASSUME NEW which, NEW l \in Seq(LogLine), NEW p, NEW i \in DOMAIN l, p \in About(which, l[i])
    PROVE  LastAbout(which, l, p) # {}
<1> DEFINE n == Len(l)
           T == {n - j : j \in {k \in 1..n : p \in About(which, l[k])}}
<1>1. n \in Nat /\ DOMAIN l = 1..n
  OBVIOUS
<1>2. T \in SUBSET Nat
  BY <1>1
<1>3. n - i \in T
  BY <1>1
<1>4. PICK x \in T : \A y \in T : x <= y
  BY <1>2, <1>3, LeastNumber
<1>5. PICK k \in 1..n : p \in About(which, l[k]) /\ x = n - k
  BY <1>4
<1>6. \A j \in 1..n : j > k => p \notin About(which, l[j])
  <2> SUFFICES ASSUME NEW j \in 1..n, j > k, p \in About(which, l[j]) PROVE FALSE
    OBVIOUS
  <2>1. n - j \in T
    OBVIOUS
  <2>2. n - k <= n - j
    BY <2>1, <1>4, <1>5
  <2> QED  BY <2>2, <1>1
<1>7. k \in LastAbout(which, l, p)
  BY <1>1, <1>5, <1>6 DEF LastAbout
<1> QED  BY <1>7

\* There is one last line.
LEMMA LastIsOne ==
    ASSUME NEW which, NEW l \in Seq(LogLine), NEW p, NEW i \in LastAbout(which, l, p)
    PROVE  (CHOOSE k \in LastAbout(which, l, p) : TRUE) = i
<1>1. PICK k : k = CHOOSE j \in LastAbout(which, l, p) : TRUE
  OBVIOUS
<1>2. k \in LastAbout(which, l, p)
  BY <1>1
<1>3. DOMAIN l \subseteq Nat
  OBVIOUS
<1> QED  BY <1>1, <1>2, <1>3 DEF LastAbout

\* What the last line says, or the snapshot if there is none.
LEMMA ReplayIs ==
    ASSUME NEW s, NEW l \in Seq(LogLine), NEW p \in Path
    PROVE  /\ LastAbout("log", l, p) = {} => (p \in Replay(s, l) <=> p \in s)
           /\ \A i \in LastAbout("log", l, p) : p \in Replay(s, l) <=> l[i].op = "+"
<1>1. LastAbout("log", l, p) = {} => (p \in Replay(s, l) <=> p \in s)
  BY DEF Replay
<1>2. ASSUME NEW i \in LastAbout("log", l, p) PROVE p \in Replay(s, l) <=> l[i].op = "+"
  BY LastIsOne DEF Replay
<1> QED  BY <1>1, <1>2

LEMMA ReplayTouchesIs ==
    ASSUME NEW r, NEW l \in Seq(LogLine), NEW p \in Path
    PROVE  /\ LastAbout("tlog", l, p) = {} => ReplayTouches(r, l)[p] = r[p]
           /\ \A i \in LastAbout("tlog", l, p) : ReplayTouches(r, l)[p] = l[i].rec
<1>1. LastAbout("tlog", l, p) = {} => ReplayTouches(r, l)[p] = r[p]
  BY DEF ReplayTouches
<1>2. ASSUME NEW i \in LastAbout("tlog", l, p) PROVE ReplayTouches(r, l)[p] = l[i].rec
  BY LastIsOne DEF ReplayTouches
<1> QED  BY <1>1, <1>2

\* A line is the last about its paths, and changes nothing about others.
LEMMA LastAppend ==
    ASSUME NEW which, NEW l \in Seq(LogLine), NEW x \in LogLine, NEW p
    PROVE  LastAbout(which, Append(l, x), p) =
              IF p \in About(which, x) THEN {Len(l) + 1} ELSE LastAbout(which, l, p)
<1> DEFINE m == Append(l, x)
<1>1. /\ Len(l) \in Nat /\ DOMAIN l = 1..Len(l) /\ DOMAIN m = 1..(Len(l) + 1)
      /\ m[Len(l) + 1] = x /\ \A i \in 1..Len(l) : m[i] = l[i]
  OBVIOUS
<1> HIDE DEF m
<1>2. \A i \in 1..(Len(l) + 1) : i = Len(l) + 1 \/ i \in 1..Len(l)
  BY <1>1
<1>3. \A i \in 1..Len(l) : Len(l) + 1 > i /\ i \in 1..(Len(l) + 1) /\ i # Len(l) + 1
  BY <1>1
<1>4. \A i \in 1..(Len(l) + 1) : ~(i > Len(l) + 1)
  BY <1>1
<1>5. Len(l) + 1 \in 1..(Len(l) + 1)
  BY <1>1
<1>6. CASE p \in About(which, x)
  BY <1>1, <1>2, <1>3, <1>4, <1>5, <1>6 DEF LastAbout, m
<1>7. CASE p \notin About(which, x)
  BY <1>1, <1>2, <1>3, <1>5, <1>7 DEF LastAbout, m
<1> QED  BY <1>6, <1>7

LEMMA ReplayAppend ==
    ASSUME NEW s, NEW l \in Seq(LogLine), NEW x \in LogLine, NEW p \in Path
    PROVE  p \in Replay(s, Append(l, x)) <=>
              IF p \in About("log", x) THEN x.op = "+" ELSE p \in Replay(s, l)
<1> DEFINE m == Append(l, x)
<1> SUFFICES p \in Replay(s, m) <=>
                IF p \in About("log", x) THEN x.op = "+" ELSE p \in Replay(s, l)
  OBVIOUS
<1>1. /\ m \in Seq(LogLine) /\ m[Len(l) + 1] = x
      /\ \A i \in LastAbout("log", l, p) : m[i] = l[i]
  BY DEF LastAbout
<1>2. LastAbout("log", m, p) = IF p \in About("log", x) THEN {Len(l) + 1} ELSE LastAbout("log", l, p)
  BY LastAppend
<1> HIDE DEF m
<1>3. CASE p \in About("log", x)
  BY <1>1, <1>2, <1>3, ReplayIs
<1>4. CASE p \notin About("log", x)
  BY <1>1, <1>2, <1>4, ReplayIs
<1> QED  BY <1>3, <1>4

LEMMA ReplayTouchesAppend ==
    ASSUME NEW r, NEW l \in Seq(LogLine), NEW x \in LogLine, NEW p \in Path
    PROVE  ReplayTouches(r, Append(l, x))[p] =
              IF p \in About("tlog", x) THEN x.rec ELSE ReplayTouches(r, l)[p]
<1> DEFINE m == Append(l, x)
<1> SUFFICES ReplayTouches(r, m)[p] =
                IF p \in About("tlog", x) THEN x.rec ELSE ReplayTouches(r, l)[p]
  OBVIOUS
<1>1. /\ m \in Seq(LogLine) /\ m[Len(l) + 1] = x
      /\ \A i \in LastAbout("tlog", l, p) : m[i] = l[i]
  BY DEF LastAbout
<1>2. LastAbout("tlog", m, p) = IF p \in About("tlog", x) THEN {Len(l) + 1} ELSE LastAbout("tlog", l, p)
  BY LastAppend
<1> HIDE DEF m
<1>3. CASE p \in About("tlog", x)
  BY <1>1, <1>2, <1>3, ReplayTouchesIs
<1>4. CASE p \notin About("tlog", x)
  BY <1>1, <1>2, <1>4, ReplayTouchesIs
<1> QED  BY <1>3, <1>4

----------------------------------------------------------------------------
(* Fused lines                                                             *)

\* Garbage is about no path.
LEMMA GarbledLine ==
    ASSUME NEW x \in LogLine
    PROVE  /\ Garbled(x) \in LogLine /\ Garbled(Garbled(x)) = Garbled(x)
           /\ \A which : About(which, Garbled(x)) = {}
           /\ Garbled(x).op # "junk" <=> x.op \in {"-", "void"}
BY DEF Garbled, LogLine, About

\* Fusing changes the last line only.
LEMMA FusedLog ==
    ASSUME NEW l \in Seq(LogLine), l # <<>>
    PROVE  /\ Len(l) \in Nat /\ Len(l) > 0 /\ l[Len(l)] \in LogLine
           /\ Fused(l) \in Seq(LogLine) /\ Fused(l) # <<>> /\ Len(Fused(l)) = Len(l)
           /\ Fused(l)[Len(l)] = Garbled(l[Len(l)])
           /\ \A i \in 1..Len(l) : i # Len(l) => Fused(l)[i] = l[i]
           /\ Fused(Fused(l)) = Fused(l)
<1>1. Len(l) \in Nat /\ Len(l) > 0 /\ l[Len(l)] \in LogLine
  OBVIOUS
<1>2. Garbled(l[Len(l)]) \in LogLine /\ Garbled(Garbled(l[Len(l)])) = Garbled(l[Len(l)])
  BY <1>1, GarbledLine
<1>3. /\ Fused(l) \in Seq(LogLine) /\ Len(Fused(l)) = Len(l)
      /\ Fused(l)[Len(l)] = Garbled(l[Len(l)])
      /\ \A i \in 1..Len(l) : i # Len(l) => Fused(l)[i] = l[i]
  BY <1>1, <1>2 DEF Fused
<1>4. Fused(l) # <<>>
  BY <1>1, <1>3, SMTT(30)
<1>5. Fused(Fused(l)) = Fused(l)
  BY <1>1, <1>2, <1>3 DEF Fused
<1> QED  BY <1>1, <1>3, <1>4, <1>5

\* A line to which the next is fused is as good as half a line.
LEMMA FusedAppend ==
    ASSUME NEW l \in Seq(LogLine), NEW x \in LogLine
    PROVE  /\ Append(l, x) \in Seq(LogLine) /\ Append(l, x) # <<>>
           /\ Fused(Append(l, x)) = Append(l, Garbled(x))
<1>1. Garbled(x) \in LogLine
  BY GarbledLine
<1> DEFINE m == Append(l, x)
           n == Append(l, Garbled(x))
<1>2. /\ m \in Seq(LogLine) /\ Len(m) = Len(l) + 1 /\ m[Len(l) + 1] = x
      /\ \A i \in 1..Len(l) : m[i] = l[i]
      /\ n \in Seq(LogLine) /\ Len(n) = Len(l) + 1 /\ n[Len(l) + 1] = Garbled(x)
      /\ \A i \in 1..Len(l) : n[i] = l[i]
      /\ Len(l) \in Nat
  BY <1>1
<1> HIDE DEF m, n
<1>3. m # <<>>
  BY <1>2
<1>4. /\ Fused(m) \in Seq(LogLine) /\ Len(Fused(m)) = Len(n)
      /\ \A i \in 1..Len(n) : Fused(m)[i] = n[i]
  BY <1>2, <1>3, FusedLog
<1>5. Fused(m) = n
  BY <1>2, <1>4
<1> QED  BY <1>2, <1>3, <1>5 DEF m, n

\* The paths that the last line is not about are not affected.
LEMMA LastFused ==
    ASSUME NEW which, NEW l \in Seq(LogLine), l # <<>>, NEW p, p \notin About(which, l[Len(l)])
    PROVE  /\ LastAbout(which, Fused(l), p) = LastAbout(which, l, p)
           /\ \A i \in LastAbout(which, l, p) : Fused(l)[i] = l[i]
<1>1. p \notin About(which, Fused(l)[Len(l)])
  BY FusedLog, GarbledLine
<1>2. DOMAIN Fused(l) = 1..Len(l) /\ DOMAIN l = 1..Len(l)
  BY FusedLog
<1> QED  BY <1>1, <1>2, FusedLog DEF LastAbout

LEMMA ReplayFused ==
    ASSUME NEW s, NEW l \in Seq(LogLine), l # <<>>, NEW p \in Path, p \notin About("log", l[Len(l)])
    PROVE  p \in Replay(s, Fused(l)) <=> p \in Replay(s, l)
BY FusedLog, LastFused, ReplayIs

LEMMA ReplayTouchesFused ==
    ASSUME NEW r, NEW l \in Seq(LogLine), l # <<>>, NEW p \in Path, p \notin About("tlog", l[Len(l)])
    PROVE  ReplayTouches(r, Fused(l))[p] = ReplayTouches(r, l)[p]
BY FusedLog, LastFused, ReplayTouchesIs

----------------------------------------------------------------------------
(* Migration                                                               *)

\* A finite set as a sequence has its elements, and no others.
LEMMA SetAsSequence ==
    ASSUME NEW S, IsFiniteSet(S)
    PROVE  /\ SetToSeq(S) \in Seq(S)
           /\ \A x \in S : \E i \in DOMAIN SetToSeq(S) : SetToSeq(S)[i] = x
<1> DEFINE n == Cardinality(S)
           f == SetToSeq(S)
<1>1. n \in Nat /\ \E g : g \in Bijection(1..n, S)
  BY FS_CardinalityType DEF ExistsBijection
<1>2. \E g \in [1..n -> S] : IsInjective(g)
  BY <1>1 DEF Bijection, Injection
<1>3. f \in [1..n -> S] /\ IsInjective(f)
  BY <1>2 DEF SetToSeq
<1>4. IsFiniteSet(1..n) /\ Cardinality(1..n) = n
  BY <1>1, FS_Interval
<1>5. f \in Surjection(1..n, S)
  BY <1>3, <1>4, FS_Injection DEF Injection
<1> QED  BY <1>1, <1>3, <1>5 DEF Surjection

\* m is k followed by l: the lines of l count first.
Joined(which, k, l, m) ==
    \A p :
        /\ \A i \in LastAbout(which, l, p) : \E j \in LastAbout(which, m, p) : m[j] = l[i]
        /\ LastAbout(which, l, p) = {} =>
              /\ LastAbout(which, m, p) = LastAbout(which, k, p)
              /\ \A i \in LastAbout(which, k, p) : m[i] = k[i]

\* Two logs in one.
LEMMA ConcatIs ==
    ASSUME NEW k \in Seq(LogLine), NEW l \in Seq(LogLine), NEW m, m = k \o l
    PROVE  /\ Len(k) \in Nat /\ Len(l) \in Nat /\ Len(m) = Len(k) + Len(l)
           /\ DOMAIN m = 1..(Len(k) + Len(l)) /\ DOMAIN k = 1..Len(k) /\ DOMAIN l = 1..Len(l)
           /\ \A i \in 1..Len(k) : m[i] = k[i]
           /\ \A i \in 1..Len(l) : m[Len(k) + i] = l[i]
           /\ m \in Seq(LogLine)
OBVIOUS

LEMMA LastConcat ==
    ASSUME NEW which, NEW k \in Seq(LogLine), NEW l \in Seq(LogLine)
    PROVE  Joined(which, k, l, k \o l)
<1> SUFFICES ASSUME NEW p
             PROVE  /\ \A i \in LastAbout(which, l, p) :
                          \E j \in LastAbout(which, k \o l, p) : (k \o l)[j] = l[i]
                    /\ LastAbout(which, l, p) = {} =>
                          /\ LastAbout(which, k \o l, p) = LastAbout(which, k, p)
                          /\ \A i \in LastAbout(which, k, p) : (k \o l)[i] = k[i]
  BY DEF Joined
<1> DEFINE m == k \o l
           a == Len(k)
           b == Len(l)
<1>1. /\ a \in Nat /\ b \in Nat /\ m \in Seq(LogLine) /\ DOMAIN m = 1..(a + b)
      /\ DOMAIN k = 1..a /\ DOMAIN l = 1..b
      /\ \A i \in 1..a : m[i] = k[i]
      /\ \A i \in 1..b : m[a + i] = l[i]
  BY ConcatIs
<1> HIDE DEF m, a, b
<1>2. \A j \in 1..(a + b) : j \in 1..a \/ \E i \in 1..b : j = a + i
  <2> TAKE j \in 1..(a + b)
  <2>1. j \in 1..a \/ (j - a \in 1..b /\ j = a + (j - a))
    BY <1>1
  <2> QED  BY <2>1
<1>3. \A i \in 1..a, j \in 1..b : a + j > i /\ ~(i > a + j)
  BY <1>1
<1>4. \A i, j \in 1..b : a + j > a + i <=> j > i
  BY <1>1
<1>5. (\A i \in 1..a : i \in 1..(a + b)) /\ (\A i \in 1..b : a + i \in 1..(a + b))
  BY <1>1
<1>6. ASSUME NEW i \in LastAbout(which, l, p)
      PROVE  a + i \in LastAbout(which, m, p) /\ m[a + i] = l[i]
  <2>1. i \in 1..b /\ p \in About(which, l[i]) /\ \A j \in 1..b : j > i => p \notin About(which, l[j])
    BY <1>1 DEF LastAbout
  <2>2. \A j \in 1..(a + b) : j > a + i => p \notin About(which, m[j])
    <3> SUFFICES ASSUME NEW j \in 1..(a + b), j > a + i PROVE p \notin About(which, m[j])
      OBVIOUS
    <3>1. j \notin 1..a
      BY <2>1, <1>3
    <3>2. PICK n \in 1..b : j = a + n
      BY <3>1, <1>2
    <3>3. n > i
      BY <3>2, <2>1, <1>4
    <3> QED  BY <3>2, <3>3, <2>1, <1>1
  <2> QED  BY <2>1, <2>2, <1>1, <1>5 DEF LastAbout
<1>7. ASSUME LastAbout(which, l, p) = {}
      PROVE  LastAbout(which, m, p) = LastAbout(which, k, p)
  <2>1. \A i \in 1..b : p \notin About(which, l[i])
    BY <1>7, <1>1, LastExists
  <2>2. \A i \in 1..b : p \notin About(which, m[a + i])
    BY <2>1, <1>1
  <2>3. \A i \in LastAbout(which, m, p) : i \in 1..a
    BY <2>2, <1>1, <1>2 DEF LastAbout
  <2>4. \A i \in 1..a : i \in LastAbout(which, m, p) <=> i \in LastAbout(which, k, p)
    <3> SUFFICES ASSUME NEW i \in 1..a
                 PROVE  i \in LastAbout(which, m, p) <=> i \in LastAbout(which, k, p)
      OBVIOUS
    <3>1. i \in LastAbout(which, m, p) <=>
             p \in About(which, m[i]) /\ \A j \in 1..(a + b) : j > i => p \notin About(which, m[j])
      BY <1>1, <1>5 DEF LastAbout
    <3>2. i \in LastAbout(which, k, p) <=>
             p \in About(which, k[i]) /\ \A j \in 1..a : j > i => p \notin About(which, k[j])
      BY <1>1 DEF LastAbout
    <3> QED  BY <3>1, <3>2, <2>2, <1>1, <1>2, <1>5
  <2>5. LastAbout(which, k, p) \subseteq 1..a
    BY <1>1 DEF LastAbout
  <2> QED  BY <2>3, <2>4, <2>5
<1>8. \A i \in LastAbout(which, k, p) : m[i] = k[i]
  BY <1>1 DEF LastAbout
<1> QED  BY <1>1, <1>6, <1>7, <1>8 DEF m, a, b

\* migrate_legacy_tombstones, before and after the snapshot is emptied: k
\* holds a line for every path of the snapshot.
LEMMA MigratedTombs ==
    ASSUME NEW s, NEW u \in SUBSET s, NEW k \in Seq(LogLine), NEW l \in Seq(LogLine), NEW p \in Path,
           NEW m \in Seq(LogLine),
           Joined("log", k, l, m),
           \A i \in DOMAIN k : k[i].op = "+" /\ k[i].path \in s,
           \A q \in s : \E i \in DOMAIN k : k[i].path = q
    PROVE  p \in Replay(u, m) <=> p \in Replay(s, l)
<1>2. \A i \in DOMAIN k : About("log", k[i]) = {k[i].path}
  BY DEF About
<1>3. CASE LastAbout("log", l, p) # {}
  <2>1. PICK i : i \in LastAbout("log", l, p)
    BY <1>3
  <2>2. PICK j : j \in LastAbout("log", m, p) /\ m[j] = l[i]
    BY <2>1 DEF Joined
  <2>3. (p \in Replay(u, m) <=> m[j].op = "+") /\ (p \in Replay(s, l) <=> l[i].op = "+")
    BY <2>1, <2>2, ReplayIs
  <2> QED  BY <2>2, <2>3
<1>4. CASE LastAbout("log", l, p) = {}
  <2>1. /\ LastAbout("log", m, p) = LastAbout("log", k, p)
        /\ \A i \in LastAbout("log", k, p) : m[i] = k[i]
    BY <1>4 DEF Joined
  <2>2. p \in Replay(s, l) <=> p \in s
    BY <1>4, ReplayIs
  <2>3. CASE p \in s
    <3>1. PICK i \in DOMAIN k : p \in About("log", k[i])
      BY <2>3, <1>2
    <3>2. PICK j : j \in LastAbout("log", k, p)
      BY <3>1, LastExists
    <3>3. j \in DOMAIN k /\ m[j].op = "+" /\ j \in LastAbout("log", m, p)
      BY <3>2, <2>1 DEF LastAbout
    <3>4. p \in Replay(u, m)
      BY <3>3, ReplayIs
    <3> QED  BY <3>4, <2>2, <2>3
  <2>4. CASE p \notin s
    <3>1. LastAbout("log", m, p) = {}
      BY <2>1, <2>4, <1>2 DEF LastAbout
    <3>2. p \notin Replay(u, m)
      BY <3>1, <2>4, ReplayIs
    <3> QED  BY <3>2, <2>2, <2>4
  <2> QED  BY <2>3, <2>4
<1> QED  BY <1>3, <1>4

\* migrate_legacy_touches, before and after the snapshot is emptied.
LEMMA MigratedRecords ==
    ASSUME NEW r \in Touches, NEW u \in {r, NoTouches},
           NEW k \in Seq(LogLine), NEW l \in Seq(LogLine), NEW p \in Path, NEW m \in Seq(LogLine),
           Joined("tlog", k, l, m),
           \A i \in DOMAIN k : k[i].op = "+" /\ k[i].path \in Touched(r) /\ k[i].rec = r[k[i].path],
           \A q \in Touched(r) : \E i \in DOMAIN k : k[i].path = q
    PROVE  ReplayTouches(u, m)[p] = ReplayTouches(r, l)[p]
<1>2. \A i \in DOMAIN k : About("tlog", k[i]) = {k[i].path}
  BY DEF About
<1>3. CASE LastAbout("tlog", l, p) # {}
  <2>1. PICK i : i \in LastAbout("tlog", l, p)
    BY <1>3
  <2>2. PICK j : j \in LastAbout("tlog", m, p) /\ m[j] = l[i]
    BY <2>1 DEF Joined
  <2>3. ReplayTouches(u, m)[p] = m[j].rec /\ ReplayTouches(r, l)[p] = l[i].rec
    BY <2>1, <2>2, ReplayTouchesIs
  <2> QED  BY <2>2, <2>3
<1>4. CASE LastAbout("tlog", l, p) = {}
  <2>1. /\ LastAbout("tlog", m, p) = LastAbout("tlog", k, p)
        /\ \A i \in LastAbout("tlog", k, p) : m[i] = k[i]
    BY <1>4 DEF Joined
  <2>2. ReplayTouches(r, l)[p] = r[p]
    BY <1>4, ReplayTouchesIs
  <2>3. CASE p \in Touched(r)
    <3>1. PICK i \in DOMAIN k : p \in About("tlog", k[i])
      BY <2>3, <1>2
    <3>2. PICK j : j \in LastAbout("tlog", k, p)
      BY <3>1, LastExists
    <3>3. j \in DOMAIN k /\ p \in About("tlog", k[j]) /\ m[j] = k[j] /\ j \in LastAbout("tlog", m, p)
      BY <3>2, <2>1 DEF LastAbout
    <3>4. m[j].rec = r[p]
      BY <3>3, <1>2
    <3>5. ReplayTouches(u, m)[p] = m[j].rec
      BY <3>3, ReplayTouchesIs
    <3> QED  BY <3>4, <3>5, <2>2
  <2>4. CASE p \notin Touched(r)
    <3>1. LastAbout("tlog", m, p) = {}
      BY <2>1, <2>4, <1>2 DEF LastAbout
    <3>2. ReplayTouches(u, m)[p] = u[p]
      BY <3>1, ReplayTouchesIs
    <3>3. u[p] = r[p]
      BY <2>4 DEF Touched, NoTouches
    <3> QED  BY <3>2, <3>3, <2>2
  <2> QED  BY <2>3, <2>4
<1> QED  BY <1>3, <1>4

\* m is k followed by l, line by line.
Concat(k, l, m) ==
    /\ Len(k) \in Nat /\ Len(l) \in Nat /\ Len(m) = Len(k) + Len(l)
    /\ DOMAIN m = 1..(Len(k) + Len(l)) /\ DOMAIN k = 1..Len(k) /\ DOMAIN l = 1..Len(l)
    /\ \A i \in 1..Len(k) : m[i] = k[i]
    /\ \A i \in 1..Len(l) : m[Len(k) + i] = l[i]
    /\ m \in Seq(LogLine)

\* Two logs in one can be loaded if both can.
LEMMA LoadableConcat ==
    ASSUME NEW k \in Seq(LogLine), NEW l \in Seq(LogLine), NEW m, Concat(k, l, m),
           \A i \in DOMAIN k : k[i].op = "+"
    PROVE  Loadable(m) <=> Loadable(l)
<1>2. \A i \in 1..Len(l) : Len(k) + i \in 1..(Len(k) + Len(l))
  BY DEF Concat
<1>3. \A j \in 1..(Len(k) + Len(l)) : j \in 1..Len(k) \/ \E i \in 1..Len(l) : j = Len(k) + i
  <2> TAKE j \in 1..(Len(k) + Len(l))
  <2>1. j \in 1..Len(k) \/ (j - Len(k) \in 1..Len(l) /\ j = Len(k) + (j - Len(k)))
    BY DEF Concat
  <2> QED  BY <2>1
<1>4. Loadable(m) => Loadable(l)
  BY <1>2 DEF Loadable, Concat
<1>5. ASSUME Loadable(l), NEW j \in DOMAIN m PROVE m[j].op # "junk"
  <2>1. CASE j \in 1..Len(k)
    BY <2>1 DEF Concat
  <2>2. CASE j \notin 1..Len(k)
    <3>1. PICK i \in 1..Len(l) : j = Len(k) + i
      BY <2>2, <1>3 DEF Concat
    <3>2. m[j] = l[i] /\ i \in DOMAIN l
      BY <3>1 DEF Concat
    <3> QED  BY <3>2, <1>5 DEF Loadable
  <2> QED  BY <2>1, <2>2
<1>6. Loadable(l) => Loadable(m)
  BY <1>5 DEF Loadable
<1> QED  BY <1>4, <1>6

\* The last line of two logs in one is that of the second.
LEMMA FusedConcat ==
    ASSUME NEW k \in Seq(LogLine), NEW l \in Seq(LogLine), l # <<>>,
           NEW m, Concat(k, l, m), NEW n, Concat(k, Fused(l), n)
    PROVE  m # <<>> /\ Fused(m) = n
<1>0. /\ Fused(l) \in Seq(LogLine) /\ Len(Fused(l)) = Len(l)
      /\ Fused(l)[Len(l)] = Garbled(l[Len(l)])
      /\ \A i \in 1..Len(l) : i # Len(l) => Fused(l)[i] = l[i]
  BY FusedLog
<1>1. /\ Len(k) \in Nat /\ Len(l) \in Nat /\ Len(l) > 0 /\ Len(m) = Len(k) + Len(l)
      /\ m \in Seq(LogLine) /\ n \in Seq(LogLine) /\ Len(n) = Len(m)
  BY <1>0, FusedLog DEF Concat
<1>2. m # <<>>
  BY <1>1
<1>3. /\ Fused(m) \in Seq(LogLine) /\ Len(Fused(m)) = Len(m)
      /\ Fused(m)[Len(m)] = Garbled(m[Len(m)])
      /\ \A i \in 1..Len(m) : i # Len(m) => Fused(m)[i] = m[i]
  BY <1>1, <1>2, FusedLog
<1>4. \A j \in 1..Len(k) : Fused(m)[j] = n[j]
  <2>1. \A j \in 1..Len(k) : j \in 1..Len(m) /\ j # Len(m)
    BY <1>1
  <2>2. \A j \in 1..Len(k) : m[j] = k[j] /\ n[j] = k[j]
    BY DEF Concat
  <2> QED  BY <1>3, <2>1, <2>2
<1>5. \A i \in 1..Len(l) : m[Len(k) + i] = l[i] /\ n[Len(k) + i] = Fused(l)[i]
  BY <1>0 DEF Concat
<1>6. \A i \in 1..Len(l) : Fused(m)[Len(k) + i] = n[Len(k) + i]
  <2> TAKE i \in 1..Len(l)
  <2>1. CASE i = Len(l)
    <3>1. m[Len(m)] = l[Len(l)] /\ n[Len(m)] = Fused(l)[Len(l)] /\ Len(k) + i = Len(m)
      BY <2>1, <1>1, <1>5
    <3> QED  BY <3>1, <1>0, <1>3
  <2>2. CASE i # Len(l)
    <3>1. Len(k) + i \in 1..Len(m) /\ Len(k) + i # Len(m)
      BY <2>2, <1>1
    <3> QED  BY <3>1, <2>2, <1>0, <1>3, <1>5
  <2> QED  BY <2>1, <2>2
<1>7. \A j \in 1..Len(m) : Fused(m)[j] = n[j]
  <2> TAKE j \in 1..Len(m)
  <2>1. CASE j \in 1..Len(k)
    BY <2>1, <1>4
  <2>2. CASE j \notin 1..Len(k)
    <3>1. j - Len(k) \in 1..Len(l) /\ j = Len(k) + (j - Len(k))
      BY <2>2, <1>1
    <3> QED  BY <3>1, <1>6
  <2> QED  BY <2>1, <2>2
<1>8. Fused(m) = n
  BY <1>1, <1>3, <1>7
<1> QED  BY <1>2, <1>8

LEMMA ConcatSeqs ==
    ASSUME NEW k \in Seq(LogLine), NEW l \in Seq(LogLine)
    PROVE  Concat(k, l, k \o l)
BY ConcatIs DEF Concat

\* What is read is not changed for the rest of the file.
LEMMA MigratedFile ==
    ASSUME NEW k \in Seq(LogLine), NEW l \in Seq(LogLine), \A i \in DOMAIN k : k[i].op = "+"
    PROVE  /\ k \o l \in Seq(LogLine) /\ (Loadable(k \o l) <=> Loadable(l))
           /\ l # <<>> => k \o l # <<>> /\ Fused(k \o l) = k \o Fused(l)
<1>1. Concat(k, l, k \o l)
  BY ConcatSeqs
<1>2. k \o l \in Seq(LogLine)
  BY <1>1 DEF Concat
<1>3. ASSUME l # <<>> PROVE k \o l # <<>> /\ Fused(k \o l) = k \o Fused(l)
  <2>1. Fused(l) \in Seq(LogLine)
    BY <1>3, FusedLog
  <2>2. Concat(k, Fused(l), k \o Fused(l))
    BY <2>1, ConcatSeqs
  <2> DEFINE m == k \o l
             n == k \o Fused(l)
  <2> SUFFICES m # <<>> /\ Fused(m) = n
    OBVIOUS
  <2>3. Concat(k, l, m) /\ Concat(k, Fused(l), n)
    BY <1>1, <2>2
  <2> HIDE DEF m, n
  <2> QED  BY <1>3, <2>3, FusedConcat
<1>4. Loadable(k \o l) <=> Loadable(l)
  <2> DEFINE m == k \o l
  <2> SUFFICES Loadable(m) <=> Loadable(l)
    OBVIOUS
  <2>1. Concat(k, l, m)
    BY <1>1
  <2> HIDE DEF m
  <2> QED  BY <2>1, LoadableConcat
<1> QED  BY <1>2, <1>3, <1>4

\* The lines that a migration writes.
LEMMA MigrationLines ==
    ASSUME Types
    PROVE  /\ \E k \in Seq(LogLine) :
                 /\ MigratedTombstones = k \o log
                 /\ \A i \in DOMAIN k : k[i].op = "+" /\ k[i].path \in snap
                 /\ \A q \in snap : \E i \in DOMAIN k : k[i].path = q
           /\ \E k \in Seq(LogLine) :
                 /\ MigratedTouches = k \o tlog
                 /\ \A i \in DOMAIN k : /\ k[i].op = "+" /\ k[i].path \in Touched(tsnap)
                                        /\ k[i].rec = tsnap[k[i].path]
                 /\ \A q \in Touched(tsnap) : \E i \in DOMAIN k : k[i].path = q
<1>1. ASSUME NEW S \in SUBSET Path, NEW X \in SUBSET LogLine, NEW f \in Surjection(S, X)
      PROVE  /\ SetToSeq(X) \in Seq(LogLine)
             /\ \A i \in DOMAIN SetToSeq(X) : SetToSeq(X)[i] \in X
             /\ \A x \in X : \E i \in DOMAIN SetToSeq(X) : SetToSeq(X)[i] = x
  <2>1. IsFiniteSet(S)
    BY PathAssumption, FS_Subset
  <2>2. IsFiniteSet(X)
    BY <2>1, FS_Surjection
  <2>3. SetToSeq(X) \in Seq(X) /\ \A x \in X : \E i \in DOMAIN SetToSeq(X) : SetToSeq(X)[i] = x
    BY <2>2, SetAsSequence
  <2>4. SetToSeq(X) \in Seq(LogLine) /\ \A i \in DOMAIN SetToSeq(X) : SetToSeq(X)[i] \in X
    BY <2>3
  <2> QED  BY <2>3, <2>4
<1>2. snap \in SUBSET Path /\ Touched(tsnap) \in SUBSET Path /\ tsnap \in Touches
  BY DEF Types, Touched
<1>3. \E k \in Seq(LogLine) :
         /\ MigratedTombstones = k \o log
         /\ \A i \in DOMAIN k : k[i].op = "+" /\ k[i].path \in snap
         /\ \A q \in snap : \E i \in DOMAIN k : k[i].path = q
  <2> DEFINE f == [q \in snap |-> Plus(q)]
             X == {f[q] : q \in snap}
             k == SetToSeq(X)
  <2>1. X \in SUBSET LogLine /\ f \in Surjection(snap, X)
    BY <1>2 DEF Plus, LogLine, Surjection
  <2>3. X = {Plus(q) : q \in snap}
    OBVIOUS
  <2>6. \A q \in snap : f[q].op = "+" /\ f[q].path = q /\ f[q] \in X
    BY DEF Plus
  <2>7. \A x \in X : \E q \in snap : x = f[q]
    OBVIOUS
  <2>5. MigratedTombstones = k \o log
    BY <2>3 DEF MigratedTombstones
  <2> HIDE DEF X, f
  <2>2. /\ k \in Seq(LogLine) /\ \A i \in DOMAIN k : k[i] \in X
        /\ \A x \in X : \E i \in DOMAIN k : k[i] = x
    BY <2>1, <1>1, <1>2
  <2> HIDE DEF k
  <2>8. \A i \in DOMAIN k : k[i].op = "+" /\ k[i].path \in snap
    BY <2>2, <2>6, <2>7
  <2>9. \A q \in snap : \E i \in DOMAIN k : k[i].path = q
    BY <2>2, <2>6
  <2> QED  BY <2>2, <2>5, <2>8, <2>9
<1>4. \E k \in Seq(LogLine) :
         /\ MigratedTouches = k \o tlog
         /\ \A i \in DOMAIN k : /\ k[i].op = "+" /\ k[i].path \in Touched(tsnap)
                                /\ k[i].rec = tsnap[k[i].path]
         /\ \A q \in Touched(tsnap) : \E i \in DOMAIN k : k[i].path = q
  <2> DEFINE S == Touched(tsnap)
             f == [q \in S |-> Record(q, tsnap[q])]
             X == {f[q] : q \in S}
             k == SetToSeq(X)
  <2>0. S \in SUBSET Path /\ \A q \in S : Record(q, tsnap[q]) \in LogLine
    BY <1>2 DEF Record, LogLine, Touches
  <2>1. X \in SUBSET LogLine /\ f \in Surjection(S, X)
    BY <2>0 DEF Surjection
  <2>3. X = {Record(q, tsnap[q]) : q \in S}
    OBVIOUS
  <2>6. \A q \in S : f[q].op = "+" /\ f[q].path = q /\ f[q].rec = tsnap[q] /\ f[q] \in X
    BY DEF Record
  <2>7. \A x \in X : \E q \in S : x = f[q]
    OBVIOUS
  <2>5. MigratedTouches = k \o tlog
    BY <2>3 DEF MigratedTouches
  <2> HIDE DEF X, f, S
  <2>2. /\ k \in Seq(LogLine) /\ \A i \in DOMAIN k : k[i] \in X
        /\ \A x \in X : \E i \in DOMAIN k : k[i] = x
    BY <2>0, <2>1, <1>1
  <2> HIDE DEF k
  <2>8. \A i \in DOMAIN k : k[i].op = "+" /\ k[i].path \in S /\ k[i].rec = tsnap[k[i].path]
    BY <2>2, <2>6, <2>7
  <2>9. \A q \in S : \E i \in DOMAIN k : k[i].path = q
    BY <2>2, <2>6
  <2> QED  BY <2>2, <2>5, <2>8, <2>9 DEF S
<1> QED  BY <1>3, <1>4
----------------------------------------------------------------------------
(* Appending a line                                                        *)

\* A log grows by a line, or its last line is spoilt.
LEMMA AppendedIs ==
    ASSUME NEW which, NEW l \in Seq(LogLine), NEW x \in LogLine, which \in open => l # <<>>
    PROVE  /\ Fuses(which, l) <=> which \in open
           /\ Appended(which, l, x) = IF which \in open THEN Fused(l) ELSE Append(l, x)
           /\ Appended(which, l, x) \in Seq(LogLine) /\ Appended(which, l, x) # <<>>
<1>1. Fuses(which, l) <=> which \in open
  BY DEF Fuses
<1>2. Appended(which, l, x) = IF which \in open THEN Fused(l) ELSE Append(l, x)
  BY <1>1 DEF Appended, Fused
<1>3. CASE which \in open
  BY <1>1, <1>2, <1>3, FusedLog
<1>4. CASE which \notin open
  BY <1>1, <1>2, <1>4, FusedAppend
<1> QED  BY <1>1, <1>2, <1>3, <1>4

LEMMA LoadableAppend ==
    ASSUME NEW l \in Seq(LogLine), NEW x \in LogLine
    PROVE  Loadable(Append(l, x)) <=> Loadable(l) /\ x.op # "junk"
<1> DEFINE m == Append(l, x)
<1> SUFFICES Loadable(m) <=> Loadable(l) /\ x.op # "junk"
  OBVIOUS
<1>1. /\ Len(l) \in Nat /\ DOMAIN l = 1..Len(l) /\ DOMAIN m = 1..(Len(l) + 1)
      /\ m[Len(l) + 1] = x /\ \A i \in 1..Len(l) : m[i] = l[i]
  OBVIOUS
<1> HIDE DEF m
<1>2. /\ \A i \in 1..(Len(l) + 1) : i = Len(l) + 1 \/ i \in 1..Len(l)
      /\ \A i \in 1..Len(l) : i \in 1..(Len(l) + 1)
      /\ Len(l) + 1 \in 1..(Len(l) + 1)
  BY <1>1
<1> QED  BY <1>1, <1>2 DEF Loadable

LEMMA LoadableFused ==
    ASSUME NEW l \in Seq(LogLine), l # <<>>, Loadable(Fused(l))
    PROVE  Loadable(l)
<1>1. DOMAIN l = 1..Len(l) /\ DOMAIN Fused(l) = 1..Len(l) /\ Len(l) \in 1..Len(l)
  BY FusedLog
<1>2. l[Len(l)].op # "junk"
  <2>1. Garbled(l[Len(l)]).op # "junk"
    BY <1>1, FusedLog, SMTT(30) DEF Loadable
  <2> QED  BY <2>1, FusedLog, GarbledLine
<1>3. \A i \in 1..Len(l) : i # Len(l) => l[i].op # "junk"
  BY <1>1, FusedLog DEF Loadable
<1> QED  BY <1>1, <1>2, <1>3 DEF Loadable

\* What is read has the types of what is kept in memory.
LEMMA ReplayType ==
    ASSUME NEW s \in SUBSET Path, NEW r \in Touches, NEW l \in Seq(LogLine)
    PROVE  Replay(s, l) \subseteq Path /\ ReplayTouches(r, l) \in Touches
<1>1. Replay(s, l) \subseteq Path
  BY DEF Replay
<1>2. ASSUME NEW p \in Path
      PROVE  ReplayTouches(r, l)[p] \in Touch \union {NoTouch}
  <2>1. CASE LastAbout("tlog", l, p) = {}
    BY <2>1, ReplayTouchesIs DEF Touches
  <2>2. CASE LastAbout("tlog", l, p) # {}
    <3>1. PICK i : i \in LastAbout("tlog", l, p)
      BY <2>2
    <3>2. l[i] \in LogLine
      BY <3>1 DEF LastAbout
    <3>3. l[i].rec \in Touch \union {NoTouch}
      BY <3>2 DEF LogLine
    <3> QED  BY <3>1, <3>3, ReplayTouchesIs
  <2> QED  BY <2>1, <2>2
<1>3. ReplayTouches(r, l) = [p \in Path |-> ReplayTouches(r, l)[p]]
  BY DEF ReplayTouches
<1> QED  BY <1>1, <1>2, <1>3 DEF Touches

LEMMA ReplayEmpty ==
    ASSUME NEW s, NEW r, NEW p \in Path
    PROVE  /\ p \in Replay(s, <<>>) <=> p \in s
           /\ ReplayTouches(r, <<>>)[p] = r[p]
<1>1. \A which : LastAbout(which, <<>>, p) = {}
  BY DEF LastAbout
<1>2. p \in Replay(s, <<>>) <=> p \in s
  BY <1>1 DEF Replay
<1>3. ReplayTouches(r, <<>>)[p] = r[p]
  BY <1>1 DEF ReplayTouches
<1> QED  BY <1>2, <1>3

\* A line of a log is about paths.
LEMMA AboutPaths ==
    ASSUME NEW which, NEW x \in LogLine
    PROVE  About(which, x) \subseteq Path
BY BelowAssumption DEF About, LogLine

LEMMA SpoiltPaths ==
    ASSUME NEW which, NEW l \in Seq(LogLine), NEW X \in SUBSET LogLine
    PROVE  /\ Spoilt(which, l, X) \subseteq Path
           /\ \A x \in X : About(which, x) \subseteq Spoilt(which, l, X)
           /\ Fuses(which, l) => About(which, l[Len(l)]) \subseteq Spoilt(which, l, X)
<1> DEFINE Y == X \union (IF Fuses(which, l) THEN {l[Len(l)]} ELSE {})
<1>1. Y \subseteq LogLine
  BY FusedLog DEF Fuses
<1>2. \A x \in X : x \in Y
  OBVIOUS
<1>3. Fuses(which, l) => l[Len(l)] \in Y
  OBVIOUS
<1>4. \A p : p \in Spoilt(which, l, X) <=> \E x \in Y : p \in About(which, x)
  BY DEF Spoilt
<1>5. \A x \in Y : About(which, x) \subseteq Path
  BY <1>1, AboutPaths
<1> HIDE DEF Y
<1>6. Spoilt(which, l, X) \subseteq Path
  BY <1>4, <1>5
<1>7. \A x \in X : About(which, x) \subseteq Spoilt(which, l, X)
  BY <1>2, <1>4
<1>8. Fuses(which, l) => About(which, l[Len(l)]) \subseteq Spoilt(which, l, X)
  BY <1>3, <1>4
<1> QED  BY <1>6, <1>7, <1>8

\* add_tombstone and remove_tombstone: a path that is not lost is what the
\* line says, or as before.
LEMMA TombAppended ==
    ASSUME Types, Filed, NEW x \in LogLine, x.op \in {"+", "-"}, AppendTomb(x), snap' = snap,
           NEW p \in Path, p \notin lost'
    PROVE  /\ p = x.path => (p \in Replay(snap', log') <=> x.op = "+") /\ (x.op = "-" => p \notin tombs')
           /\ p # x.path => p \notin lost /\ (p \in Replay(snap', log') <=> p \in Replay(snap, log))
<1>1. log \in Seq(LogLine) /\ ("log" \in open => log # <<>>)
  BY DEF Types, Filed
<1>2. /\ Fuses("log", log) <=> "log" \in open
      /\ log' = IF "log" \in open THEN Fused(log) ELSE Append(log, x)
  BY <1>1, AppendedIs DEF AppendTomb
<1>3. About("log", x) = {x.path}
  BY DEF About
<1>4. CASE "log" \in open
  <2>1. lost' = lost \union Spoilt("log", log, {x})
    BY <1>2, <1>4 DEF AppendTomb
  <2>2. About("log", x) \subseteq lost' /\ About("log", log[Len(log)]) \subseteq lost'
    BY <2>1, <1>1, <1>2, <1>4, SpoiltPaths
  <2>3. p # x.path /\ p \notin lost /\ p \notin About("log", log[Len(log)])
    BY <2>1, <2>2, <1>3
  <2>4. p \in Replay(snap, Fused(log)) <=> p \in Replay(snap, log)
    BY <2>3, <1>1, <1>4, ReplayFused
  <2> QED  BY <2>3, <2>4, <1>2, <1>4
<1>5. CASE "log" \notin open
  <2>1. lost' = (lost \ {x.path}) \union (IF x.op = "-" THEN {x.path} \intersect tombs' ELSE {})
    BY <1>2, <1>5 DEF AppendTomb
  <2>2. p \in Replay(snap, Append(log, x)) <=>
           IF p \in About("log", x) THEN x.op = "+" ELSE p \in Replay(snap, log)
    BY <1>1, ReplayAppend
  <2> QED  BY <2>1, <2>2, <1>2, <1>3, <1>5
<1> QED  BY <1>4, <1>5

\* The same for touch records.
LEMMA TouchAppended ==
    ASSUME Types, Filed, NEW x \in LogLine, x.op \in {"+", "-"}, AppendTouch(x), tsnap' = tsnap,
           NEW p \in Path, p \notin tlost'
    PROVE  /\ p \in About("tlog", x) => /\ ReplayTouches(tsnap', tlog')[p] = x.rec
                                        /\ x.op = "-" => p \notin Touched(touches')
           /\ p \notin About("tlog", x) => /\ p \notin tlost
                                           /\ ReplayTouches(tsnap', tlog')[p] = ReplayTouches(tsnap, tlog)[p]
<1>1. tlog \in Seq(LogLine) /\ ("tlog" \in open => tlog # <<>>)
  BY DEF Types, Filed
<1>2. /\ Fuses("tlog", tlog) <=> "tlog" \in open
      /\ tlog' = IF "tlog" \in open THEN Fused(tlog) ELSE Append(tlog, x)
  BY <1>1, AppendedIs DEF AppendTouch
<1>3. /\ x.op = "+" => About("tlog", x) = {x.path}
      /\ x.op = "-" => About("tlog", x) = Below[x.path]
      /\ x.path \in About("tlog", x)
  BY BelowAssumption DEF About, LogLine
<1>4. CASE "tlog" \in open
  <2>1. tlost' = tlost \union Spoilt("tlog", tlog, {x})
    BY <1>2, <1>4 DEF AppendTouch
  <2>2. About("tlog", x) \subseteq tlost' /\ About("tlog", tlog[Len(tlog)]) \subseteq tlost'
    BY <2>1, <1>1, <1>2, <1>4, SpoiltPaths
  <2>3. p \notin About("tlog", x) /\ p \notin tlost /\ p \notin About("tlog", tlog[Len(tlog)])
    BY <2>1, <2>2
  <2>4. ReplayTouches(tsnap, Fused(tlog))[p] = ReplayTouches(tsnap, tlog)[p]
    BY <2>3, <1>1, <1>4, ReplayTouchesFused
  <2> QED  BY <2>3, <2>4, <1>2, <1>4
<1>5. CASE "tlog" \notin open
  <2>1. tlost' = (tlost \ {x.path}) \union
                    (IF x.op = "-" THEN Touched(touches') \intersect Below[x.path] ELSE {})
    BY <1>2, <1>5 DEF AppendTouch
  <2>2. ReplayTouches(tsnap, Append(tlog, x))[p] =
           IF p \in About("tlog", x) THEN x.rec ELSE ReplayTouches(tsnap, tlog)[p]
    BY <1>1, ReplayTouchesAppend
  <2>3. p \notin About("tlog", x) => p \notin tlost
    BY <2>1, <1>3
  <2>4. x.op = "-" /\ p \in About("tlog", x) => p \notin Touched(touches')
    BY <2>1, <1>3
  <2> QED  BY <2>2, <2>3, <2>4, <1>2, <1>5
<1> QED  BY <1>4, <1>5

\* The files after a line of tombstones.log.
LEMMA TombAppendedFiles ==
    ASSUME Types, Filed, NEW x \in LogLine, x.op \in {"+", "-"}, AppendTomb(x)
    PROVE  /\ log' \in Seq(LogLine) /\ log' # <<>>
           /\ open' \subseteq {"log", "tlog"} /\ "log" \notin open' /\ ("tlog" \in open' <=> "tlog" \in open)
           /\ lost' \subseteq Path
<1>1. log \in Seq(LogLine) /\ ("log" \in open => log # <<>>) /\ lost \subseteq Path
  BY DEF Types, Filed
<1>2. log' \in Seq(LogLine) /\ log' # <<>>
  BY <1>1, AppendedIs DEF AppendTomb
<1>3. Spoilt("log", log, {x}) \subseteq Path
  <2>1. {x} \in SUBSET LogLine
    OBVIOUS
  <2> QED  BY <2>1, <1>1, SpoiltPaths
<1>4. lost' \subseteq Path
  <2>1. x.path \in Path
    BY DEF LogLine
  <2> QED  BY <2>1, <1>1, <1>3 DEF AppendTomb
<1>5. open' \subseteq {"log", "tlog"} /\ "log" \notin open' /\ ("tlog" \in open' <=> "tlog" \in open)
  BY DEF AppendTomb, Types
<1> QED  BY <1>2, <1>4, <1>5

LEMMA TouchAppendedFiles ==
    ASSUME Types, Filed, NEW x \in LogLine, x.op \in {"+", "-"}, AppendTouch(x)
    PROVE  /\ tlog' \in Seq(LogLine) /\ tlog' # <<>>
           /\ open' \subseteq {"log", "tlog"} /\ "tlog" \notin open' /\ ("log" \in open' <=> "log" \in open)
           /\ tlost' \subseteq Path
           /\ Loadable(tlog') => Loadable(tlog)
<1>1. tlog \in Seq(LogLine) /\ ("tlog" \in open => tlog # <<>>) /\ tlost \subseteq Path
  BY DEF Types, Filed
<1>2. tlog' \in Seq(LogLine) /\ tlog' # <<>>
      /\ tlog' = IF "tlog" \in open THEN Fused(tlog) ELSE Append(tlog, x)
  BY <1>1, AppendedIs DEF AppendTouch
<1>3. Spoilt("tlog", tlog, {x}) \subseteq Path
  <2>1. {x} \in SUBSET LogLine
    OBVIOUS
  <2> QED  BY <2>1, <1>1, SpoiltPaths
<1>4. tlost' \subseteq Path
  <2>1. x.path \in Path /\ Below[x.path] \subseteq Path
    BY BelowAssumption DEF LogLine
  <2> QED  BY <2>1, <1>1, <1>3 DEF AppendTouch
<1>5. open' \subseteq {"log", "tlog"} /\ "tlog" \notin open' /\ ("log" \in open' <=> "log" \in open)
  BY DEF AppendTouch, Types
<1>6. Loadable(tlog') => Loadable(tlog)
  BY <1>1, <1>2, LoadableAppend, LoadableFused
<1> QED  BY <1>2, <1>4, <1>5, <1>6

----------------------------------------------------------------------------
(* Threads and their lines                                                 *)

\* What a thread writes to tombstones.log.
LEMMA TombLines ==
    ASSUME Types, NEW t \in Thread
    PROVE  /\ TombLine(t) \in SUBSET LogLine
           /\ TombLine(t) # {} => pc[t].at \in {"tomb", "append"} /\ TouchLine(t) = {}
           /\ \A x \in TombLine(t) :
                 /\ x.op \in {"+", "-"} /\ x.rec = NoTouch /\ x.path \in Path
                 /\ pc[t].at = "tomb" => x.path = pc[t].path /\ (x.op = "+" <=> pc[t].op = "delete")
                 /\ pc[t].at = "append" => x.op = "-" /\ x.path \in pc[t].left
           /\ pc[t].at = "append" => \A q \in pc[t].left : \E x \in TombLine(t) : x.op = "-" /\ x.path = q
<1>1. pc[t] \in Threads
  BY DEF Types
<1>2. pc[t].path \in Path /\ pc[t].left \subseteq Path
  BY <1>1 DEF Threads
<1>3. \A q \in Path : Plus(q) \in LogLine /\ Minus(q) \in LogLine
  BY DEF Plus, Minus, LogLine
<1>4. \A q \in Path : /\ Plus(q).op = "+" /\ Plus(q).path = q /\ Plus(q).rec = NoTouch
                      /\ Minus(q).op = "-" /\ Minus(q).path = q /\ Minus(q).rec = NoTouch
  BY DEF Plus, Minus
<1>5. CASE pc[t].at = "tomb"
  <2>1. /\ pc[t].op = "delete" => \A x \in TombLine(t) : x = Plus(pc[t].path)
        /\ pc[t].op # "delete" => \A x \in TombLine(t) : x = Minus(pc[t].path)
    <3>1. CASE pc[t].op = "delete"
      BY <3>1, <1>5 DEF TombLine
    <3>2. CASE pc[t].op # "delete"
      BY <3>2, <1>5 DEF TombLine
    <3> QED  BY <3>1, <3>2
  <2>2. TouchLine(t) = {}
    BY <1>5 DEF TouchLine
  <2>3. \A x \in TombLine(t) : \/ x = Plus(pc[t].path) /\ pc[t].op = "delete"
                               \/ x = Minus(pc[t].path) /\ pc[t].op # "delete"
    BY <2>1
  <2> QED  BY <2>2, <2>3, <1>2, <1>3, <1>4, <1>5
<1>6. CASE pc[t].at = "append"
  <2>1. TombLine(t) = {Minus(q) : q \in pc[t].left}
    BY <1>6 DEF TombLine
  <2>2. TouchLine(t) = {}
    BY <1>6 DEF TouchLine
  <2>3. (\A x \in TombLine(t) : \E q \in pc[t].left : x = Minus(q)) /\ \A q \in pc[t].left : Minus(q) \in TombLine(t)
    BY <2>1
  <2> QED  BY <2>2, <2>3, <1>2, <1>3, <1>4, <1>6
<1>7. CASE pc[t].at \notin {"tomb", "append"}
  <2>1. TombLine(t) = {}
    BY <1>7 DEF TombLine
  <2> QED  BY <2>1, <1>7
<1> QED  BY <1>5, <1>6, <1>7

\* What a thread writes to touches.log.
LEMMA TouchLines ==
    ASSUME Types, NEW t \in Thread
    PROVE  /\ TouchLine(t) \in SUBSET LogLine
           /\ TouchLine(t) # {} => pc[t].at \in {"touch", "removal"} /\ TombLine(t) = {}
           /\ \A x \in TouchLine(t) :
                 /\ x.op \in {"+", "-"} /\ x.path = pc[t].path /\ x.path \in Path
                 /\ pc[t].at = "touch" => /\ x.op = "+" /\ touches[x.path] = NoTouch
                                          /\ x.rec = [base |-> basever, key |-> pc[t].op = "write"]
                                          /\ x.rec \in Touch
                 /\ pc[t].at = "removal" => x.op = "-" /\ x.rec = NoTouch
           /\ pc[t].at = "removal" => TouchLine(t) # {}
<1>1. pc[t] \in Threads /\ basever \in Version
  BY DEF Types
<1>2. pc[t].path \in Path
  BY <1>1 DEF Threads
<1>3. CASE pc[t].at = "touch"
  <2> DEFINE r == [base |-> basever, key |-> pc[t].op = "write"]
  <2>1. TouchLine(t) = IF touches[pc[t].path] = NoTouch THEN {Record(pc[t].path, r)} ELSE {}
    BY <1>3 DEF TouchLine
  <2>2. TombLine(t) = {}
    BY <1>3 DEF TombLine
  <2>3. r \in Touch
    BY <1>1 DEF Touch
  <2> HIDE DEF r
  <2>4. Record(pc[t].path, r) \in LogLine
    BY <2>3, <1>2 DEF Record, LogLine
  <2>5. Record(pc[t].path, r).op = "+" /\ Record(pc[t].path, r).path = pc[t].path /\ Record(pc[t].path, r).rec = r
    BY DEF Record
  <2> QED  BY <2>1, <2>2, <2>3, <2>4, <2>5, <1>2, <1>3 DEF r
<1>4. CASE pc[t].at = "removal"
  <2>1. TouchLine(t) = {Minus(pc[t].path)} /\ TombLine(t) = {}
    BY <1>4 DEF TouchLine, TombLine
  <2>2. /\ Minus(pc[t].path) \in LogLine /\ Minus(pc[t].path).op = "-"
        /\ Minus(pc[t].path).path = pc[t].path /\ Minus(pc[t].path).rec = NoTouch
    BY <1>2 DEF Minus, LogLine
  <2> QED  BY <2>1, <2>2, <1>2, <1>4
<1>5. CASE pc[t].at \notin {"touch", "removal"}
  <2>1. TouchLine(t) = {}
    BY <1>5 DEF TouchLine
  <2> QED  BY <2>1, <1>5
<1> QED  BY <1>3, <1>4, <1>5

\* A commit is alone.
LEMMA CommitAlone ==
    ASSUME Threaded, NEW t \in Thread, Busy(t), pc[t].at # "rewrite"
    PROVE  boot = "up" /\ \A u \in Thread : pc[u].at # "rewrite"
BY DEF Threaded

\* Nothing happens to the tombstones.
LEMMA TombsFrame ==
    ASSUME TombsKept, UNCHANGED <<boot, snap, log, tombs, lost>>,
           \A u \in Thread : pc[u].at \in {"rewrite", "append"} => pc'[u] = pc[u]
    PROVE  TombsKept'
BY DEF TombsKept

\* Nothing happens to the touch records.
LEMMA RecordsFrame ==
    ASSUME Records, UNCHANGED <<boot, tsnap, tlog, touches, tlost, content, bare>>,
           "tlog" \in open' => "tlog" \in open,
           \A u \in Thread : pc[u].at = "removal" => pc'[u] = pc[u]
    PROVE  Records'
<1>1. TouchesKept'
  BY DEF Records, TouchesKept
<1>2. MergeBaseKept'
  BY DEF Records, MergeBaseKept
<1>3. Held(tlog)' /\ ("tlog" \in open => Held(Fused(tlog)))'
  BY DEF Records, Held
<1> QED  BY <1>1, <1>2, <1>3 DEF Records

\* A thread goes on, or is done.
LEMMA GotoIs ==
    ASSUME Types, NEW t \in Thread, NEW at \in At, NEW left \in SUBSET Path, Goto(t, at, left)
    PROVE  /\ pc' \in [Thread -> Threads]
           /\ pc'[t].at = at /\ pc'[t].left = left /\ pc'[t].op = pc[t].op /\ pc'[t].path = pc[t].path
           /\ \A u \in Thread : u # t => pc'[u] = pc[u]
<1>1. pc \in [Thread -> Threads] /\ pc[t] \in Threads
  BY DEF Types
<1>2. pc[t].op \in Op /\ pc[t].path \in Path
  BY <1>1 DEF Threads
<1>3. pc'[t] = [pc[t] EXCEPT !.at = at, !.left = left]
  BY <1>1 DEF Goto
<1>4. \A u \in Thread : u # t => pc'[u] = pc[u]
  BY <1>1 DEF Goto
<1>5. /\ pc'[t].at = at /\ pc'[t].left = left /\ pc'[t].op = pc[t].op /\ pc'[t].path = pc[t].path
      /\ pc'[t] \in Threads
  BY <1>1, <1>2, <1>3 DEF Threads
<1>6. pc' \in [Thread -> Threads]
  BY <1>1, <1>4, <1>5 DEF Goto
<1> QED  BY <1>4, <1>5, <1>6

LEMMA IdleIs ==
    /\ Idle \in Threads /\ Idle.at = "idle" /\ Idle.left = {}
BY PathAssumption DEF Idle, Threads, At, Op

LEMMA FinishIs ==
    ASSUME Types, NEW t \in Thread, Finish(t)
    PROVE  /\ pc' \in [Thread -> Threads]
           /\ pc'[t].at = "idle" /\ pc'[t].left = {}
           /\ \A u \in Thread : u # t => pc'[u] = pc[u]
BY IdleIs DEF Types, Finish

\* A step of a thread that is not committing keeps the threads in order.
LEMMA ThreadedStep ==
    ASSUME Threaded, NEW t \in Thread, Busy(t), pc[t].at # "rewrite", boot' = boot,
           \A u \in Thread : u # t => pc'[u] = pc[u],
           pc'[t].at # "rewrite",
           pc'[t].at \in {"idle", "touch", "tomb", "untomb", "untouch"} => pc'[t].left = {},
           pc'[t].at \in {"append", "removal", "content"} => pc'[t].left \subseteq Below[pc'[t].path]
    PROVE  Threaded'
<1>1. boot = "up" /\ \A u \in Thread : pc[u].at # "rewrite"
  BY CommitAlone
<1>2. \A u \in Thread : pc'[u].at # "rewrite"
  BY <1>1
<1> QED  BY <1>1, <1>2 DEF Threaded, Busy

\* Nothing is migrated while the branch is up.
LEMMA UpIsMigrated ==
    ASSUME boot' \notin {"tsnap", "snap"}
    PROVE  Migrating'
BY DEF Migrating

----------------------------------------------------------------------------
(* Operations keep the invariant                                           *)

LEMMA StartKeeps ==
    ASSUME IInv, NEW t \in Thread, NEW op \in Op, NEW p \in Path, Start(t, op, p)
    PROVE  IInv'
<1> USE DEF IInv
<1> DEFINE th == [at |-> IF op = "revert" THEN "untomb" ELSE "touch", op |-> op, path |-> p, left |-> {}]
<1>1. /\ pc' = [pc EXCEPT ![t] = th] /\ boot = "up" /\ pc[t].at = "idle"
      /\ \A u \in Thread : Busy(u) => pc[u].op # "commit"
      /\ ops' = ops + 1 /\ ops < MaxOps
  BY DEF Start, Busy
<1>2. /\ tombs' = tombs /\ touches' = touches /\ snap' = snap /\ log' = log /\ tsnap' = tsnap
      /\ tlog' = tlog /\ content' = content /\ open' = open /\ meta' = meta /\ boot' = boot
      /\ basever' = basever /\ lost' = lost /\ tlost' = tlost /\ bare' = bare /\ faults' = faults
  BY DEF Start, memory, disk, tdisk, rdisk, ghosts
<1>3. th \in Threads /\ th.at \in {"untomb", "touch"} /\ th.left = {}
  BY DEF Threads, At
<1>4. pc \in [Thread -> Threads]
  BY DEF Types
<1> HIDE DEF th
<1>5. pc'[t] = th /\ \A u \in Thread : u # t => pc'[u] = pc[u]
  BY <1>1, <1>4
<1>6. pc' \in [Thread -> Threads]
  BY <1>1, <1>3, <1>4
<1>7. Types'
  <2>1. (ops \in 0..MaxOps)'
    BY <1>1, BoundAssumption DEF Types
  <2> QED  BY <2>1, <1>2, <1>6 DEF Types
<1>8. \A u \in Thread : pc[u].at # "rewrite" /\ pc'[u].at # "rewrite"
  BY <1>1, <1>3, <1>5 DEF Threaded, Busy
<1>9. Threaded'
  BY <1>1, <1>2, <1>3, <1>5, <1>8 DEF Threaded, Busy
<1>10. Filed'
  BY <1>2 DEF Filed
<1>11. TombsKept'
  BY <1>1, <1>2, <1>5, TombsFrame
<1>12. Records'
  BY <1>1, <1>2, <1>5, RecordsFrame
<1>13. Migrating'
  BY <1>1, <1>2, UpIsMigrated
<1> QED  BY <1>7, <1>9, <1>10, <1>11, <1>12, <1>13

LEMMA SetTombstoneKeeps ==
    ASSUME IInv, NEW t \in Thread, SetTombstone(t)
    PROVE  IInv'
<1> USE DEF IInv
<1>1. /\ pc[t].at = "tomb" /\ Finish(t) /\ Busy(t)
      /\ \/ TombLine(t) = {} /\ UNCHANGED <<tombs, log, open, lost>>
         \/ \E x \in TombLine(t) :
               /\ tombs' = IF x.op = "+" THEN tombs \union {x.path} ELSE tombs \ {x.path}
               /\ AppendTomb(x)
  BY DEF SetTombstone, Busy
<1>2. /\ touches' = touches /\ snap' = snap /\ tsnap' = tsnap
      /\ tlog' = tlog /\ content' = content /\ meta' = meta /\ boot' = boot
      /\ basever' = basever /\ tlost' = tlost /\ bare' = bare /\ ops' = ops /\ faults' = faults
  BY DEF SetTombstone, rdisk, bounds
<1>3. boot = "up" /\ \A u \in Thread : pc[u].at # "rewrite"
  BY <1>1, CommitAlone
<1>4. /\ pc' \in [Thread -> Threads] /\ pc'[t].at = "idle" /\ pc'[t].left = {}
      /\ \A u \in Thread : u # t => pc'[u] = pc[u]
  BY <1>1, FinishIs
<1>5. Threaded'
  BY <1>1, <1>2, <1>4, ThreadedStep
<1>6. Migrating'
  BY <1>2, <1>3, UpIsMigrated
<1>7. CASE TombLine(t) = {} /\ UNCHANGED <<tombs, log, open, lost>>
  <2>1. Types'
    BY <1>2, <1>4, <1>7 DEF Types
  <2>2. Filed'
    BY <1>2, <1>7 DEF Filed
  <2>3. TombsKept'
    BY <1>1, <1>2, <1>4, <1>7, TombsFrame
  <2>4. Records'
    BY <1>1, <1>2, <1>4, <1>7, RecordsFrame
  <2> QED  BY <2>1, <2>2, <2>3, <2>4, <1>5, <1>6
<1>8. ASSUME NEW x \in TombLine(t),
             tombs' = IF x.op = "+" THEN tombs \union {x.path} ELSE tombs \ {x.path},
             AppendTomb(x)
      PROVE  IInv'
  <2>1. x \in LogLine /\ x.op \in {"+", "-"} /\ x.path \in Path
    BY TombLines
  <2>2. /\ log' \in Seq(LogLine) /\ log' # <<>>
        /\ open' \subseteq {"log", "tlog"} /\ "log" \notin open' /\ ("tlog" \in open' <=> "tlog" \in open)
        /\ lost' \subseteq Path
    BY <2>1, <1>8, TombAppendedFiles
  <2>3. Types'
    BY <2>1, <2>2, <1>2, <1>4, <1>8 DEF Types
  <2>4. Filed'
    BY <2>2, <1>2 DEF Filed
  <2>5. TombsKept'
    <3> SUFFICES ASSUME NEW p \in Path, p \notin lost'
                 PROVE  \/ p \in Replay(snap', log') <=> p \in tombs'
                        \/ \E u \in Thread : pc'[u].at = "append" /\ p \in pc'[u].left
      BY DEF TombsKept
    <3>1. /\ p = x.path => (p \in Replay(snap', log') <=> x.op = "+") /\ (x.op = "-" => p \notin tombs')
          /\ p # x.path => p \notin lost /\ (p \in Replay(snap', log') <=> p \in Replay(snap, log))
      BY <2>1, <1>2, <1>8, TombAppended
    <3>2. CASE p = x.path
      BY <3>1, <3>2, <2>1, <1>8
    <3>3. CASE p # x.path
      <4>1. p \in tombs' <=> p \in tombs
        BY <3>3, <1>8
      <4>2. \/ p \in Replay(snap, log) <=> p \in tombs
            \/ \E u \in Thread : pc[u].at = "append" /\ p \in pc[u].left
        BY <3>1, <3>3, <1>3 DEF TombsKept
      <4>3. \A u \in Thread : pc[u].at = "append" => pc'[u] = pc[u]
        BY <1>1, <1>4
      <4> QED  BY <3>1, <3>3, <4>1, <4>2, <4>3
    <3> QED  BY <3>2, <3>3
  <2>6. Records'
    BY <2>2, <1>1, <1>2, <1>4, RecordsFrame
  <2> QED  BY <2>3, <2>4, <2>5, <2>6, <1>5, <1>6
<1> QED  BY <1>1, <1>7, <1>8

LEMMA RemoveTombstonesUnderKeeps ==
    ASSUME IInv, NEW t \in Thread, RemoveTombstonesUnder(t)
    PROVE  IInv'
<1> USE DEF IInv
<1> DEFINE gone == tombs \intersect Below[pc[t].path]
<1>1. pc[t].at = "untomb" /\ Busy(t) /\ tombs' = tombs \ gone /\ Goto(t, "append", gone)
  BY DEF RemoveTombstonesUnder, Busy
<1>2. /\ touches' = touches /\ snap' = snap /\ log' = log /\ tsnap' = tsnap
      /\ tlog' = tlog /\ content' = content /\ open' = open /\ meta' = meta /\ boot' = boot
      /\ basever' = basever /\ lost' = lost /\ tlost' = tlost /\ bare' = bare
      /\ ops' = ops /\ faults' = faults
  BY DEF RemoveTombstonesUnder, disk, tdisk, rdisk, ghosts, bounds
<1>3. boot = "up" /\ \A u \in Thread : pc[u].at # "rewrite"
  BY <1>1, CommitAlone
<1>4. gone \in SUBSET Path /\ "append" \in At /\ gone \subseteq Below[pc[t].path]
  BY DEF Types, At
<1> HIDE DEF gone
<1>5. /\ pc' \in [Thread -> Threads] /\ pc'[t].at = "append" /\ pc'[t].left = gone
      /\ pc'[t].left \subseteq Below[pc'[t].path]
      /\ \A u \in Thread : u # t => pc'[u] = pc[u]
  BY <1>1, <1>4, GotoIs
<1>6. Types'
  BY <1>1, <1>2, <1>5 DEF Types
<1>7. Threaded'
  BY <1>1, <1>2, <1>5, ThreadedStep
<1>8. Filed'
  BY <1>2 DEF Filed
<1>9. TombsKept'
  <2> SUFFICES ASSUME NEW p \in Path, p \notin lost'
               PROVE  \/ p \in Replay(snap', log') <=> p \in tombs'
                      \/ \E u \in Thread : pc'[u].at = "append" /\ p \in pc'[u].left
    BY DEF TombsKept
  <2>1. CASE p \in gone
    BY <2>1, <1>5
  <2>2. CASE p \notin gone
    <3>1. p \in tombs' <=> p \in tombs
      BY <2>2, <1>1
    <3>2. \/ p \in Replay(snap, log) <=> p \in tombs
          \/ \E u \in Thread : pc[u].at = "append" /\ p \in pc[u].left
      BY <1>2, <1>3 DEF TombsKept
    <3>3. \A u \in Thread : pc[u].at = "append" => pc'[u] = pc[u]
      BY <1>1, <1>5
    <3> QED  BY <3>1, <3>2, <3>3, <1>2
  <2> QED  BY <2>1, <2>2
<1>10. Records'
  BY <1>1, <1>2, <1>5, RecordsFrame
<1>11. Migrating'
  BY <1>2, <1>3, UpIsMigrated
<1> QED  BY <1>6, <1>7, <1>8, <1>9, <1>10, <1>11

LEMMA AppendRemovedKeeps ==
    ASSUME IInv, NEW t \in Thread, AppendRemoved(t)
    PROVE  IInv'
<1> USE DEF IInv
<1>1. /\ pc[t].at = "append" /\ Busy(t)
      /\ \/ \E x \in TombLine(t) : /\ tombs' = tombs /\ AppendTomb(x)
                                   /\ Goto(t, "append", pc[t].left \ {x.path})
         \/ pc[t].left = {} /\ Goto(t, "untouch", {}) /\ UNCHANGED <<tombs, log, open, lost>>
  BY DEF AppendRemoved, Busy
<1>2. /\ touches' = touches /\ snap' = snap /\ tsnap' = tsnap
      /\ tlog' = tlog /\ content' = content /\ meta' = meta /\ boot' = boot
      /\ basever' = basever /\ tlost' = tlost /\ bare' = bare /\ ops' = ops /\ faults' = faults
  BY DEF AppendRemoved, rdisk, bounds
<1>3. boot = "up" /\ \A u \in Thread : pc[u].at # "rewrite"
  BY <1>1, CommitAlone
<1>4. Migrating'
  BY <1>2, <1>3, UpIsMigrated
<1>5. pc[t].left \subseteq Path /\ {"append", "untouch"} \subseteq At
  BY DEF Types, Threads, At
<1>7. CASE pc[t].left = {} /\ Goto(t, "untouch", {}) /\ UNCHANGED <<tombs, log, open, lost>>
  <2>1. /\ pc' \in [Thread -> Threads] /\ pc'[t].at = "untouch" /\ pc'[t].left = {}
        /\ \A u \in Thread : u # t => pc'[u] = pc[u]
    BY <1>5, <1>7, GotoIs
  <2>2. Types'
    BY <2>1, <1>2, <1>7 DEF Types
  <2>3. Threaded'
    BY <2>1, <1>1, <1>2, ThreadedStep
  <2>4. Filed'
    BY <1>2, <1>7 DEF Filed
  <2>5. TombsKept'
    <3> SUFFICES ASSUME NEW p \in Path, p \notin lost'
                 PROVE  \/ p \in Replay(snap', log') <=> p \in tombs'
                        \/ \E u \in Thread : pc'[u].at = "append" /\ p \in pc'[u].left
      BY DEF TombsKept
    <3>1. \/ p \in Replay(snap, log) <=> p \in tombs
          \/ \E u \in Thread : pc[u].at = "append" /\ p \in pc[u].left
      BY <1>3, <1>7 DEF TombsKept
    <3>2. \A u \in Thread : p \in pc[u].left => pc'[u] = pc[u]
      BY <2>1, <1>7
    <3> QED  BY <3>1, <3>2, <1>2, <1>7
  <2>6. Records'
    BY <2>1, <1>1, <1>2, <1>7, RecordsFrame
  <2> QED  BY <2>2, <2>3, <2>4, <2>5, <2>6, <1>4
<1>8. ASSUME NEW x \in TombLine(t), tombs' = tombs, AppendTomb(x), Goto(t, "append", pc[t].left \ {x.path})
      PROVE  IInv'
  <2>1. x \in LogLine /\ x.op = "-" /\ x.path \in Path
    BY <1>1, TombLines
  <2>2. /\ log' \in Seq(LogLine) /\ log' # <<>>
        /\ open' \subseteq {"log", "tlog"} /\ "log" \notin open' /\ ("tlog" \in open' <=> "tlog" \in open)
        /\ lost' \subseteq Path
    BY <2>1, <1>8, TombAppendedFiles
  <2>3. PICK left \in SUBSET Path : left = pc[t].left \ {x.path}
    BY <1>5
  <2>4. /\ pc' \in [Thread -> Threads] /\ pc'[t].at = "append" /\ pc'[t].left = left
        /\ pc'[t].path = pc[t].path
        /\ \A u \in Thread : u # t => pc'[u] = pc[u]
    BY <2>3, <1>5, <1>8, GotoIs
  <2>5. Types'
    BY <2>2, <2>4, <1>2, <1>8 DEF Types
  <2>6. Threaded'
    <3>1. pc'[t].left \subseteq Below[pc'[t].path]
      BY <2>3, <2>4, <1>1 DEF Threaded
    <3> QED  BY <3>1, <2>4, <1>1, <1>2, ThreadedStep
  <2>7. Filed'
    BY <2>2, <1>2 DEF Filed
  <2>8. TombsKept'
    <3> SUFFICES ASSUME NEW p \in Path, p \notin lost'
                 PROVE  \/ p \in Replay(snap', log') <=> p \in tombs'
                        \/ \E u \in Thread : pc'[u].at = "append" /\ p \in pc'[u].left
      BY DEF TombsKept
    <3>1. /\ p = x.path => (p \in Replay(snap', log') <=> x.op = "+") /\ (x.op = "-" => p \notin tombs')
          /\ p # x.path => p \notin lost /\ (p \in Replay(snap', log') <=> p \in Replay(snap, log))
      BY <2>1, <1>2, <1>8, TombAppended
    <3>2. CASE p = x.path
      BY <3>1, <3>2, <2>1
    <3>3. CASE p # x.path
      <4>1. \/ p \in Replay(snap, log) <=> p \in tombs
            \/ \E u \in Thread : pc[u].at = "append" /\ p \in pc[u].left
        BY <3>1, <3>3, <1>3 DEF TombsKept
      <4>2. \A u \in Thread : pc[u].at = "append" /\ p \in pc[u].left => pc'[u].at = "append" /\ p \in pc'[u].left
        BY <2>3, <2>4, <3>3
      <4> QED  BY <3>1, <3>3, <4>1, <4>2, <1>8
    <3> QED  BY <3>2, <3>3
  <2>9. Records'
    BY <2>2, <2>4, <1>1, <1>2, RecordsFrame
  <2> QED  BY <2>5, <2>6, <2>7, <2>8, <2>9, <1>4
<1> QED  BY <1>1, <1>7, <1>8

\* What touches.log holds after a line.
LEMMA HeldAppended ==
    ASSUME Types, Filed, Records, NEW x \in LogLine, x.op \in {"+", "-"}, AppendTouch(x), tsnap' = tsnap,
           Loadable(tlog'), NEW p \in Path
    PROVE  /\ "tlog" \in open \/ p \notin About("tlog", x) =>
                 (ReplayTouches(tsnap', tlog')[p].key /\ p \notin bare
                    => content[p] = ReplayTouches(tsnap', tlog')[p].base)
           /\ "tlog" \notin open /\ p \in About("tlog", x) => ReplayTouches(tsnap', tlog')[p] = x.rec
<1>1. tlog \in Seq(LogLine) /\ ("tlog" \in open => tlog # <<>>)
  BY DEF Types, Filed
<1>2. tlog' = IF "tlog" \in open THEN Fused(tlog) ELSE Append(tlog, x)
  BY <1>1, AppendedIs DEF AppendTouch
<1>3. CASE "tlog" \in open
  <2>1. Held(Fused(tlog)) /\ tlog' = Fused(tlog)
    BY <1>2, <1>3 DEF Records
  <2> QED  BY <2>1, <1>3 DEF Held
<1>4. CASE "tlog" \notin open
  <2>1. ReplayTouches(tsnap, Append(tlog, x))[p] =
           IF p \in About("tlog", x) THEN x.rec ELSE ReplayTouches(tsnap, tlog)[p]
    BY <1>1, ReplayTouchesAppend
  <2>2. Loadable(tlog)
    BY <1>1, TouchAppendedFiles
  <2>3. Held(tlog)
    BY DEF Records
  <2> QED  BY <2>1, <2>2, <2>3, <1>2, <1>4 DEF Held
<1> QED  BY <1>3, <1>4

LEMMA RecordFirstTouchKeeps ==
    ASSUME IInv, NEW t \in Thread, RecordFirstTouch(t)
    PROVE  IInv'
<1> USE DEF IInv
<1>1. /\ pc[t].at = "touch" /\ Goto(t, "tomb", {}) /\ Busy(t)
      /\ \/ TouchLine(t) = {} /\ UNCHANGED <<touches, tlog, open, content, tlost, bare>>
         \/ \E x \in TouchLine(t) :
               /\ content' = IF x.rec.key THEN [content EXCEPT ![x.path] = basever] ELSE content
               /\ bare' = BareAfter(x)
               /\ touches' = [touches EXCEPT ![x.path] = x.rec]
               /\ AppendTouch(x)
  BY DEF RecordFirstTouch, Busy
<1>2. /\ tombs' = tombs /\ snap' = snap /\ log' = log /\ tsnap' = tsnap
      /\ meta' = meta /\ boot' = boot /\ basever' = basever /\ lost' = lost
      /\ ops' = ops /\ faults' = faults
  BY DEF RecordFirstTouch, tdisk, bounds
<1>3. boot = "up" /\ \A u \in Thread : pc[u].at # "rewrite"
  BY <1>1, CommitAlone
<1>4. Migrating'
  BY <1>2, <1>3, UpIsMigrated
<1>5. {} \in SUBSET Path /\ "tomb" \in At
  BY DEF At
<1>6. /\ pc' \in [Thread -> Threads] /\ pc'[t].at = "tomb" /\ pc'[t].left = {}
      /\ \A u \in Thread : u # t => pc'[u] = pc[u]
  BY <1>1, <1>5, GotoIs
<1>7. Threaded'
  BY <1>1, <1>2, <1>6, ThreadedStep
<1>8. TombsKept'
  BY <1>1, <1>2, <1>6, TombsFrame
<1>9. CASE TouchLine(t) = {} /\ UNCHANGED <<touches, tlog, open, content, tlost, bare>>
  <2>1. Types'
    BY <1>2, <1>6, <1>9 DEF Types
  <2>2. Filed'
    BY <1>2, <1>9 DEF Filed
  <2>3. Records'
    BY <1>1, <1>2, <1>6, <1>9, RecordsFrame
  <2> QED  BY <2>1, <2>2, <2>3, <1>4, <1>7, <1>8
<1>10. ASSUME NEW x \in TouchLine(t),
              content' = IF x.rec.key THEN [content EXCEPT ![x.path] = basever] ELSE content,
              bare' = BareAfter(x),
              touches' = [touches EXCEPT ![x.path] = x.rec],
              AppendTouch(x)
       PROVE  IInv'
  <2>1. /\ x \in LogLine /\ x.op = "+" /\ x.path \in Path /\ x.path = pc[t].path
        /\ x.rec \in Touch /\ x.rec.base = basever /\ x.rec.key \in BOOLEAN
    <3>1. /\ x \in LogLine /\ x.op = "+" /\ x.path \in Path /\ x.path = pc[t].path
          /\ x.rec \in Touch /\ x.rec = [base |-> basever, key |-> pc[t].op = "write"]
      BY <1>1, TouchLines
    <3> QED  BY <3>1
  <2>2. /\ tlog' \in Seq(LogLine) /\ tlog' # <<>>
        /\ open' \subseteq {"log", "tlog"} /\ "tlog" \notin open' /\ ("log" \in open' <=> "log" \in open)
        /\ tlost' \subseteq Path
        /\ Loadable(tlog') => Loadable(tlog)
    BY <2>1, <1>10, TouchAppendedFiles
  <2>3. About("tlog", x) = {x.path}
    BY <2>1 DEF About
  <2>4. /\ Fuses("tlog", tlog) <=> "tlog" \in open
        /\ \A p \in Path : p # x.path => content'[p] = content[p] /\ touches'[p] = touches[p]
        /\ x.rec.key => content'[x.path] = basever
        /\ ~x.rec.key => content' = content
        /\ touches'[x.path] = x.rec
    BY <2>1, <1>10 DEF Types, Filed, Fuses, Touches
  <2>5. /\ bare' \subseteq Path /\ \A p \in Path : p # x.path => (p \in bare' <=> p \in bare)
        /\ x.rec.key /\ "tlog" \in open => x.path \in bare'
        /\ ~x.rec.key => bare' = bare
    BY <2>1, <2>4, <1>10 DEF BareAfter, Types
  <2>6. Types'
    <3>1. touches' \in Touches
      BY <2>1, <1>10 DEF Types, Touches
    <3>2. content' \in [Path -> Version \union {NoContent}]
      BY <2>1, <1>10 DEF Types
    <3> QED  BY <3>1, <3>2, <2>2, <2>5, <1>2, <1>6 DEF Types
  <2>7. Filed'
    BY <2>2, <1>2 DEF Filed
  <2>8. TouchesKept'
    <3> SUFFICES ASSUME Loadable(tlog'), NEW p \in Path, p \notin tlost'
                 PROVE  \/ ReplayTouches(tsnap', tlog')[p] = touches'[p]
                        \/ \E u \in Thread :
                              /\ pc'[u].at = "removal" /\ p \in Below[pc'[u].path]
                              /\ ReplayTouches(tsnap', tlog')[p].key => p \in pc'[u].left
      BY DEF TouchesKept
    <3>1. /\ p \in About("tlog", x) => ReplayTouches(tsnap', tlog')[p] = x.rec
          /\ p \notin About("tlog", x) => /\ p \notin tlost
                                          /\ ReplayTouches(tsnap', tlog')[p] = ReplayTouches(tsnap, tlog)[p]
      BY <2>1, <1>2, <1>10, TouchAppended
    <3>2. CASE p = x.path
      BY <3>1, <3>2, <2>3, <2>4
    <3>3. CASE p # x.path
      <4>1. \/ ReplayTouches(tsnap, tlog)[p] = touches[p]
            \/ \E u \in Thread :
                  /\ pc[u].at = "removal" /\ p \in Below[pc[u].path]
                  /\ ReplayTouches(tsnap, tlog)[p].key => p \in pc[u].left
        BY <3>1, <3>3, <2>2, <2>3, <1>3 DEF Records, TouchesKept
      <4>2. \A u \in Thread : pc[u].at = "removal" => pc'[u] = pc[u]
        BY <1>1, <1>6
      <4> QED  BY <4>1, <4>2, <3>1, <3>3, <2>3, <2>4
    <3> QED  BY <3>2, <3>3
  <2>9. MergeBaseKept'
    <3> SUFFICES ASSUME NEW p \in Path, touches'[p].key, p \notin bare'
                 PROVE  content'[p] = touches'[p].base
      BY DEF MergeBaseKept
    <3>1. CASE p = x.path
      BY <3>1, <2>1, <2>4
    <3>2. CASE p # x.path
      BY <3>2, <2>4, <2>5, <1>3 DEF Records, MergeBaseKept
    <3> QED  BY <3>1, <3>2
  <2>10. Held(tlog)'
    <3> SUFFICES ASSUME Loadable(tlog'), NEW p \in Path, ReplayTouches(tsnap', tlog')[p].key, p \notin bare'
                 PROVE  content'[p] = ReplayTouches(tsnap', tlog')[p].base
      BY DEF Held
    <3>1. /\ "tlog" \in open \/ p \notin About("tlog", x) =>
                 (ReplayTouches(tsnap', tlog')[p].key /\ p \notin bare
                    => content[p] = ReplayTouches(tsnap', tlog')[p].base)
          /\ "tlog" \notin open /\ p \in About("tlog", x) => ReplayTouches(tsnap', tlog')[p] = x.rec
      BY <2>1, <1>2, <1>10, HeldAppended
    <3>2. CASE p # x.path
      BY <3>1, <3>2, <2>3, <2>4, <2>5
    <3>3. CASE p = x.path /\ "tlog" \in open
      BY <3>1, <3>3, <2>4, <2>5, <2>1
    <3>4. CASE p = x.path /\ "tlog" \notin open
      BY <3>1, <3>4, <2>1, <2>3, <2>4
    <3> QED  BY <3>2, <3>3, <3>4
  <2>11. Records'
    BY <2>2, <2>8, <2>9, <2>10 DEF Records
  <2> QED  BY <2>6, <2>7, <2>11, <1>4, <1>7, <1>8
<1> QED  BY <1>1, <1>9, <1>10

LEMMA RemoveTouchesUnderKeeps ==
    ASSUME IInv, NEW t \in Thread, RemoveTouchesUnder(t)
    PROVE  IInv'
<1> USE DEF IInv
<1> DEFINE gone == Touched(touches) \intersect Below[pc[t].path]
           keys == {p \in gone : touches[p].key}
<1>1. /\ pc[t].at = "untouch" /\ Busy(t)
      /\ touches' = [p \in Path |-> IF p \in gone THEN NoTouch ELSE touches[p]]
      /\ IF gone = {} THEN Finish(t) ELSE Goto(t, "removal", keys)
  BY DEF RemoveTouchesUnder, Busy
<1>2. /\ tombs' = tombs /\ snap' = snap /\ log' = log /\ tsnap' = tsnap
      /\ tlog' = tlog /\ content' = content /\ open' = open /\ meta' = meta /\ boot' = boot
      /\ basever' = basever /\ lost' = lost /\ tlost' = tlost /\ bare' = bare
      /\ ops' = ops /\ faults' = faults
  BY DEF RemoveTouchesUnder, disk, tdisk, rdisk, ghosts, bounds
<1>3. boot = "up" /\ \A u \in Thread : pc[u].at # "rewrite"
  BY <1>1, CommitAlone
<1>4. /\ gone \subseteq Below[pc[t].path] /\ keys \in SUBSET Path /\ keys \subseteq Below[pc[t].path]
      /\ \A p \in gone : touches[p].key => p \in keys
      /\ "removal" \in At
  BY DEF Touched, At
<1>5. NoTouch.key = FALSE
  BY DEF NoTouch
<1> HIDE DEF gone, keys
<1>6. /\ pc' \in [Thread -> Threads]
      /\ \A u \in Thread : u # t => pc'[u] = pc[u]
      /\ gone = {} => pc'[t].at = "idle" /\ pc'[t].left = {}
      /\ gone # {} => pc'[t].at = "removal" /\ pc'[t].left = keys /\ pc'[t].path = pc[t].path
  <2>1. CASE gone = {}
    BY <2>1, <1>1, FinishIs
  <2>2. CASE gone # {}
    BY <2>2, <1>1, <1>4, GotoIs
  <2> QED  BY <2>1, <2>2
<1>7. Types'
  <2>1. touches' \in Touches
    BY <1>1 DEF Types, Touches
  <2> QED  BY <2>1, <1>2, <1>6 DEF Types
<1>8. Threaded'
  BY <1>1, <1>2, <1>4, <1>6, ThreadedStep
<1>9. Filed'
  BY <1>2 DEF Filed
<1>10. TombsKept'
  BY <1>1, <1>2, <1>6, TombsFrame
<1>11. TouchesKept'
  <2> SUFFICES ASSUME Loadable(tlog'), NEW p \in Path, p \notin tlost'
               PROVE  \/ ReplayTouches(tsnap', tlog')[p] = touches'[p]
                      \/ \E u \in Thread :
                            /\ pc'[u].at = "removal" /\ p \in Below[pc'[u].path]
                            /\ ReplayTouches(tsnap', tlog')[p].key => p \in pc'[u].left
    BY DEF TouchesKept
  <2>1. \/ ReplayTouches(tsnap, tlog)[p] = touches[p]
        \/ \E u \in Thread :
              /\ pc[u].at = "removal" /\ p \in Below[pc[u].path]
              /\ ReplayTouches(tsnap, tlog)[p].key => p \in pc[u].left
    BY <1>2, <1>3 DEF Records, TouchesKept
  <2>2. \A u \in Thread : pc[u].at = "removal" => pc'[u] = pc[u]
    BY <1>1, <1>6
  <2>3. CASE \E u \in Thread :
                /\ pc[u].at = "removal" /\ p \in Below[pc[u].path]
                /\ ReplayTouches(tsnap, tlog)[p].key => p \in pc[u].left
    BY <2>2, <2>3, <1>2
  <2>4. CASE ReplayTouches(tsnap, tlog)[p] = touches[p] /\ p \in gone
    BY <2>4, <1>2, <1>4, <1>6
  <2>5. CASE ReplayTouches(tsnap, tlog)[p] = touches[p] /\ p \notin gone
    BY <2>5, <1>1, <1>2
  <2> QED  BY <2>1, <2>3, <2>4, <2>5
<1>12. MergeBaseKept'
  <2> SUFFICES ASSUME NEW p \in Path, touches'[p].key, p \notin bare'
               PROVE  content'[p] = touches'[p].base
    BY DEF MergeBaseKept
  <2>1. touches'[p] = touches[p]
    BY <1>1, <1>5
  <2> QED  BY <2>1, <1>2, <1>3 DEF Records, MergeBaseKept
<1>13. Records'
  BY <1>2, <1>11, <1>12 DEF Records, Held
<1>14. Migrating'
  BY <1>2, <1>3, UpIsMigrated
<1> QED  BY <1>7, <1>8, <1>9, <1>10, <1>13, <1>14

LEMMA AppendTouchRemovalKeeps ==
    ASSUME IInv, NEW t \in Thread, AppendTouchRemoval(t)
    PROVE  IInv'
<1> USE DEF IInv
<1>1. pc[t].at = "removal" /\ Busy(t) /\ Goto(t, "content", pc[t].left) /\ touches' = touches
  BY DEF AppendTouchRemoval, Busy
<1>2. PICK x \in TouchLine(t) : AppendTouch(x)
  BY DEF AppendTouchRemoval
<1>3. /\ tombs' = tombs /\ snap' = snap /\ log' = log /\ tsnap' = tsnap /\ content' = content
      /\ meta' = meta /\ boot' = boot /\ basever' = basever /\ lost' = lost /\ bare' = bare
      /\ ops' = ops /\ faults' = faults
  BY DEF AppendTouchRemoval, tdisk, bounds
<1>4. boot = "up" /\ \A u \in Thread : pc[u].at # "rewrite"
  BY <1>1, CommitAlone
<1>5. pc[t].left \in SUBSET Path /\ "content" \in At
  BY DEF Types, Threads, At
<1>6. /\ pc' \in [Thread -> Threads] /\ pc'[t].at = "content"
      /\ pc'[t].left = pc[t].left /\ pc'[t].path = pc[t].path
      /\ \A u \in Thread : u # t => pc'[u] = pc[u]
  BY <1>1, <1>5, GotoIs
<1>7. x \in LogLine /\ x.op = "-" /\ x.path \in Path /\ x.path = pc[t].path /\ x.rec = NoTouch
  BY <1>1, TouchLines
<1>8. /\ tlog' \in Seq(LogLine) /\ tlog' # <<>>
      /\ open' \subseteq {"log", "tlog"} /\ "tlog" \notin open' /\ ("log" \in open' <=> "log" \in open)
      /\ tlost' \subseteq Path
      /\ Loadable(tlog') => Loadable(tlog)
  BY <1>2, <1>7, TouchAppendedFiles
<1>9. About("tlog", x) = Below[pc[t].path]
  BY <1>7 DEF About
<1>10. Types'
  BY <1>1, <1>3, <1>6, <1>8 DEF Types
<1>11. Threaded'
  <2>1. pc'[t].left \subseteq Below[pc'[t].path]
    BY <1>1, <1>6 DEF Threaded
  <2> QED  BY <2>1, <1>1, <1>3, <1>6, ThreadedStep
<1>12. Filed'
  BY <1>3, <1>8 DEF Filed
<1>13. TombsKept'
  BY <1>1, <1>3, <1>6, TombsFrame
<1>14. TouchesKept'
  <2> SUFFICES ASSUME Loadable(tlog'), NEW p \in Path, p \notin tlost'
               PROVE  \/ ReplayTouches(tsnap', tlog')[p] = touches'[p]
                      \/ \E u \in Thread :
                            /\ pc'[u].at = "removal" /\ p \in Below[pc'[u].path]
                            /\ ReplayTouches(tsnap', tlog')[p].key => p \in pc'[u].left
    BY DEF TouchesKept
  <2>1. /\ p \in About("tlog", x) => ReplayTouches(tsnap', tlog')[p] = NoTouch /\ p \notin Touched(touches')
        /\ p \notin About("tlog", x) => /\ p \notin tlost
                                        /\ ReplayTouches(tsnap', tlog')[p] = ReplayTouches(tsnap, tlog)[p]
    BY <1>2, <1>3, <1>7, TouchAppended
  <2>2. CASE p \in Below[pc[t].path]
    BY <2>1, <2>2, <1>9 DEF Touched
  <2>3. CASE p \notin Below[pc[t].path]
    <3>1. \/ ReplayTouches(tsnap, tlog)[p] = touches[p]
          \/ \E u \in Thread :
                /\ pc[u].at = "removal" /\ p \in Below[pc[u].path]
                /\ ReplayTouches(tsnap, tlog)[p].key => p \in pc[u].left
      BY <2>1, <2>3, <1>4, <1>8, <1>9 DEF Records, TouchesKept
    <3>2. \A u \in Thread : p \in Below[pc[u].path] => pc'[u] = pc[u]
      BY <2>3, <1>6
    <3> QED  BY <3>1, <3>2, <2>1, <2>3, <1>1, <1>9
  <2> QED  BY <2>2, <2>3
<1>15. MergeBaseKept'
  BY <1>1, <1>3 DEF Records, MergeBaseKept
<1>16. Held(tlog)'
  <2> SUFFICES ASSUME Loadable(tlog'), NEW p \in Path, ReplayTouches(tsnap', tlog')[p].key, p \notin bare'
               PROVE  content'[p] = ReplayTouches(tsnap', tlog')[p].base
    BY DEF Held
  <2>1. /\ "tlog" \in open \/ p \notin About("tlog", x) =>
               (ReplayTouches(tsnap', tlog')[p].key /\ p \notin bare
                  => content[p] = ReplayTouches(tsnap', tlog')[p].base)
        /\ "tlog" \notin open /\ p \in About("tlog", x) => ReplayTouches(tsnap', tlog')[p] = x.rec
    BY <1>2, <1>3, <1>7, HeldAppended
  <2>2. NoTouch.key = FALSE
    BY DEF NoTouch
  <2> QED  BY <2>1, <2>2, <1>3, <1>7
<1>17. Records'
  BY <1>8, <1>14, <1>15, <1>16 DEF Records
<1>18. Migrating'
  BY <1>3, <1>4, UpIsMigrated
<1> QED  BY <1>10, <1>11, <1>12, <1>13, <1>17, <1>18

LEMMA RemoveContentKeeps ==
    ASSUME IInv, NEW t \in Thread, RemoveContent(t)
    PROVE  IInv'
<1> USE DEF IInv
<1>1. /\ pc[t].at = "content" /\ Busy(t)
      /\ \/ \E p \in pc[t].left :
               /\ content' = [content EXCEPT ![p] = NoContent] /\ bare' = bare \union {p}
               /\ Goto(t, "content", pc[t].left \ {p})
         \/ Finish(t) /\ content' = content /\ bare' = bare
  BY DEF RemoveContent, Busy
<1>2. /\ tombs' = tombs /\ touches' = touches /\ snap' = snap /\ log' = log /\ tsnap' = tsnap
      /\ tlog' = tlog /\ open' = open /\ meta' = meta /\ boot' = boot
      /\ basever' = basever /\ lost' = lost /\ tlost' = tlost
      /\ ops' = ops /\ faults' = faults
  BY DEF RemoveContent, memory, tdisk, bounds
<1>3. boot = "up" /\ \A u \in Thread : pc[u].at # "rewrite"
  BY <1>1, CommitAlone
<1>4. pc[t].left \subseteq Path /\ "content" \in At
  BY DEF Types, Threads, At
<1>5. /\ pc' \in [Thread -> Threads] /\ pc'[t].at \in {"content", "idle"}
      /\ pc'[t].at = "idle" => pc'[t].left = {}
      /\ pc'[t].at = "content" => pc'[t].left \subseteq Below[pc'[t].path]
      /\ \A u \in Thread : u # t => pc'[u] = pc[u]
  <2>1. ASSUME NEW p \in pc[t].left, Goto(t, "content", pc[t].left \ {p})
        PROVE  /\ pc' \in [Thread -> Threads] /\ pc'[t].at = "content"
               /\ pc'[t].left \subseteq Below[pc'[t].path]
               /\ \A u \in Thread : u # t => pc'[u] = pc[u]
    <3>1. PICK left \in SUBSET Path : left = pc[t].left \ {p}
      BY <1>4
    <3>2. /\ pc' \in [Thread -> Threads] /\ pc'[t].at = "content"
          /\ pc'[t].left = left /\ pc'[t].path = pc[t].path
          /\ \A u \in Thread : u # t => pc'[u] = pc[u]
      BY <3>1, <2>1, <1>4, GotoIs
    <3>3. pc[t].left \subseteq Below[pc[t].path]
      BY <1>1 DEF Threaded
    <3> QED  BY <3>1, <3>2, <3>3
  <2> QED  BY <2>1, <1>1, FinishIs
<1>6. /\ content' \in [Path -> Version \union {NoContent}] /\ bare' \subseteq Path /\ bare \subseteq bare'
      /\ \A p \in Path : p \notin bare' => content'[p] = content[p]
  <2>1. ASSUME NEW p \in pc[t].left,
               content' = [content EXCEPT ![p] = NoContent] /\ bare' = bare \union {p}
        PROVE  /\ content' \in [Path -> Version \union {NoContent}] /\ bare' \subseteq Path /\ bare \subseteq bare'
               /\ \A q \in Path : q \notin bare' => content'[q] = content[q]
    BY <2>1, <1>4 DEF Types
  <2>2. CASE content' = content /\ bare' = bare
    BY <2>2 DEF Types
  <2> QED  BY <2>1, <2>2, <1>1
<1>7. Types'
  BY <1>2, <1>5, <1>6 DEF Types
<1>8. Threaded'
  BY <1>1, <1>2, <1>5, ThreadedStep
<1>9. Filed'
  BY <1>2 DEF Filed
<1>10. TombsKept'
  BY <1>1, <1>2, <1>5, TombsFrame
<1>11. TouchesKept'
  <2>1. \A u \in Thread : pc[u].at = "removal" => pc'[u] = pc[u]
    BY <1>1, <1>5
  <2> QED  BY <2>1, <1>2 DEF Records, TouchesKept
<1>12. MergeBaseKept'
  BY <1>2, <1>6 DEF Records, MergeBaseKept
<1>13. Held(tlog)' /\ ("tlog" \in open => Held(Fused(tlog)))'
  BY <1>2, <1>6 DEF Records, Held
<1>14. Records'
  BY <1>11, <1>12, <1>13 DEF Records
<1>15. Migrating'
  BY <1>2, <1>3, UpIsMigrated
<1> QED  BY <1>7, <1>8, <1>9, <1>10, <1>14, <1>15

LEMMA SetTombstonesKeeps ==
    ASSUME IInv, NEW t \in Thread, NEW new \in SUBSET Path, SetTombstones(t, new)
    PROVE  IInv'
<1> USE DEF IInv
<1> DEFINE th == [Idle EXCEPT !.at = "rewrite", !.op = "commit", !.left = new]
<1>1. /\ boot = "up" /\ (\A u \in Thread : pc[u].at = "idle") /\ ops < MaxOps /\ ops' = ops + 1
      /\ tombs' = new /\ snap' = {} /\ pc' = [pc EXCEPT ![t] = th]
  BY DEF SetTombstones, Busy
<1>2. /\ touches' = touches /\ log' = log /\ tsnap' = tsnap
      /\ tlog' = tlog /\ content' = content /\ open' = open /\ meta' = meta /\ boot' = boot
      /\ basever' = basever /\ lost' = lost /\ tlost' = tlost /\ bare' = bare /\ faults' = faults
  BY DEF SetTombstones, rdisk, ghosts
<1>3. th \in Threads /\ th.at = "rewrite" /\ th.op = "commit" /\ th.left = new
  BY IdleIs DEF Threads, At, Op
<1>4. pc \in [Thread -> Threads]
  BY DEF Types
<1> HIDE DEF th
<1>5. pc'[t] = th /\ \A u \in Thread : u # t => pc'[u] = pc[u]
  BY <1>1, <1>4
<1>6. pc' \in [Thread -> Threads]
  BY <1>1, <1>3, <1>4
<1>7. Types'
  <2>1. (ops \in 0..MaxOps)'
    BY <1>1, BoundAssumption DEF Types
  <2> QED  BY <2>1, <1>1, <1>2, <1>6 DEF Types
<1>8. Threaded'
  <2>1. \A u \in Thread : u # t => pc'[u].at = "idle" /\ pc'[u].left = {}
    BY <1>1, <1>5 DEF Threaded
  <2> QED  BY <2>1, <1>1, <1>2, <1>3, <1>5 DEF Threaded, Busy
<1>9. Filed'
  BY <1>2 DEF Filed
<1>10. TombsKept'
  BY <1>3, <1>5 DEF TombsKept
<1>11. Records'
  BY <1>1, <1>2, <1>5, RecordsFrame
<1>12. Migrating'
  BY <1>1, <1>2, UpIsMigrated
<1> QED  BY <1>7, <1>8, <1>9, <1>10, <1>11, <1>12

LEMMA RewriteTombstonesKeeps ==
    ASSUME IInv, NEW t \in Thread, RewriteTombstones(t)
    PROVE  IInv'
<1> USE DEF IInv
<1>1. /\ pc[t].at = "rewrite"
      /\ \/ \E p \in pc[t].left :
               /\ snap' = snap \union {p} /\ Goto(t, "rewrite", pc[t].left \ {p})
               /\ log' = log /\ open' = open /\ lost' = lost
         \/ /\ pc[t].left = {} /\ log' = <<>> /\ open' = open \ {"log"} /\ lost' = {}
            /\ Finish(t) /\ snap' = snap
  BY DEF RewriteTombstones
<1>2. /\ tombs' = tombs /\ touches' = touches /\ tsnap' = tsnap
      /\ tlog' = tlog /\ content' = content /\ meta' = meta /\ boot' = boot
      /\ basever' = basever /\ tlost' = tlost /\ bare' = bare /\ ops' = ops /\ faults' = faults
  BY DEF RewriteTombstones, memory, rdisk, bounds
<1>3. /\ boot = "up" /\ pc[t].op = "commit" /\ snap \union pc[t].left = tombs
      /\ \A u \in Thread : u # t => pc[u].at = "idle"
  BY <1>1 DEF Threaded, Busy
<1>4. pc[t].left \subseteq Path /\ "rewrite" \in At
  BY DEF Types, Threads, At
<1>5. Migrating'
  BY <1>2, <1>3, UpIsMigrated
<1>6. ASSUME NEW p \in pc[t].left, snap' = snap \union {p}, Goto(t, "rewrite", pc[t].left \ {p}),
             log' = log, open' = open, lost' = lost
      PROVE  IInv'
  <2>1. PICK left \in SUBSET Path : left = pc[t].left \ {p}
    BY <1>4
  <2>2. /\ pc' \in [Thread -> Threads] /\ pc'[t].at = "rewrite" /\ pc'[t].left = left /\ pc'[t].op = pc[t].op
        /\ \A u \in Thread : u # t => pc'[u] = pc[u]
    BY <2>1, <1>4, <1>6, GotoIs
  <2>3. Types'
    BY <2>2, <1>2, <1>4, <1>6 DEF Types
  <2>4. Threaded'
    <3>1. snap' \union pc'[t].left = tombs'
      BY <2>1, <2>2, <1>2, <1>3, <1>6
    <3>2. \A u \in Thread : u # t => pc'[u].at = "idle" /\ pc'[u].left = {}
      BY <2>2, <1>3 DEF Threaded
    <3> QED  BY <3>1, <3>2, <2>2, <1>2, <1>3 DEF Threaded, Busy
  <2>5. Filed'
    BY <1>2, <1>6 DEF Filed
  <2>6. TombsKept'
    BY <2>2 DEF TombsKept
  <2>7. Records'
    BY <2>2, <1>1, <1>2, <1>6, RecordsFrame
  <2> QED  BY <2>3, <2>4, <2>5, <2>6, <2>7, <1>5
<1>7. ASSUME pc[t].left = {}, log' = <<>>, open' = open \ {"log"}, lost' = {}, Finish(t), snap' = snap
      PROVE  IInv'
  <2>1. /\ pc' \in [Thread -> Threads] /\ pc'[t].at = "idle" /\ pc'[t].left = {}
        /\ \A u \in Thread : u # t => pc'[u] = pc[u]
    BY <1>7, FinishIs
  <2>2. Types'
    BY <2>1, <1>2, <1>7 DEF Types
  <2>3. \A u \in Thread : pc'[u].at = "idle" /\ pc'[u].left = {}
    BY <2>1, <1>3 DEF Threaded
  <2>4. Threaded'
    BY <2>3 DEF Threaded, Busy
  <2>5. Filed'
    BY <1>2, <1>7 DEF Filed
  <2>6. TombsKept'
    <3>1. \A p \in Path : p \in Replay(snap, <<>>) <=> p \in snap
      BY ReplayEmpty
    <3> QED  BY <3>1, <1>2, <1>3, <1>7 DEF TombsKept
  <2>7. Records'
    BY <2>1, <1>1, <1>2, <1>7, RecordsFrame
  <2> QED  BY <2>2, <2>4, <2>5, <2>6, <2>7, <1>5
<1> QED  BY <1>1, <1>6, <1>7

LEMMA RewriteFailsKeeps ==
    ASSUME IInv, NEW t \in Thread, RewriteFails(t)
    PROVE  IInv'
<1> USE DEF IInv
<1>1. /\ boot = "up" /\ pc[t].at = "rewrite" /\ Finish(t) /\ faults < MaxFaults /\ faults' = faults + 1
      /\ lost' = lost \union Unwritten(tombs)
  BY DEF RewriteFails, Fault
<1>2. /\ tombs' = tombs /\ touches' = touches /\ snap' = snap /\ log' = log /\ tsnap' = tsnap
      /\ tlog' = tlog /\ content' = content /\ open' = open /\ meta' = meta /\ boot' = boot
      /\ basever' = basever /\ tlost' = tlost /\ bare' = bare /\ ops' = ops
  BY DEF RewriteFails, memory, disk, tdisk, rdisk
<1>3. \A u \in Thread : u # t => pc[u].at = "idle"
  BY <1>1 DEF Threaded, Busy
<1>4. /\ pc' \in [Thread -> Threads] /\ pc'[t].at = "idle" /\ pc'[t].left = {}
      /\ \A u \in Thread : u # t => pc'[u] = pc[u]
  BY <1>1, FinishIs
<1>5. \A u \in Thread : pc'[u].at = "idle" /\ pc'[u].left = {}
  BY <1>3, <1>4 DEF Threaded
<1>6. Types'
  <2>1. (faults \in 0..MaxFaults)'
    BY <1>1, BoundAssumption DEF Types
  <2>2. lost' \subseteq Path
    BY <1>1 DEF Types, Unwritten
  <2> QED  BY <2>1, <2>2, <1>2, <1>4 DEF Types
<1>7. Threaded'
  BY <1>5 DEF Threaded, Busy
<1>8. Filed'
  BY <1>2 DEF Filed
<1>9. TombsKept'
  BY <1>1, <1>2 DEF TombsKept, Unwritten
<1>10. Records'
  BY <1>1, <1>2, <1>4, RecordsFrame
<1>11. Migrating'
  BY <1>1, <1>2, UpIsMigrated
<1> QED  BY <1>6, <1>7, <1>8, <1>9, <1>10, <1>11

LEMMA SetTombstonesFailsKeeps ==
    ASSUME IInv, NEW new \in SUBSET Path, SetTombstonesFails(new)
    PROVE  IInv'
<1> USE DEF IInv
<1>1. /\ boot = "up" /\ (\A u \in Thread : pc[u].at = "idle") /\ ops < MaxOps /\ ops' = ops + 1
      /\ faults < MaxFaults /\ faults' = faults + 1
      /\ tombs' = new /\ lost' = lost \union Unwritten(new)
  BY DEF SetTombstonesFails, Fault, Busy
<1>2. /\ touches' = touches /\ snap' = snap /\ log' = log /\ tsnap' = tsnap
      /\ tlog' = tlog /\ content' = content /\ open' = open /\ meta' = meta /\ boot' = boot
      /\ pc' = pc /\ basever' = basever /\ tlost' = tlost /\ bare' = bare
  BY DEF SetTombstonesFails, disk, tdisk, rdisk
<1>3. Types'
  <2>1. (ops \in 0..MaxOps)' /\ (faults \in 0..MaxFaults)'
    BY <1>1, BoundAssumption DEF Types
  <2>2. lost' \subseteq Path
    BY <1>1 DEF Types, Unwritten
  <2> QED  BY <2>1, <2>2, <1>1, <1>2 DEF Types
<1>4. Threaded'
  BY <1>1, <1>2 DEF Threaded, Busy
<1>5. Filed'
  BY <1>2 DEF Filed
<1>6. TombsKept'
  BY <1>1, <1>2 DEF TombsKept, Unwritten
<1>7. Records'
  BY <1>2, RecordsFrame
<1>8. Migrating'
  BY <1>1, <1>2, UpIsMigrated
<1> QED  BY <1>3, <1>4, <1>5, <1>6, <1>7, <1>8

LEMMA BaseChangesKeeps ==
    ASSUME IInv, BaseChanges
    PROVE  IInv'
<1> USE DEF IInv
<1>1. /\ basever < MaxBase /\ basever' = basever + 1
      /\ tombs' = tombs /\ touches' = touches /\ snap' = snap /\ log' = log /\ tsnap' = tsnap
      /\ tlog' = tlog /\ content' = content /\ open' = open /\ meta' = meta /\ boot' = boot /\ pc' = pc
      /\ lost' = lost /\ tlost' = tlost /\ bare' = bare /\ ops' = ops /\ faults' = faults
  BY DEF BaseChanges, memory, disk, tdisk, rdisk, ghosts, bounds
<1>2. (basever \in Version)'
  BY <1>1, BoundAssumption DEF Types, Version
<1>3. Types'
  BY <1>1, <1>2 DEF Types
<1>4. Threaded' /\ Filed'
  BY <1>1 DEF Threaded, Filed, Busy
<1>5. TombsKept'
  BY <1>1, TombsFrame
<1>6. Records'
  BY <1>1, RecordsFrame
<1>7. Migrating'
  BY <1>1 DEF Migrating
<1> QED  BY <1>3, <1>4, <1>5, <1>6, <1>7

\* With an empty log and no content key in the snapshot there is nothing to hold.
LEMMA HeldNothing ==
    ASSUME \A p \in Path : ~tsnap'[p].key, tlog' = <<>>, "tlog" \notin open', boot' # "up"
    PROVE  Records'
<1>1. \A p \in Path : ReplayTouches(tsnap', <<>>)[p] = tsnap'[p]
  BY ReplayEmpty
<1>2. Held(tlog)'
  BY <1>1 DEF Held
<1> QED  BY <1>2 DEF Records, TouchesKept, MergeBaseKept

\* Nothing is in memory until the branch is loaded.
LEMMA NoTouchesType ==
    /\ NoTouches \in Touches
    /\ \A p \in Path : ~NoTouches[p].key
    /\ [p \in Path |-> NoContent] \in [Path -> Version \union {NoContent}]
BY DEF NoTouches, Touches, NoTouch

LEMMA RemoveBranchKeeps ==
    ASSUME IInv, RemoveBranch
    PROVE  IInv'
<1> USE DEF IInv
<1>1. /\ (\A t \in Thread : pc[t].at = "idle") /\ ops < MaxOps /\ ops' = ops + 1
      /\ boot' = "absent" /\ tombs' = {} /\ touches' = NoTouches
      /\ snap' = {} /\ log' = <<>> /\ tsnap' = NoTouches /\ tlog' = <<>>
      /\ open' = {} /\ content' = [p \in Path |-> NoContent] /\ meta' = FALSE
      /\ lost' = {} /\ tlost' = {} /\ bare' = {}
      /\ pc' = pc /\ basever' = basever /\ faults' = faults
  BY DEF RemoveBranch, Busy
<1>2. (ops \in 0..MaxOps)'
  BY <1>1, BoundAssumption DEF Types
<1>3. Types'
  <2>1. <<>> \in Seq(LogLine)
    OBVIOUS
  <2>2. touches' \in Touches /\ tsnap' \in Touches /\ content' \in [Path -> Version \union {NoContent}]
    BY <1>1, NoTouchesType
  <2> QED  BY <2>1, <2>2, <1>1, <1>2 DEF Types
<1>4. Threaded'
  BY <1>1 DEF Threaded, Busy
<1>5. Filed'
  BY <1>1, NoTouchesType DEF Filed
<1>6. TombsKept'
  BY <1>1 DEF TombsKept
<1>7. Records'
  BY <1>1, NoTouchesType, HeldNothing
<1>8. Migrating'
  BY <1>1, UpIsMigrated
<1> QED  BY <1>3, <1>4, <1>5, <1>6, <1>7, <1>8

\* What Branch::load and Branch::new read is what they keep.
LEMMA LoadedKeeps ==
    ASSUME IInv, boot # "up", boot' = "up", Loadable(tlog), tombs' = Replay(snap, log),
           touches' = ReplayTouches(tsnap, tlog), pc' = pc, open' = open,
           UNCHANGED <<snap, log, tsnap, tlog, content, lost, tlost, bare>>
    PROVE  /\ tombs' \subseteq Path /\ touches' \in Touches
           /\ Threaded' /\ TombsKept' /\ Records' /\ Migrating'
<1> USE DEF IInv
<1>1. tombs' \subseteq Path /\ touches' \in Touches
  BY ReplayType DEF Types
<1>2. \A t \in Thread : pc[t].at = "idle"
  BY DEF Threaded, Busy
<1>3. Threaded'
  BY <1>2 DEF Threaded, Busy
<1>4. TombsKept'
  BY DEF TombsKept
<1>5. TouchesKept'
  BY DEF TouchesKept
<1>6. MergeBaseKept'
  BY DEF Records, MergeBaseKept, Held
<1>7. Held(tlog)' /\ ("tlog" \in open => Held(Fused(tlog)))'
  BY DEF Records, Held
<1>8. Migrating'
  BY UpIsMigrated
<1> QED  BY <1>1, <1>3, <1>4, <1>5, <1>6, <1>7, <1>8 DEF Records

LEMMA CreateBranchKeeps ==
    ASSUME IInv, CreateBranch
    PROVE  IInv'
<1> USE DEF IInv
<1>1. /\ boot = "absent" /\ ops < MaxOps /\ ops' = ops + 1 /\ Loadable(tlog) /\ boot' = "up"
      /\ tombs' = Replay(snap, log) /\ touches' = ReplayTouches(tsnap, tlog) /\ meta' = TRUE
      /\ snap' = snap /\ log' = log /\ tsnap' = tsnap /\ tlog' = tlog /\ content' = content
      /\ open' = open /\ pc' = pc /\ basever' = basever /\ faults' = faults
      /\ lost' = lost /\ tlost' = tlost /\ bare' = bare
  BY DEF CreateBranch, tdisk, rdisk, ghosts
<1>2. /\ tombs' \subseteq Path /\ touches' \in Touches
      /\ Threaded' /\ TombsKept' /\ Records' /\ Migrating'
  BY <1>1, LoadedKeeps
<1>3. (ops \in 0..MaxOps)'
  BY <1>1, BoundAssumption DEF Types
<1>4. Types'
  BY <1>1, <1>2, <1>3 DEF Types
<1>5. Filed'
  BY <1>1 DEF Filed
<1> QED  BY <1>2, <1>4, <1>5

----------------------------------------------------------------------------
(* Failed writes and crashes                                               *)

\* What a write cut short leaves.
LEMMA TornIs ==
    ASSUME NEW which, NEW l \in Seq(LogLine), NEW x \in LogLine, which \in open => l # <<>>,
           NEW torn \in TornLog(which, l, x)
    PROVE  \/ torn.l = l /\ (torn.open <=> which \in open)
           \/ which \in open /\ torn.l = Fused(l) /\ torn.open = TRUE
           \/ which \notin open /\ torn.l = Append(l, Garbled(x)) /\ torn.open = TRUE
           \/ which \notin open /\ torn.l = Append(l, x) /\ torn.open = TRUE
<1>1. /\ Appended(which, l, x) = IF which \in open THEN Fused(l) ELSE Append(l, x)
      /\ Appended(which, l, Garbled(x)) = IF which \in open THEN Fused(l) ELSE Append(l, Garbled(x))
  BY AppendedIs, GarbledLine
<1>2. \/ torn = [l |-> l, open |-> which \in open]
      \/ torn = [l |-> Appended(which, l, Garbled(x)), open |-> TRUE]
      \/ torn = [l |-> Appended(which, l, x), open |-> TRUE]
  BY DEF TornLog
<1>3. CASE torn = [l |-> l, open |-> which \in open]
  BY <1>3
<1>4. CASE torn = [l |-> Appended(which, l, Garbled(x)), open |-> TRUE]
  <2>1. torn.l = Appended(which, l, Garbled(x)) /\ torn.open = TRUE
    BY <1>4
  <2> QED  BY <2>1, <1>1
<1>5. CASE torn = [l |-> Appended(which, l, x), open |-> TRUE]
  <2>1. torn.l = Appended(which, l, x) /\ torn.open = TRUE
    BY <1>5
  <2> QED  BY <2>1, <1>1
<1> QED  BY <1>2, <1>3, <1>4, <1>5

\* tombstones.log after a line was cut short: only the paths of the line, and
\* of the line it was fused with, are affected.
LEMMA CutTomb ==
    ASSUME Types, Filed, NEW x \in LogLine, NEW X \in SUBSET LogLine, x \in X,
           NEW torn \in TornLog("log", log, x), log' = torn.l, open' = WithOpen("log", torn.open)
    PROVE  /\ log' \in Seq(LogLine) /\ ("log" \in open' => log' # <<>>)
           /\ open' \subseteq {"log", "tlog"} /\ ("tlog" \in open' <=> "tlog" \in open)
           /\ \A p \in Path : p \notin Spoilt("log", log, X)
                                 => (p \in Replay(snap, log') <=> p \in Replay(snap, log))
<1>1. log \in Seq(LogLine) /\ ("log" \in open => log # <<>>) /\ Garbled(x) \in LogLine
  BY GarbledLine DEF Types, Filed
<1>2. \/ torn.l = log /\ (torn.open <=> "log" \in open)
      \/ "log" \in open /\ torn.l = Fused(log) /\ torn.open = TRUE
      \/ "log" \notin open /\ torn.l = Append(log, Garbled(x)) /\ torn.open = TRUE
      \/ "log" \notin open /\ torn.l = Append(log, x) /\ torn.open = TRUE
  BY <1>1, TornIs
<1>3. open' \subseteq {"log", "tlog"} /\ ("tlog" \in open' <=> "tlog" \in open) /\ ("log" \in open' <=> torn.open)
  BY DEF WithOpen, Types
<1>4. log' \in Seq(LogLine) /\ ("log" \in open' => log' # <<>>)
  <2>1. CASE torn.l = log /\ (torn.open <=> "log" \in open)
    BY <2>1, <1>1, <1>3
  <2>2. CASE "log" \in open /\ torn.l = Fused(log)
    BY <2>2, <1>1, FusedLog
  <2>3. /\ Append(log, x) \in Seq(LogLine) /\ Append(log, x) # <<>>
        /\ Append(log, Garbled(x)) \in Seq(LogLine) /\ Append(log, Garbled(x)) # <<>>
    BY <1>1, FusedAppend
  <2> QED  BY <2>1, <2>2, <2>3, <1>2
<1>5. ASSUME NEW p \in Path, p \notin Spoilt("log", log, X)
      PROVE  p \in Replay(snap, log') <=> p \in Replay(snap, log)
  <2>1. p \notin About("log", x) /\ ("log" \in open => p \notin About("log", log[Len(log)]))
    BY <1>1, <1>5, SpoiltPaths DEF Fuses
  <2>2. p \notin About("log", Garbled(x))
    BY GarbledLine
  <2>3. CASE torn.l = log
    BY <2>3
  <2>4. CASE "log" \in open /\ torn.l = Fused(log)
    BY <2>1, <2>4, <1>1, ReplayFused
  <2>5. CASE torn.l = Append(log, Garbled(x))
    BY <2>2, <2>5, <1>1, ReplayAppend
  <2>6. CASE torn.l = Append(log, x)
    BY <2>1, <2>6, <1>1, ReplayAppend
  <2> QED  BY <1>2, <2>3, <2>4, <2>5, <2>6
<1> QED  BY <1>3, <1>4, <1>5

\* The same for touches.log.
LEMMA CutTouch ==
    ASSUME Types, Filed, NEW x \in LogLine, NEW X \in SUBSET LogLine, x \in X, x.op \in {"+", "-"},
           NEW torn \in TornLog("tlog", tlog, x), tlog' = torn.l, open' = WithOpen("tlog", torn.open)
    PROVE  /\ tlog' \in Seq(LogLine) /\ ("tlog" \in open' => tlog' # <<>>)
           /\ open' \subseteq {"log", "tlog"} /\ ("log" \in open' <=> "log" \in open)
           /\ Loadable(tlog') => Loadable(tlog)
           /\ \A p \in Path : p \notin Spoilt("tlog", tlog, X)
                                 => ReplayTouches(tsnap, tlog')[p] = ReplayTouches(tsnap, tlog)[p]
<1>1. tlog \in Seq(LogLine) /\ ("tlog" \in open => tlog # <<>>) /\ Garbled(x) \in LogLine
  BY GarbledLine DEF Types, Filed
<1>2. \/ torn.l = tlog /\ (torn.open <=> "tlog" \in open)
      \/ "tlog" \in open /\ torn.l = Fused(tlog) /\ torn.open = TRUE
      \/ "tlog" \notin open /\ torn.l = Append(tlog, Garbled(x)) /\ torn.open = TRUE
      \/ "tlog" \notin open /\ torn.l = Append(tlog, x) /\ torn.open = TRUE
  BY <1>1, TornIs
<1>3. open' \subseteq {"log", "tlog"} /\ ("log" \in open' <=> "log" \in open) /\ ("tlog" \in open' <=> torn.open)
  BY DEF WithOpen, Types
<1>4. tlog' \in Seq(LogLine) /\ ("tlog" \in open' => tlog' # <<>>)
  <2>1. CASE torn.l = tlog /\ (torn.open <=> "tlog" \in open)
    BY <2>1, <1>1, <1>3
  <2>2. CASE "tlog" \in open /\ torn.l = Fused(tlog)
    BY <2>2, <1>1, FusedLog
  <2>3. /\ Append(tlog, x) \in Seq(LogLine) /\ Append(tlog, x) # <<>>
        /\ Append(tlog, Garbled(x)) \in Seq(LogLine) /\ Append(tlog, Garbled(x)) # <<>>
    BY <1>1, FusedAppend
  <2> QED  BY <2>1, <2>2, <2>3, <1>2
<1>5. ASSUME NEW p \in Path, p \notin Spoilt("tlog", tlog, X)
      PROVE  ReplayTouches(tsnap, tlog')[p] = ReplayTouches(tsnap, tlog)[p]
  <2>1. p \notin About("tlog", x) /\ ("tlog" \in open => p \notin About("tlog", tlog[Len(tlog)]))
    BY <1>1, <1>5, SpoiltPaths DEF Fuses
  <2>2. p \notin About("tlog", Garbled(x))
    BY GarbledLine
  <2>3. CASE torn.l = tlog
    BY <2>3
  <2>4. CASE "tlog" \in open /\ torn.l = Fused(tlog)
    BY <2>1, <2>4, <1>1, ReplayTouchesFused
  <2>5. CASE torn.l = Append(tlog, Garbled(x))
    BY <2>2, <2>5, <1>1, ReplayTouchesAppend
  <2>6. CASE torn.l = Append(tlog, x)
    BY <2>1, <2>6, <1>1, ReplayTouchesAppend
  <2> QED  BY <1>2, <2>3, <2>4, <2>5, <2>6
<1>6. Loadable(tlog') => Loadable(tlog)
  BY <1>1, <1>2, LoadableFused, LoadableAppend
<1> QED  BY <1>3, <1>4, <1>5, <1>6

\* The content file is written before the line: what touches.log holds then.
LEMMA CutContent ==
    ASSUME IInv, NEW t \in Thread, NEW x \in TouchLine(t),
           content' = IF x.rec.key THEN [content EXCEPT ![x.path] = basever] ELSE content,
           bare' = BareBefore(x)
    PROVE  /\ content' \in [Path -> Version \union {NoContent}]
           /\ bare \subseteq bare' /\ bare' \subseteq Path
           /\ \A p \in Path : p # x.path => content'[p] = content[p]
           /\ x.rec.key => content'[x.path] = basever
           /\ ~x.rec.key => content' = content
           /\ x.rec.key /\ x.path \notin bare' =>
                 /\ "tlog" \notin open
                 /\ Loadable(tlog) => ~ReplayTouches(tsnap, tlog)[x.path].key
<1> USE DEF IInv
<1>1. /\ x \in LogLine /\ x.path \in Path
      /\ x.rec.key => touches[x.path] = NoTouch
      /\ pc[t].at \in {"touch", "removal"}
  <2>1. CASE pc[t].at = "touch"
    BY <2>1, TouchLines
  <2>2. CASE pc[t].at = "removal"
    <3>1. x \in LogLine /\ x.path \in Path /\ x.rec = NoTouch
      BY <2>2, TouchLines
    <3> QED  BY <3>1, <2>2 DEF NoTouch
  <2> QED  BY <2>1, <2>2, TouchLines
<1>2. boot = "up"
  BY <1>1 DEF Threaded, Busy
<1>3. /\ content' \in [Path -> Version \union {NoContent}]
      /\ \A p \in Path : p # x.path => content'[p] = content[p]
      /\ x.rec.key => content'[x.path] = basever
      /\ ~x.rec.key => content' = content
  BY <1>1 DEF Types
<1>4. bare \subseteq bare' /\ bare' \subseteq Path
  BY <1>1 DEF BareBefore, Types
<1>5. ASSUME x.rec.key, x.path \notin bare'
      PROVE  "tlog" \notin open /\ (Loadable(tlog) => ~ReplayTouches(tsnap, tlog)[x.path].key)
  <2>1. ~Stale(x.path)
    BY <1>5 DEF BareBefore
  <2>2. /\ x.path \notin tlost /\ "tlog" \notin open
        /\ \A u \in Thread : pc[u].at = "removal" => x.path \notin pc[u].left
    BY <2>1 DEF Stale, Fuses, Filed
  <2>3. ASSUME Loadable(tlog), ReplayTouches(tsnap, tlog)[x.path].key
        PROVE  FALSE
    <3>1. ReplayTouches(tsnap, tlog)[x.path] = touches[x.path]
      BY <2>2, <2>3, <1>1, <1>2 DEF Records, TouchesKept
    <3> QED  BY <3>1, <2>3, <1>1, <1>5 DEF NoTouch
  <2> QED  BY <2>2, <2>3
<1> QED  BY <1>3, <1>4, <1>5

\* What a log holds once the content file of a line is written.
HeldAfter(l) ==
    Loadable(l) =>
        \A p \in Path : ReplayTouches(tsnap, l)[p].key /\ p \notin bare'
                           => content'[p] = ReplayTouches(tsnap, l)[p].base

LEMMA HeldStill ==
    ASSUME IInv, NEW t \in Thread, NEW x \in TouchLine(t),
           content' = IF x.rec.key THEN [content EXCEPT ![x.path] = basever] ELSE content,
           bare' = BareBefore(x)
    PROVE  /\ HeldAfter(tlog)
           /\ "tlog" \in open => HeldAfter(Fused(tlog))
           /\ \A y \in LogLine : y = x \/ About("tlog", y) = {} => HeldAfter(Append(tlog, y))
<1> USE DEF IInv
<1>1. /\ x \in LogLine /\ x.path \in Path /\ x.op \in {"+", "-"}
      /\ x.rec.key => x.op = "+" /\ x.rec.base = basever
  <2>1. pc[t].at \in {"touch", "removal"}
    BY TouchLines
  <2>2. CASE pc[t].at = "touch"
    <3>1. /\ x \in LogLine /\ x.path \in Path /\ x.op = "+"
          /\ x.rec = [base |-> basever, key |-> pc[t].op = "write"]
      BY <2>2, TouchLines
    <3> QED  BY <3>1
  <2>3. CASE pc[t].at = "removal"
    <3>1. x \in LogLine /\ x.path \in Path /\ x.rec = NoTouch /\ x.op = "-"
      BY <2>3, TouchLines
    <3> QED  BY <3>1 DEF NoTouch
  <2> QED  BY <2>1, <2>2, <2>3
<1>2. /\ bare \subseteq bare'
      /\ \A p \in Path : p # x.path => content'[p] = content[p]
      /\ x.rec.key => content'[x.path] = basever
      /\ ~x.rec.key => content' = content
      /\ x.rec.key /\ x.path \notin bare' =>
            /\ "tlog" \notin open
            /\ Loadable(tlog) => ~ReplayTouches(tsnap, tlog)[x.path].key
  BY CutContent
<1>3. tlog \in Seq(LogLine) /\ ("tlog" \in open => tlog # <<>>) /\ Garbled(x) \in LogLine
      /\ About("tlog", Garbled(x)) = {}
  BY <1>1, GarbledLine DEF Types, Filed
<1>4. HeldAfter(tlog)
  <2>1. Held(tlog)
    BY DEF Records
  <2> SUFFICES ASSUME Loadable(tlog), NEW p \in Path, ReplayTouches(tsnap, tlog)[p].key, p \notin bare'
               PROVE  content'[p] = ReplayTouches(tsnap, tlog)[p].base
    BY DEF HeldAfter
  <2>2. content[p] = ReplayTouches(tsnap, tlog)[p].base
    BY <2>1, <1>2 DEF Held
  <2> QED  BY <2>2, <1>2
<1>5. "tlog" \in open => HeldAfter(Fused(tlog))
  <2> SUFFICES ASSUME "tlog" \in open, Loadable(Fused(tlog)), NEW p \in Path,
                      ReplayTouches(tsnap, Fused(tlog))[p].key, p \notin bare'
               PROVE  content'[p] = ReplayTouches(tsnap, Fused(tlog))[p].base
    BY DEF HeldAfter
  <2>1. Held(Fused(tlog))
    BY DEF Records
  <2>2. content[p] = ReplayTouches(tsnap, Fused(tlog))[p].base
    BY <2>1, <1>2 DEF Held
  <2> QED  BY <2>2, <1>2
<1>6. ASSUME NEW y \in LogLine, y = x \/ About("tlog", y) = {} PROVE HeldAfter(Append(tlog, y))
  <2>0. \A p \in Path : ReplayTouches(tsnap, Append(tlog, y))[p] =
                           IF p \in About("tlog", y) THEN y.rec ELSE ReplayTouches(tsnap, tlog)[p]
    <3> HIDE DEF IInv
    <3> QED  BY <1>3, ReplayTouchesAppend
  <2> SUFFICES ASSUME Loadable(Append(tlog, y)), NEW p \in Path,
                      ReplayTouches(tsnap, Append(tlog, y))[p].key, p \notin bare'
               PROVE  content'[p] = ReplayTouches(tsnap, Append(tlog, y))[p].base
    BY DEF HeldAfter
  <2>1. ReplayTouches(tsnap, Append(tlog, y))[p] =
           IF p \in About("tlog", y) THEN y.rec ELSE ReplayTouches(tsnap, tlog)[p]
    BY <2>0
  <2>2. Loadable(tlog)
    BY <1>3, LoadableAppend
  <2>3. CASE p \in About("tlog", y)
    <3>1. y = x /\ x.rec.key
      BY <2>1, <2>3, <1>6
    <3>2. p = x.path
      BY <3>1, <2>3, <1>1 DEF About
    <3> QED  BY <3>1, <3>2, <2>1, <2>3, <1>1, <1>2
  <2>4. CASE p \notin About("tlog", y)
    BY <2>1, <2>2, <2>4, <1>4 DEF HeldAfter
  <2> QED  BY <2>3, <2>4
<1> QED  BY <1>4, <1>5, <1>6

LEMMA CutHeld ==
    ASSUME IInv, NEW t \in Thread, NEW x \in TouchLine(t),
           NEW torn \in TornLog("tlog", tlog, x), tlog' = torn.l, open' = WithOpen("tlog", torn.open),
           tsnap' = tsnap,
           content' = IF x.rec.key THEN [content EXCEPT ![x.path] = basever] ELSE content,
           bare' = BareBefore(x)
    PROVE  Held(tlog)' /\ ("tlog" \in open => Held(Fused(tlog)))'
<1> USE DEF IInv
<1>1. x \in LogLine
  BY TouchLines
<1>2. tlog \in Seq(LogLine) /\ ("tlog" \in open => tlog # <<>>) /\ Garbled(x) \in LogLine
      /\ About("tlog", Garbled(x)) = {}
  BY <1>1, GarbledLine DEF Types, Filed
<1>3. /\ HeldAfter(tlog)
      /\ "tlog" \in open => HeldAfter(Fused(tlog))
      /\ HeldAfter(Append(tlog, x)) /\ HeldAfter(Append(tlog, Garbled(x)))
  BY <1>1, <1>2, HeldStill
<1>4. \/ torn.l = tlog /\ (torn.open <=> "tlog" \in open)
      \/ "tlog" \in open /\ torn.l = Fused(tlog) /\ torn.open = TRUE
      \/ "tlog" \notin open /\ torn.l = Append(tlog, Garbled(x)) /\ torn.open = TRUE
      \/ "tlog" \notin open /\ torn.l = Append(tlog, x) /\ torn.open = TRUE
  BY <1>1, <1>2, TornIs
<1>5. "tlog" \in open' <=> torn.open
  BY DEF WithOpen, Types
<1>6. HeldAfter(tlog')
  BY <1>3, <1>4
<1>7. "tlog" \in open' => HeldAfter(Fused(tlog'))
  <2>1. CASE torn.l = tlog /\ (torn.open <=> "tlog" \in open)
    BY <2>1, <1>3, <1>5
  <2>2. CASE "tlog" \in open /\ torn.l = Fused(tlog)
    <3>1. Fused(tlog') = Fused(tlog)
      BY <2>2, <1>2, FusedLog
    <3> QED  BY <3>1, <2>2, <1>3
  <2>3. CASE torn.l = Append(tlog, Garbled(x)) \/ torn.l = Append(tlog, x)
    <3>1. /\ Fused(Append(tlog, x)) = Append(tlog, Garbled(x))
          /\ Fused(Append(tlog, Garbled(x))) = Append(tlog, Garbled(Garbled(x)))
      BY <1>1, <1>2, FusedAppend
    <3>2. Garbled(Garbled(x)) = Garbled(x)
      BY <1>1, GarbledLine
    <3>3. Fused(tlog') = Append(tlog, Garbled(x))
      BY <3>1, <3>2, <2>3
    <3> QED  BY <3>3, <1>3
  <2> QED  BY <2>1, <2>2, <2>3, <1>4
<1>8. Held(tlog)'
  BY <1>6 DEF Held, HeldAfter
<1>9. ("tlog" \in open => Held(Fused(tlog)))'
  BY <1>7 DEF Held, HeldAfter
<1> QED  BY <1>8, <1>9

\* The two ways of CutShort.
CutTombs(t) ==
    \E x \in TombLine(t) : \E torn \in TornLog("log", log, x) :
        /\ log' = torn.l /\ open' = WithOpen("log", torn.open)
        /\ UNCHANGED <<snap, tsnap, tlog, content, meta, bare>>

CutTouches(t) ==
    \E x \in TouchLine(t) : \E torn \in TornLog("tlog", tlog, x) :
        /\ tlog' = torn.l /\ open' = WithOpen("tlog", torn.open)
        /\ content' = IF x.rec.key THEN [content EXCEPT ![x.path] = basever] ELSE content
        /\ bare' = BareBefore(x)
        /\ UNCHANGED <<snap, log, tsnap, meta>>

LEMMA CutShortIs ==
    ASSUME NEW t \in Thread, CutShort(t)
    PROVE  CutTombs(t) \/ CutTouches(t)
BY DEF CutShort, CutTombs, CutTouches, rdisk, tdisk

LEMMA WriteFailsTombs ==
    ASSUME IInv, NEW t \in Thread, WriteFails(t), CutTombs(t)
    PROVE  IInv'
<1> USE DEF IInv
<1>1. PICK x \in TombLine(t) : \E torn \in TornLog("log", log, x) :
         log' = torn.l /\ open' = WithOpen("log", torn.open)
  BY DEF CutTombs
<1>2. PICK torn \in TornLog("log", log, x) : log' = torn.l /\ open' = WithOpen("log", torn.open)
  BY <1>1
<1>3. /\ snap' = snap /\ tsnap' = tsnap /\ tlog' = tlog /\ content' = content /\ meta' = meta /\ bare' = bare
      /\ boot' = boot /\ basever' = basever /\ ops' = ops
  BY DEF CutTombs, WriteFails
<1>4. /\ TombLine(t) \in SUBSET LogLine /\ x \in LogLine /\ TombLine(t) # {}
      /\ pc[t].at \in {"tomb", "append"} /\ TouchLine(t) = {}
      /\ pc[t].at = "tomb" => x.path = pc[t].path
      /\ pc[t].at = "append" => \A q \in pc[t].left : \E y \in TombLine(t) : y.op = "-" /\ y.path = q
      /\ x.path \in Path /\ x.op \in {"+", "-"}
  BY TombLines
<1>5. /\ Finish(t) /\ faults' = faults + 1 /\ faults < MaxFaults
      /\ tombs' = IF pc[t].at # "tomb" THEN tombs
                  ELSE IF pc[t].op = "delete" THEN tombs \union {pc[t].path} ELSE tombs \ {pc[t].path}
      /\ touches' = touches
      /\ lost' = lost \union Spoilt("log", log, TombLine(t))
      /\ tlost' = tlost
  BY <1>4 DEF WriteFails, Fault
<1>6. Busy(t) /\ boot = "up" /\ \A u \in Thread : pc[u].at # "rewrite"
  BY <1>4, CommitAlone DEF Busy
<1>7. /\ pc' \in [Thread -> Threads] /\ pc'[t].at = "idle" /\ pc'[t].left = {}
      /\ \A u \in Thread : u # t => pc'[u] = pc[u]
  BY <1>5, FinishIs
<1>8. /\ log' \in Seq(LogLine) /\ ("log" \in open' => log' # <<>>)
      /\ open' \subseteq {"log", "tlog"} /\ ("tlog" \in open' <=> "tlog" \in open)
      /\ \A p \in Path : p \notin Spoilt("log", log, TombLine(t))
                            => (p \in Replay(snap, log') <=> p \in Replay(snap, log))
  BY <1>2, <1>4, CutTomb
<1>9. /\ Spoilt("log", log, TombLine(t)) \subseteq Path
      /\ \A y \in TombLine(t) : About("log", y) \subseteq Spoilt("log", log, TombLine(t))
  BY <1>4, SpoiltPaths DEF Types
<1>10. Types'
  <2>1. (faults \in 0..MaxFaults)'
    BY <1>5, BoundAssumption DEF Types
  <2>2. tombs' \subseteq Path
    BY <1>4, <1>5 DEF Types
  <2> QED  BY <2>1, <2>2, <1>3, <1>5, <1>7, <1>8, <1>9 DEF Types
<1>11. Threaded'
  BY <1>3, <1>4, <1>6, <1>7, ThreadedStep
<1>12. Filed'
  BY <1>3, <1>8 DEF Filed
<1>13. TombsKept'
  <2> SUFFICES ASSUME NEW p \in Path, p \notin lost'
               PROVE  \/ p \in Replay(snap', log') <=> p \in tombs'
                      \/ \E u \in Thread : pc'[u].at = "append" /\ p \in pc'[u].left
    BY DEF TombsKept
  <2>1. p \notin lost /\ p \notin Spoilt("log", log, TombLine(t))
    BY <1>5
  <2>2. \/ p \in Replay(snap, log) <=> p \in tombs
        \/ \E u \in Thread : pc[u].at = "append" /\ p \in pc[u].left
    BY <2>1, <1>6 DEF TombsKept
  <2>3. ~(pc[t].at = "append" /\ p \in pc[t].left)
    <3> SUFFICES ASSUME pc[t].at = "append", p \in pc[t].left PROVE FALSE
      OBVIOUS
    <3>1. PICK y \in TombLine(t) : y.op = "-" /\ y.path = p
      BY <1>4
    <3>2. p \in About("log", y)
      BY <3>1 DEF About
    <3> QED  BY <3>2, <2>1, <1>9
  <2>4. p \in tombs' <=> p \in tombs
    <3>1. x.path \in About("log", x)
      BY <1>4 DEF About
    <3>2. pc[t].at = "tomb" => p # pc[t].path
      BY <3>1, <2>1, <1>4, <1>9
    <3> QED  BY <3>2, <1>5
  <2> QED  BY <2>1, <2>2, <2>3, <2>4, <1>3, <1>7, <1>8
<1>14. Records'
  BY <1>3, <1>4, <1>5, <1>7, <1>8, RecordsFrame
<1>15. Migrating'
  BY <1>3, <1>6, UpIsMigrated
<1> QED  BY <1>10, <1>11, <1>12, <1>13, <1>14, <1>15

LEMMA WriteFailsTouches ==
    ASSUME IInv, NEW t \in Thread, WriteFails(t), CutTouches(t)
    PROVE  IInv'
<1> USE DEF IInv
<1>1. PICK x \in TouchLine(t) : \E torn \in TornLog("tlog", tlog, x) :
         /\ tlog' = torn.l /\ open' = WithOpen("tlog", torn.open)
         /\ content' = IF x.rec.key THEN [content EXCEPT ![x.path] = basever] ELSE content
         /\ bare' = BareBefore(x)
  BY DEF CutTouches
<1>2. PICK torn \in TornLog("tlog", tlog, x) :
         /\ tlog' = torn.l /\ open' = WithOpen("tlog", torn.open)
         /\ content' = IF x.rec.key THEN [content EXCEPT ![x.path] = basever] ELSE content
         /\ bare' = BareBefore(x)
  BY <1>1
<1>3. /\ snap' = snap /\ log' = log /\ tsnap' = tsnap /\ meta' = meta
      /\ boot' = boot /\ basever' = basever /\ ops' = ops
  BY DEF CutTouches, WriteFails
<1>4. /\ TouchLine(t) \in SUBSET LogLine /\ x \in LogLine /\ TouchLine(t) # {} /\ x.op \in {"+", "-"}
      /\ pc[t].at \in {"touch", "removal"} /\ TombLine(t) = {}
      /\ x.path = pc[t].path /\ x.path \in Path
      /\ pc[t].at = "touch" => x.rec = [base |-> basever, key |-> pc[t].op = "write"] /\ x.rec \in Touch
      /\ pc[t].at = "removal" => x.op = "-"
  BY TouchLines
<1>5. /\ Finish(t) /\ faults' = faults + 1 /\ faults < MaxFaults
      /\ tombs' = tombs
      /\ touches' = IF pc[t].at # "touch" THEN touches ELSE [touches EXCEPT ![x.path] = x.rec]
      /\ lost' = lost
      /\ tlost' = tlost \union Spoilt("tlog", tlog, TouchLine(t))
  BY <1>4 DEF WriteFails, Fault
<1>6. Busy(t) /\ boot = "up" /\ \A u \in Thread : pc[u].at # "rewrite"
  BY <1>4, CommitAlone DEF Busy
<1>7. /\ pc' \in [Thread -> Threads] /\ pc'[t].at = "idle" /\ pc'[t].left = {}
      /\ \A u \in Thread : u # t => pc'[u] = pc[u]
  BY <1>5, FinishIs
<1>8. /\ tlog' \in Seq(LogLine) /\ ("tlog" \in open' => tlog' # <<>>)
      /\ open' \subseteq {"log", "tlog"} /\ ("log" \in open' <=> "log" \in open)
      /\ Loadable(tlog') => Loadable(tlog)
      /\ \A p \in Path : p \notin Spoilt("tlog", tlog, TouchLine(t))
                            => ReplayTouches(tsnap, tlog')[p] = ReplayTouches(tsnap, tlog)[p]
  BY <1>2, <1>4, CutTouch
<1>9. Spoilt("tlog", tlog, TouchLine(t)) \subseteq Path /\ About("tlog", x) \subseteq Spoilt("tlog", tlog, TouchLine(t))
  BY <1>4, SpoiltPaths DEF Types
<1>10. /\ content' \in [Path -> Version \union {NoContent}]
       /\ bare \subseteq bare' /\ bare' \subseteq Path
       /\ \A p \in Path : p # x.path => content'[p] = content[p]
       /\ x.rec.key => content'[x.path] = basever
       /\ ~x.rec.key => content' = content
  BY <1>2, CutContent
<1>11. /\ x.path \in About("tlog", x)
       /\ pc[t].at = "removal" => About("tlog", x) = Below[pc[t].path]
  BY <1>4, BelowAssumption DEF About
<1>12. \A p \in Path : p # x.path => touches'[p] = touches[p]
  BY <1>4, <1>5 DEF Types, Touches
<1>13. Types'
  <2>1. (faults \in 0..MaxFaults)'
    BY <1>5, BoundAssumption DEF Types
  <2>2. touches' \in Touches
    BY <1>4, <1>5 DEF Types, Touches
  <2> QED  BY <2>1, <2>2, <1>3, <1>5, <1>7, <1>8, <1>9, <1>10 DEF Types
<1>14. Threaded'
  BY <1>3, <1>4, <1>6, <1>7, ThreadedStep
<1>15. Filed'
  BY <1>3, <1>8 DEF Filed
<1>16. TombsKept'
  BY <1>3, <1>4, <1>5, <1>7, TombsFrame
<1>17. TouchesKept'
  <2> SUFFICES ASSUME Loadable(tlog'), NEW p \in Path, p \notin tlost'
               PROVE  \/ ReplayTouches(tsnap', tlog')[p] = touches'[p]
                      \/ \E u \in Thread :
                            /\ pc'[u].at = "removal" /\ p \in Below[pc'[u].path]
                            /\ ReplayTouches(tsnap', tlog')[p].key => p \in pc'[u].left
    BY DEF TouchesKept
  <2>1. p \notin tlost /\ p \notin Spoilt("tlog", tlog, TouchLine(t)) /\ p \notin About("tlog", x)
    BY <1>5, <1>9
  <2>2. \/ ReplayTouches(tsnap, tlog)[p] = touches[p]
        \/ \E u \in Thread :
              /\ pc[u].at = "removal" /\ p \in Below[pc[u].path]
              /\ ReplayTouches(tsnap, tlog)[p].key => p \in pc[u].left
    BY <2>1, <1>6, <1>8 DEF Records, TouchesKept
  <2>3. ReplayTouches(tsnap', tlog')[p] = ReplayTouches(tsnap, tlog)[p] /\ touches'[p] = touches[p]
    BY <2>1, <1>3, <1>8, <1>11, <1>12
  <2>4. \A u \in Thread : pc[u].at = "removal" /\ p \in Below[pc[u].path] => pc'[u] = pc[u]
    BY <2>1, <1>7, <1>11
  <2> QED  BY <2>2, <2>3, <2>4
<1>18. MergeBaseKept'
  <2> SUFFICES ASSUME NEW p \in Path, touches'[p].key, p \notin bare'
               PROVE  content'[p] = touches'[p].base
    BY DEF MergeBaseKept
  <2>0. MergeBaseKept
    BY DEF Records
  <2>1. CASE p # x.path
    BY <2>0, <2>1, <1>6, <1>10, <1>12 DEF MergeBaseKept
  <2>2. CASE p = x.path /\ pc[t].at = "touch"
    <3>1. touches'[p] = x.rec /\ x.rec.base = basever
      BY <2>2, <1>4, <1>5 DEF Types, Touches
    <3> QED  BY <3>1, <2>2, <1>10
  <2>3. CASE p = x.path /\ pc[t].at = "removal"
    <3>1. touches'[p] = touches[p]
      BY <2>3, <1>5
    <3>2. x.rec = NoTouch
      BY <2>3, TouchLines
    <3>3. ~x.rec.key
      BY <3>2 DEF NoTouch
    <3> QED  BY <3>1, <3>3, <2>0, <1>6, <1>10 DEF MergeBaseKept
  <2> QED  BY <2>1, <2>2, <2>3, <1>4
<1>19. Held(tlog)' /\ ("tlog" \in open => Held(Fused(tlog)))'
  BY <1>2, <1>3, CutHeld
<1>20. Records'
  BY <1>17, <1>18, <1>19 DEF Records
<1>21. Migrating'
  BY <1>3, <1>6, UpIsMigrated
<1> QED  BY <1>13, <1>14, <1>15, <1>16, <1>20, <1>21

LEMMA WriteFailsKeeps ==
    ASSUME IInv, NEW t \in Thread, WriteFails(t)
    PROVE  IInv'
BY WriteFailsTombs, WriteFailsTouches, CutShortIs DEF WriteFails

\* Two threads go on at once.
LEMMA ThreadedTwo ==
    ASSUME Threaded, NEW t \in Thread, NEW u \in Thread, Busy(t), pc[t].at # "rewrite", boot' = boot,
           \A v \in Thread : v # t /\ v # u => pc'[v] = pc[v],
           \A v \in {t, u} :
              /\ pc'[v].at \notin {"rewrite", "removal"}
              /\ pc'[v].at \in {"idle", "touch", "tomb", "untomb", "untouch"} => pc'[v].left = {}
              /\ pc'[v].at \in {"append", "content"} => pc'[v].left \subseteq Below[pc'[v].path]
    PROVE  Threaded'
<1>1. boot = "up" /\ \A v \in Thread : pc[v].at # "rewrite"
  BY CommitAlone
<1>2. \A v \in Thread : pc'[v].at # "rewrite"
  BY <1>1
<1> QED  BY <1>1, <1>2 DEF Threaded, Busy

\* A log after the garbage that the fragments of two lines give: only the
\* paths of the two lines, and of the line before if it is fused, are affected.
LEMMA MixedLine ==
    ASSUME NEW which, NEW l \in Seq(LogLine), NEW x \in LogLine, which \in open => l # <<>>
    PROVE  /\ Appended(which, l, Garbled(x)) \in Seq(LogLine) /\ Appended(which, l, Garbled(x)) # <<>>
           /\ Appended(which, l, Garbled(x)) = IF which \in open THEN Fused(l) ELSE Append(l, Garbled(x))
           /\ Loadable(Appended(which, l, Garbled(x))) => Loadable(l)
<1>1. Garbled(x) \in LogLine
  BY GarbledLine
<1>2. /\ Appended(which, l, Garbled(x)) \in Seq(LogLine) /\ Appended(which, l, Garbled(x)) # <<>>
      /\ Appended(which, l, Garbled(x)) = IF which \in open THEN Fused(l) ELSE Append(l, Garbled(x))
  BY <1>1, AppendedIs
<1> QED  BY <1>1, <1>2, LoadableAppend, LoadableFused

LEMMA MixedTombs ==
    ASSUME NEW l \in Seq(LogLine), NEW x \in LogLine, "log" \in open => l # <<>>,
           NEW X \in SUBSET LogLine, NEW s, NEW p \in Path, p \notin Spoilt("log", l, X)
    PROVE  p \in Replay(s, Appended("log", l, Garbled(x))) <=> p \in Replay(s, l)
<1>1. Garbled(x) \in LogLine /\ About("log", Garbled(x)) = {}
  BY GarbledLine
<1>2. CASE "log" \in open
  <2>1. p \notin About("log", l[Len(l)])
    BY <1>2, SpoiltPaths DEF Fuses
  <2>2. p \in Replay(s, Fused(l)) <=> p \in Replay(s, l)
    BY <2>1, <1>2, ReplayFused
  <2>3. Appended("log", l, Garbled(x)) = Fused(l)
    BY <1>2, MixedLine
  <2> QED  BY <2>2, <2>3
<1>3. CASE "log" \notin open
  <2>1. p \in Replay(s, Append(l, Garbled(x))) <=> p \in Replay(s, l)
    BY <1>1, ReplayAppend
  <2>2. Appended("log", l, Garbled(x)) = Append(l, Garbled(x))
    BY <1>3, MixedLine
  <2> QED  BY <2>1, <2>2
<1> QED  BY <1>2, <1>3

LEMMA MixedTouches ==
    ASSUME NEW l \in Seq(LogLine), NEW x \in LogLine, "tlog" \in open => l # <<>>,
           NEW X \in SUBSET LogLine, NEW r, NEW p \in Path, p \notin Spoilt("tlog", l, X)
    PROVE  ReplayTouches(r, Appended("tlog", l, Garbled(x)))[p] = ReplayTouches(r, l)[p]
<1>1. Garbled(x) \in LogLine /\ About("tlog", Garbled(x)) = {}
  BY GarbledLine
<1>2. CASE "tlog" \in open
  <2>1. p \notin About("tlog", l[Len(l)])
    BY <1>2, SpoiltPaths DEF Fuses
  <2>2. ReplayTouches(r, Fused(l))[p] = ReplayTouches(r, l)[p]
    BY <2>1, <1>2, ReplayTouchesFused
  <2>3. Appended("tlog", l, Garbled(x)) = Fused(l)
    BY <1>2, MixedLine
  <2> QED  BY <2>2, <2>3
<1>3. CASE "tlog" \notin open
  <2>1. ReplayTouches(r, Append(l, Garbled(x)))[p] = ReplayTouches(r, l)[p]
    BY <1>1, ReplayTouchesAppend
  <2>2. Appended("tlog", l, Garbled(x)) = Append(l, Garbled(x))
    BY <1>3, MixedLine
  <2> QED  BY <2>1, <2>2
<1> QED  BY <1>2, <1>3

LEMMA MixTombsKeeps ==
    ASSUME IInv, NEW t \in Thread, NEW u \in Thread, t # u, pc[t].at = "append", MixTombs(t, u),
           UNCHANGED <<boot, basever, bounds>>
    PROVE  IInv'
<1> USE DEF IInv
<1>1. PICK x \in TombLine(t), y \in TombLine(u) :
         LET l == Appended("log", log, Garbled(x)) IN
         /\ log' \in {l, Append(l, Plus(x.path)), Append(l, Plus(y.path))}
         /\ open' = open \ {"log"}
         /\ lost' = lost \union Spoilt("log", log, {x, y})
         /\ tombs' = CASE pc[u].at = "append" -> tombs
                      [] y.op = "+" -> tombs \union {y.path}
                      [] OTHER -> tombs \ {y.path}
         /\ pc' = [pc EXCEPT ![t].left = @ \ {x.path},
                             ![u] = IF pc[u].at = "append" THEN [pc[u] EXCEPT !.left = @ \ {y.path}] ELSE Idle]
  BY DEF MixTombs
<1>2. /\ touches' = touches /\ snap' = snap /\ tsnap' = tsnap /\ tlog' = tlog /\ content' = content
      /\ meta' = meta /\ tlost' = tlost /\ bare' = bare
      /\ boot' = boot /\ basever' = basever /\ ops' = ops /\ faults' = faults
  BY DEF MixTombs, rdisk, bounds
<1>3. /\ x \in LogLine /\ y \in LogLine /\ x.path \in Path /\ y.path \in Path
      /\ x.op = "-" /\ x.path \in pc[t].left /\ y.op \in {"+", "-"}
      /\ pc[u].at \in {"tomb", "append"}
  <2>1. /\ x \in LogLine /\ x.path \in Path /\ x.op = "-" /\ x.path \in pc[t].left
    BY TombLines
  <2>2. y \in LogLine /\ y.path \in Path /\ y.op \in {"+", "-"} /\ pc[u].at \in {"tomb", "append"}
    BY TombLines
  <2> QED  BY <2>1, <2>2
<1>4. /\ pc \in [Thread -> Threads] /\ pc[t] \in Threads /\ pc[u] \in Threads
      /\ pc[t].left \subseteq Path /\ pc[u].left \subseteq Path
  BY DEF Types, Threads
<1>5. Busy(t) /\ boot = "up" /\ \A v \in Thread : pc[v].at # "rewrite"
  BY CommitAlone DEF Busy
<1>6. /\ pc'[t] = [pc[t] EXCEPT !.left = @ \ {x.path}]
      /\ pc'[u] = IF pc[u].at = "append" THEN [pc[u] EXCEPT !.left = @ \ {y.path}] ELSE Idle
      /\ \A v \in Thread : v # t /\ v # u => pc'[v] = pc[v]
      /\ DOMAIN pc' = Thread
  <2> DEFINE a == [pc[t] EXCEPT !.left = @ \ {x.path}]
             b == IF pc[u].at = "append" THEN [pc[u] EXCEPT !.left = @ \ {y.path}] ELSE Idle
             f == [pc EXCEPT ![t] = a]
  <2>1. DOMAIN f = Thread /\ f[t] = a /\ \A v \in Thread : v # t => f[v] = pc[v]
    BY <1>4
  <2>2. pc' = [f EXCEPT ![u] = b]
    BY <1>1, <2>1
  <2> HIDE DEF a, b, f
  <2>3. pc'[u] = b /\ DOMAIN pc' = Thread /\ \A v \in Thread : v # u => pc'[v] = f[v]
    BY <2>1, <2>2
  <2>4. pc'[t] = a /\ \A v \in Thread : v # t /\ v # u => pc'[v] = pc[v]
    BY <2>1, <2>3
  <2> QED  BY <2>3, <2>4 DEF a, b
<1>7. /\ pc'[t] \in Threads /\ pc'[t].at = "append" /\ pc'[t].left = pc[t].left \ {x.path}
      /\ pc'[u] \in Threads
      /\ pc[u].at = "append" => pc'[u].at = "append" /\ pc'[u].left = pc[u].left \ {y.path}
      /\ pc[u].at # "append" => pc'[u].at = "idle" /\ pc'[u].left = {}
  <2>1. pc'[t] \in Threads /\ pc'[t].at = "append" /\ pc'[t].left = pc[t].left \ {x.path}
    BY <1>4, <1>6 DEF Threads
  <2>2. CASE pc[u].at = "append"
    BY <2>1, <2>2, <1>4, <1>6 DEF Threads
  <2>3. CASE pc[u].at # "append"
    BY <2>1, <2>3, <1>6, IdleIs
  <2> QED  BY <2>1, <2>2, <2>3
<1>8. pc' \in [Thread -> Threads]
  <2>1. \A v \in Thread : pc'[v] \in Threads
    BY <1>4, <1>6, <1>7
  <2>2. pc' = [v \in Thread |-> pc'[v]]
    BY <1>1, <1>4
  <2> QED  BY <2>1, <2>2
<1>9. PICK l : l = Appended("log", log, Garbled(x))
  OBVIOUS
<1>10. log' \in {l, Append(l, Plus(x.path)), Append(l, Plus(y.path))}
  BY <1>1, <1>9
<1>11. log \in Seq(LogLine) /\ ("log" \in open => log # <<>>) /\ {x, y} \in SUBSET LogLine
  BY <1>3 DEF Types, Filed
<1>12. /\ l \in Seq(LogLine) /\ l # <<>>
       /\ \A p \in Path : p \notin Spoilt("log", log, {x, y}) => (p \in Replay(snap, l) <=> p \in Replay(snap, log))
  <2>1. l \in Seq(LogLine) /\ l # <<>>
    BY <1>3, <1>11, <1>9, MixedLine
  <2>2. ASSUME NEW p \in Path, p \notin Spoilt("log", log, {x, y})
        PROVE  (p \in Replay(snap, l) <=> p \in Replay(snap, log))
    BY <2>2, <1>3, <1>11, <1>9, MixedTombs
  <2> QED  BY <2>1, <2>2
<1>13. /\ Spoilt("log", log, {x, y}) \subseteq Path
       /\ x.path \in Spoilt("log", log, {x, y}) /\ y.path \in Spoilt("log", log, {x, y})
  <2>1. x.path \in About("log", x) /\ y.path \in About("log", y)
    BY <1>3 DEF About
  <2> QED  BY <2>1, <1>11, SpoiltPaths
<1>14. \A q \in Path : /\ Plus(q) \in LogLine /\ About("log", Plus(q)) = {q}
                       /\ Append(l, Plus(q)) \in Seq(LogLine) /\ Append(l, Plus(q)) # <<>>
  <2>1. \A q \in Path : Plus(q) \in LogLine /\ About("log", Plus(q)) = {q}
    BY DEF Plus, LogLine, About
  <2> QED  BY <2>1, <1>12, FusedAppend
<1>15. log' \in Seq(LogLine) /\ log' # <<>>
  BY <1>3, <1>10, <1>12, <1>14
<1>16. \A p \in Path : p \notin Spoilt("log", log, {x, y}) => (p \in Replay(snap, log') <=> p \in Replay(snap, log))
  <2> SUFFICES ASSUME NEW p \in Path, p \notin Spoilt("log", log, {x, y})
               PROVE  p \in Replay(snap, log') <=> p \in Replay(snap, log)
    OBVIOUS
  <2>1. p \in Replay(snap, l) <=> p \in Replay(snap, log)
    BY <1>12
  <2>2. \A q \in {x.path, y.path} : p \in Replay(snap, Append(l, Plus(q))) <=> p \in Replay(snap, l)
    <3> TAKE q \in {x.path, y.path}
    <3>1. q \in Path /\ p # q
      BY <1>3, <1>13
    <3>2. Plus(q) \in LogLine /\ p \notin About("log", Plus(q))
      BY <3>1, <1>14
    <3> QED  BY <3>2, <1>12, ReplayAppend
  <2> QED  BY <2>1, <2>2, <1>10
<1>17. /\ open' \subseteq {"log", "tlog"} /\ "log" \notin open' /\ ("tlog" \in open' => "tlog" \in open)
       /\ lost' = lost \union Spoilt("log", log, {x, y})
  BY <1>1 DEF Types
<1>18. tombs' \subseteq Path /\ \A p \in Path : p # y.path => (p \in tombs' <=> p \in tombs)
  <2>1. tombs' = tombs \/ tombs' = tombs \union {y.path} \/ tombs' = tombs \ {y.path}
    BY <1>1
  <2> QED  BY <2>1, <1>3 DEF Types
<1>19. Types'
  BY <1>2, <1>8, <1>13, <1>15, <1>17, <1>18 DEF Types
<1>20. Threaded'
  <2>2. pc'[t].left \subseteq Below[pc'[t].path] /\ (pc'[u].at = "append" => pc'[u].left \subseteq Below[pc'[u].path])
    <3>1. pc[t].left \subseteq Below[pc[t].path] /\ (pc[u].at = "append" => pc[u].left \subseteq Below[pc[u].path])
      BY DEF Threaded
    <3>2. pc'[t].path = pc[t].path /\ (pc[u].at = "append" => pc'[u].path = pc[u].path)
      BY <1>4, <1>6 DEF Threads
    <3> QED  BY <3>1, <3>2, <1>7
  <2>1. \A v \in {t, u} : /\ pc'[v].at \notin {"rewrite", "removal"}
                          /\ pc'[v].at \in {"idle", "touch", "tomb", "untomb", "untouch"} => pc'[v].left = {}
                          /\ pc'[v].at \in {"append", "content"} => pc'[v].left \subseteq Below[pc'[v].path]
    BY <2>2, <1>7
  <2> QED  BY <2>1, <1>2, <1>5, <1>6, ThreadedTwo
<1>21. Filed'
  BY <1>2, <1>15, <1>17 DEF Filed
<1>22. TombsKept'
  <2> SUFFICES ASSUME NEW p \in Path, p \notin lost'
               PROVE  \/ p \in Replay(snap', log') <=> p \in tombs'
                      \/ \E v \in Thread : pc'[v].at = "append" /\ p \in pc'[v].left
    BY DEF TombsKept
  <2>1. p \notin lost /\ p \notin Spoilt("log", log, {x, y}) /\ p # x.path /\ p # y.path
    BY <1>13, <1>17
  <2>2. \/ p \in Replay(snap, log) <=> p \in tombs
        \/ \E v \in Thread : pc[v].at = "append" /\ p \in pc[v].left
    BY <2>1, <1>5 DEF TombsKept
  <2>3. ASSUME NEW v \in Thread, pc[v].at = "append", p \in pc[v].left
        PROVE  pc'[v].at = "append" /\ p \in pc'[v].left
    <3>1. CASE v = t
      BY <3>1, <2>1, <2>3, <1>7
    <3>2. CASE v = u
      BY <3>2, <2>1, <2>3, <1>7
    <3>3. CASE v # t /\ v # u
      BY <3>3, <2>3, <1>6
    <3> QED  BY <3>1, <3>2, <3>3
  <2> QED  BY <2>1, <2>2, <2>3, <1>2, <1>16, <1>18
<1>23. Records'
  <2>1. \A v \in Thread : pc[v].at = "removal" => pc'[v] = pc[v]
    BY <1>3, <1>6
  <2> QED  BY <2>1, <1>2, <1>17, RecordsFrame
<1>24. Migrating'
  BY <1>2, <1>5, UpIsMigrated
<1> QED  BY <1>19, <1>20, <1>21, <1>22, <1>23, <1>24

LEMMA MixTouchesKeeps ==
    ASSUME IInv, NEW t \in Thread, NEW u \in Thread, t # u, pc[t].at = "removal", MixTouches(t, u),
           UNCHANGED <<boot, basever, bounds>>
    PROVE  IInv'
<1> USE DEF IInv
<1>1. PICK x \in TouchLine(t), y \in TouchLine(u) :
         LET l == Appended("tlog", tlog, Garbled(x)) IN
         /\ tlog' \in {l, Append(l, Garbled(Plus(y.path)))}
         /\ open' = open \ {"tlog"}
         /\ tlost' = tlost \union Spoilt("tlog", tlog, {x, y})
         /\ touches' = IF pc[u].at = "removal" THEN touches ELSE [touches EXCEPT ![y.path] = y.rec]
         /\ content' = IF y.rec.key THEN [content EXCEPT ![y.path] = basever] ELSE content
         /\ bare' = BareBefore(y)
         /\ pc' = [pc EXCEPT ![t].at = "content",
                             ![u].at = IF @ = "removal" THEN "content" ELSE "tomb"]
  BY DEF MixTouches
<1>2. /\ tombs' = tombs /\ snap' = snap /\ log' = log /\ tsnap' = tsnap /\ meta' = meta /\ lost' = lost
      /\ boot' = boot /\ basever' = basever /\ ops' = ops /\ faults' = faults
  BY DEF MixTouches, tdisk, bounds
<1>3. /\ x \in LogLine /\ x.path \in Path /\ x.op = "-" /\ x.path = pc[t].path
      /\ y \in LogLine /\ y.path \in Path /\ y.op \in {"+", "-"} /\ y.path = pc[u].path
      /\ pc[u].at \in {"touch", "removal"}
      /\ pc[u].at = "touch" => y.rec \in Touch /\ y.rec.base = basever
      /\ pc[u].at = "removal" => y.op = "-" /\ ~y.rec.key
  <2>1. x \in LogLine /\ x.path \in Path /\ x.op = "-" /\ x.path = pc[t].path
    BY TouchLines
  <2>2. /\ y \in LogLine /\ y.path \in Path /\ y.op \in {"+", "-"} /\ y.path = pc[u].path
        /\ pc[u].at \in {"touch", "removal"}
        /\ pc[u].at = "touch" => y.rec \in Touch /\ y.rec = [base |-> basever, key |-> pc[u].op = "write"]
        /\ pc[u].at = "removal" => y.op = "-" /\ y.rec = NoTouch
    BY TouchLines
  <2> QED  BY <2>1, <2>2 DEF NoTouch
<1>4. /\ pc \in [Thread -> Threads] /\ pc[t] \in Threads /\ pc[u] \in Threads
      /\ tlog \in Seq(LogLine) /\ ("tlog" \in open => tlog # <<>>) /\ {x, y} \in SUBSET LogLine
  BY <1>3 DEF Types, Filed
<1>5. Busy(t) /\ boot = "up" /\ \A v \in Thread : pc[v].at # "rewrite"
  BY CommitAlone DEF Busy
<1>6. /\ pc'[t] = [pc[t] EXCEPT !.at = "content"]
      /\ pc'[u] = [pc[u] EXCEPT !.at = IF @ = "removal" THEN "content" ELSE "tomb"]
      /\ \A v \in Thread : v # t /\ v # u => pc'[v] = pc[v]
      /\ pc' = [v \in Thread |-> pc'[v]]
  BY <1>1, <1>4
<1>7. /\ pc'[t] \in Threads /\ pc'[t].at = "content"
      /\ pc'[u] \in Threads /\ pc'[u].at = (IF pc[u].at = "removal" THEN "content" ELSE "tomb")
      /\ pc'[u].left = pc[u].left /\ pc'[t].left = pc[t].left
      /\ pc'[t].path = pc[t].path /\ pc'[u].path = pc[u].path
  BY <1>4, <1>6 DEF Threads, At
<1>8. pc' \in [Thread -> Threads]
  <2>1. \A v \in Thread : pc'[v] \in Threads
    BY <1>4, <1>6, <1>7
  <2> QED  BY <2>1, <1>6
<1>9. PICK l : l = Appended("tlog", tlog, Garbled(x))
  OBVIOUS
<1>10. tlog' = l \/ tlog' = Append(l, Garbled(Plus(y.path)))
  BY <1>1, <1>9
<1>11. /\ l \in Seq(LogLine) /\ l # <<>>
       /\ l = IF "tlog" \in open THEN Fused(tlog) ELSE Append(tlog, Garbled(x))
       /\ Loadable(l) => Loadable(tlog)
       /\ \A p \in Path : p \notin Spoilt("tlog", tlog, {x, y})
                             => ReplayTouches(tsnap, l)[p] = ReplayTouches(tsnap, tlog)[p]
  <2>1. /\ l \in Seq(LogLine) /\ l # <<>>
        /\ l = IF "tlog" \in open THEN Fused(tlog) ELSE Append(tlog, Garbled(x))
        /\ Loadable(l) => Loadable(tlog)
    BY <1>3, <1>4, <1>9, MixedLine
  <2>2. ASSUME NEW p \in Path, p \notin Spoilt("tlog", tlog, {x, y})
        PROVE  ReplayTouches(tsnap, l)[p] = ReplayTouches(tsnap, tlog)[p]
    BY <2>2, <1>3, <1>4, <1>9, MixedTouches
  <2> QED  BY <2>1, <2>2
<1>12. /\ Append(l, Garbled(Plus(y.path))) \in Seq(LogLine) /\ Append(l, Garbled(Plus(y.path))) # <<>>
       /\ ~Loadable(Append(l, Garbled(Plus(y.path))))
  <2>1. Plus(y.path) \in LogLine /\ Plus(y.path).op = "+"
    BY <1>3 DEF Plus, LogLine
  <2>2. Garbled(Plus(y.path)) \in LogLine /\ Garbled(Plus(y.path)).op = "junk"
    BY <2>1, GarbledLine
  <2> QED  BY <2>2, <1>11, FusedAppend, LoadableAppend
<1>13. /\ tlog' \in Seq(LogLine) /\ tlog' # <<>>
       /\ Loadable(tlog') => tlog' = l /\ Loadable(tlog)
  BY <1>10, <1>11, <1>12
<1>14. /\ Spoilt("tlog", tlog, {x, y}) \subseteq Path
       /\ About("tlog", x) \subseteq Spoilt("tlog", tlog, {x, y})
       /\ About("tlog", y) \subseteq Spoilt("tlog", tlog, {x, y})
  BY <1>4, SpoiltPaths
<1>15. /\ About("tlog", x) = Below[pc[t].path] /\ y.path \in About("tlog", y)
       /\ pc[u].at = "removal" => About("tlog", y) = Below[pc[u].path]
  BY <1>3, BelowAssumption DEF About
<1>16. /\ content' = IF y.rec.key THEN [content EXCEPT ![y.path] = basever] ELSE content
       /\ bare' = BareBefore(y)
       /\ open' = open \ {"tlog"} /\ tlost' = tlost \union Spoilt("tlog", tlog, {x, y})
       /\ touches' = IF pc[u].at = "removal" THEN touches ELSE [touches EXCEPT ![y.path] = y.rec]
  BY <1>1
<1>17. /\ content' \in [Path -> Version \union {NoContent}]
       /\ bare \subseteq bare' /\ bare' \subseteq Path
       /\ \A p \in Path : p # y.path => content'[p] = content[p]
       /\ y.rec.key => content'[y.path] = basever
       /\ ~y.rec.key => content' = content
  BY <1>16, CutContent
<1>18. /\ touches' \in Touches
       /\ \A p \in Path : p # y.path => touches'[p] = touches[p]
       /\ pc[u].at = "touch" => touches'[y.path] = y.rec
  BY <1>3, <1>16 DEF Types, Touches
<1>19. open' \subseteq {"log", "tlog"} /\ "tlog" \notin open' /\ ("log" \in open' => "log" \in open)
  BY <1>16 DEF Types
<1>20. Types'
  BY <1>2, <1>8, <1>13, <1>14, <1>16, <1>17, <1>18, <1>19 DEF Types
<1>21. Threaded'
  <2>1. /\ pc[u].at = "touch" => pc[u].left = {}
        /\ \A v \in {t, u} : pc[v].at = "removal" => pc[v].left \subseteq Below[pc[v].path]
    BY DEF Threaded
  <2>2. \A v \in {t, u} : /\ pc'[v].at \notin {"rewrite", "removal"}
                          /\ pc'[v].at \in {"idle", "touch", "tomb", "untomb", "untouch"} => pc'[v].left = {}
                          /\ pc'[v].at \in {"append", "content"} => pc'[v].left \subseteq Below[pc'[v].path]
    BY <2>1, <1>3, <1>7
  <2> QED  BY <2>2, <1>2, <1>5, <1>6, ThreadedTwo
<1>22. Filed'
  BY <1>2, <1>13, <1>19 DEF Filed
<1>23. TombsKept'
  <2>1. \A v \in Thread : pc[v].at \in {"rewrite", "append"} => pc'[v] = pc[v]
    BY <1>3, <1>6
  <2> QED  BY <2>1, <1>2, TombsFrame
<1>24. TouchesKept'
  <2> SUFFICES ASSUME Loadable(tlog'), NEW p \in Path, p \notin tlost'
               PROVE  \/ ReplayTouches(tsnap', tlog')[p] = touches'[p]
                      \/ \E v \in Thread :
                            /\ pc'[v].at = "removal" /\ p \in Below[pc'[v].path]
                            /\ ReplayTouches(tsnap', tlog')[p].key => p \in pc'[v].left
    BY DEF TouchesKept
  <2>1. /\ p \notin tlost /\ p \notin Spoilt("tlog", tlog, {x, y})
        /\ p \notin About("tlog", x) /\ p \notin About("tlog", y) /\ p # y.path
    BY <1>14, <1>15, <1>16
  <2>2. \/ ReplayTouches(tsnap, tlog)[p] = touches[p]
        \/ \E v \in Thread :
              /\ pc[v].at = "removal" /\ p \in Below[pc[v].path]
              /\ ReplayTouches(tsnap, tlog)[p].key => p \in pc[v].left
    BY <2>1, <1>5, <1>13 DEF Records, TouchesKept
  <2>3. ReplayTouches(tsnap', tlog')[p] = ReplayTouches(tsnap, tlog)[p] /\ touches'[p] = touches[p]
    BY <2>1, <1>2, <1>11, <1>13, <1>18
  <2>4. \A v \in Thread : pc[v].at = "removal" /\ p \in Below[pc[v].path] => pc'[v] = pc[v]
    BY <2>1, <1>6, <1>15
  <2> QED  BY <2>2, <2>3, <2>4
<1>25. MergeBaseKept'
  <2> SUFFICES ASSUME NEW p \in Path, touches'[p].key, p \notin bare'
               PROVE  content'[p] = touches'[p].base
    BY DEF MergeBaseKept
  <2>0. MergeBaseKept
    BY DEF Records
  <2>1. CASE p # y.path
    BY <2>0, <2>1, <1>5, <1>17, <1>18 DEF MergeBaseKept
  <2>2. CASE p = y.path /\ pc[u].at = "touch"
    BY <2>2, <1>3, <1>17, <1>18
  <2>3. CASE p = y.path /\ pc[u].at = "removal"
    BY <2>0, <2>3, <1>3, <1>5, <1>16, <1>17 DEF MergeBaseKept
  <2> QED  BY <2>1, <2>2, <2>3, <1>3
<1>26. Held(tlog)'
  <2>1. Garbled(x) \in LogLine /\ About("tlog", Garbled(x)) = {}
    BY <1>3, GarbledLine
  <2>2. /\ "tlog" \in open => HeldAfter(Fused(tlog))
        /\ HeldAfter(Append(tlog, Garbled(x)))
    BY <2>1, <1>16, HeldStill
  <2>3. HeldAfter(l)
    BY <2>2, <1>11
  <2>4. HeldAfter(tlog')
    BY <2>3, <1>13 DEF HeldAfter
  <2> QED  BY <2>4, <1>2 DEF Held, HeldAfter
<1>27. Records'
  BY <1>19, <1>24, <1>25, <1>26 DEF Records
<1>28. Migrating'
  BY <1>2, <1>5, UpIsMigrated
<1> QED  BY <1>20, <1>21, <1>22, <1>23, <1>27, <1>28

LEMMA LinesMixKeeps ==
    ASSUME IInv, NEW t \in Thread, NEW u \in Thread, LinesMix(t, u)
    PROVE  IInv'
BY MixTombsKeeps, MixTouchesKeeps DEF LinesMix

\* What a log holds does not come from a snapshot of an earlier release.
LEMMA HeldWithout ==
    ASSUME NEW r \in Touches, NEW u \in {r, NoTouches}, NEW l \in Seq(LogLine), NEW p \in Path,
           \A q \in Path : ~r[q].key, ReplayTouches(u, l)[p].key
    PROVE  ReplayTouches(u, l)[p] = ReplayTouches(r, l)[p]
<1>1. ~u[p].key
  BY NoTouchesType
<1>2. LastAbout("tlog", l, p) # {}
  BY <1>1, ReplayTouchesIs
<1>3. PICK i : i \in LastAbout("tlog", l, p)
  BY <1>2
<1> QED  BY <1>3, ReplayTouchesIs

\* The files after a crash.
CrashedFiles ==
    /\ snap' \subseteq Path /\ tsnap' \in Touches
    /\ log' \in Seq(LogLine) /\ tlog' \in Seq(LogLine)
    /\ open' \subseteq {"log", "tlog"}
    /\ content' \in [Path -> Version \union {NoContent}]
    /\ meta' \in BOOLEAN
    /\ bare' \subseteq Path
    /\ Filed'
    /\ Held(tlog)' /\ ("tlog" \in open => Held(Fused(tlog)))'

LEMMA CutShortCrash ==
    ASSUME IInv, NEW t \in Thread, CutShort(t)
    PROVE  CrashedFiles
<1> USE DEF IInv
<1>1. CASE CutTombs(t)
  <2>1. PICK x \in TombLine(t) : \E torn \in TornLog("log", log, x) :
           log' = torn.l /\ open' = WithOpen("log", torn.open)
    BY <1>1 DEF CutTombs
  <2>2. PICK torn \in TornLog("log", log, x) : log' = torn.l /\ open' = WithOpen("log", torn.open)
    BY <2>1
  <2>3. /\ snap' = snap /\ tsnap' = tsnap /\ tlog' = tlog /\ content' = content /\ meta' = meta /\ bare' = bare
    BY <1>1 DEF CutTombs
  <2>4. TombLine(t) \in SUBSET LogLine /\ x \in LogLine
    BY TombLines
  <2>5. /\ log' \in Seq(LogLine) /\ ("log" \in open' => log' # <<>>)
        /\ open' \subseteq {"log", "tlog"} /\ ("tlog" \in open' <=> "tlog" \in open)
    BY <2>2, <2>4, CutTomb
  <2>6. Filed'
    BY <2>3, <2>5 DEF Filed
  <2>7. Held(tlog)' /\ ("tlog" \in open => Held(Fused(tlog)))'
    BY <2>3, <2>5 DEF Records, Held
  <2> QED  BY <2>3, <2>5, <2>6, <2>7 DEF CrashedFiles, Types
<1>2. CASE CutTouches(t)
  <2>1. PICK x \in TouchLine(t) : \E torn \in TornLog("tlog", tlog, x) :
           /\ tlog' = torn.l /\ open' = WithOpen("tlog", torn.open)
           /\ content' = IF x.rec.key THEN [content EXCEPT ![x.path] = basever] ELSE content
           /\ bare' = BareBefore(x)
    BY <1>2 DEF CutTouches
  <2>2. PICK torn \in TornLog("tlog", tlog, x) :
           /\ tlog' = torn.l /\ open' = WithOpen("tlog", torn.open)
           /\ content' = IF x.rec.key THEN [content EXCEPT ![x.path] = basever] ELSE content
           /\ bare' = BareBefore(x)
    BY <2>1
  <2>3. snap' = snap /\ log' = log /\ tsnap' = tsnap /\ meta' = meta
    BY <1>2 DEF CutTouches
  <2>4. TouchLine(t) \in SUBSET LogLine /\ x \in LogLine /\ x.op \in {"+", "-"}
    BY TouchLines
  <2>5. /\ tlog' \in Seq(LogLine) /\ ("tlog" \in open' => tlog' # <<>>)
        /\ open' \subseteq {"log", "tlog"} /\ ("log" \in open' <=> "log" \in open)
    BY <2>2, <2>4, CutTouch
  <2>6. content' \in [Path -> Version \union {NoContent}] /\ bare' \subseteq Path
    BY <2>2, CutContent
  <2>7. Filed'
    BY <2>3, <2>5 DEF Filed
  <2>8. Held(tlog)' /\ ("tlog" \in open => Held(Fused(tlog)))'
    BY <2>2, <2>3, CutHeld
  <2> QED  BY <2>3, <2>5, <2>6, <2>7, <2>8 DEF CrashedFiles, Types
<1> QED  BY <1>1, <1>2, CutShortIs

LEMMA RemovedCrash ==
    ASSUME IInv, RemovedOrNot
    PROVE  CrashedFiles
<1> USE DEF IInv
<1>1. /\ snap' \in {snap, {}} /\ tsnap' \in {tsnap, NoTouches} /\ meta' \in BOOLEAN
      /\ \/ content' = content /\ bare' = bare
         \/ content' = [p \in Path |-> NoContent] /\ bare' = Path
  BY DEF RemovedOrNot
<1>2. /\ log' = log \/ (log' = <<>> /\ "log" \notin open')
      /\ tlog' = tlog \/ (tlog' = <<>> /\ "tlog" \notin open')
      /\ open' \subseteq open
  <2>1. PICK l \in SUBSET {"log", "tlog"} :
          /\ log' = IF "log" \in l THEN log ELSE <<>>
          /\ tlog' = IF "tlog" \in l THEN tlog ELSE <<>>
          /\ open' = open \intersect l
    BY DEF RemovedOrNot
  <2> QED  BY <2>1
<1>3. log' \in Seq(LogLine) /\ tlog' \in Seq(LogLine) /\ open' \subseteq {"log", "tlog"}
  <2>1. <<>> \in Seq(LogLine)
    OBVIOUS
  <2> QED  BY <2>1, <1>2 DEF Types
<1>4. /\ snap' \subseteq Path /\ tsnap' \in Touches /\ bare' \subseteq Path
      /\ content' \in [Path -> Version \union {NoContent}]
  BY <1>1, NoTouchesType DEF Types
<1>5. Filed'
  BY <1>1, <1>2, NoTouchesType DEF Filed
<1>6. ASSUME NEW l \in Seq(LogLine), l = <<>> \/ Held(l) PROVE Held(l)'
  <2> SUFFICES ASSUME Loadable(l), NEW p \in Path, ReplayTouches(tsnap', l)[p].key, p \notin bare'
               PROVE  content'[p] = ReplayTouches(tsnap', l)[p].base
    BY DEF Held
  <2>1. content' = content /\ bare' = bare
    BY <1>1
  <2>2. tsnap \in Touches /\ \A q \in Path : ~tsnap[q].key
    BY DEF Types, Filed
  <2>3. ReplayTouches(tsnap', l)[p] = ReplayTouches(tsnap, l)[p]
    BY <2>2, <1>1, HeldWithout
  <2>4. l # <<>>
    BY <1>5, ReplayEmpty DEF Filed
  <2>5. Held(l)
    BY <2>4, <1>6
  <2> QED  BY <2>1, <2>3, <2>5 DEF Held
<1>7. Held(tlog)'
  <2>1. PICK l : l = tlog'
    OBVIOUS
  <2>2. l \in Seq(LogLine) /\ (l = <<>> \/ Held(l))
    BY <2>1, <1>2, <1>3 DEF Records
  <2>3. Held(l)'
    BY <2>2, <1>6
  <2> QED  BY <2>1, <2>3 DEF Held
<1>8. ("tlog" \in open => Held(Fused(tlog)))'
  <2> SUFFICES ASSUME "tlog" \in open' PROVE Held(Fused(tlog))'
    OBVIOUS
  <2>1. tlog' = tlog /\ Held(Fused(tlog)) /\ tlog \in Seq(LogLine) /\ tlog # <<>>
    BY <1>2 DEF Records, Filed, Types
  <2>2. PICK l : l = Fused(tlog)
    OBVIOUS
  <2>3. l \in Seq(LogLine) /\ Held(l)
    BY <2>1, <2>2, FusedLog
  <2>4. Held(l)'
    BY <2>3, <1>6
  <2> QED  BY <2>1, <2>2, <2>4 DEF Held
<1> QED  BY <1>1, <1>3, <1>4, <1>5, <1>7, <1>8 DEF CrashedFiles

LEMMA CrashKeeps ==
    ASSUME IInv, Crash
    PROVE  IInv'
<1> USE DEF IInv
<1>1. /\ faults < MaxFaults /\ faults' = faults + 1 /\ boot' = "down" /\ pc' = [t \in Thread |-> Idle]
      /\ tombs' = {} /\ touches' = NoTouches /\ lost' = {} /\ tlost' = {}
      /\ basever' = basever /\ ops' = ops
      /\ \/ UNCHANGED <<disk, bare>>
         \/ \E t \in Thread : CutShort(t)
         \/ RemovedOrNot
  BY DEF Crash, Fault
<1>2. CrashedFiles
  <2>1. CASE UNCHANGED <<disk, bare>>
    <3>1. /\ snap' = snap /\ log' = log /\ tsnap' = tsnap /\ tlog' = tlog /\ content' = content
          /\ open' = open /\ meta' = meta /\ bare' = bare
      BY <2>1 DEF disk, tdisk, rdisk
    <3>2. Filed' /\ Held(tlog)' /\ ("tlog" \in open => Held(Fused(tlog)))'
      BY <3>1 DEF Filed, Records, Held
    <3> QED  BY <3>1, <3>2 DEF CrashedFiles, Types
  <2>2. CASE \E t \in Thread : CutShort(t)
    BY <2>2, CutShortCrash
  <2>3. CASE RemovedOrNot
    BY <2>3, RemovedCrash
  <2> QED  BY <1>1, <2>1, <2>2, <2>3
<1>3. /\ pc' \in [Thread -> Threads] /\ \A t \in Thread : pc'[t].at = "idle" /\ pc'[t].left = {}
  BY <1>1, IdleIs
<1>4. Types'
  <2>1. (faults \in 0..MaxFaults)'
    BY <1>1, BoundAssumption DEF Types
  <2> QED  BY <2>1, <1>1, <1>2, <1>3, NoTouchesType DEF Types, CrashedFiles
<1>5. Threaded'
  BY <1>3 DEF Threaded, Busy
<1>6. TombsKept'
  BY <1>1 DEF TombsKept
<1>7. Records'
  BY <1>1, <1>2 DEF Records, TouchesKept, MergeBaseKept, CrashedFiles
<1>8. Migrating'
  BY <1>1, UpIsMigrated
<1> QED  BY <1>2, <1>4, <1>5, <1>6, <1>7, <1>8 DEF CrashedFiles

----------------------------------------------------------------------------
(* Starting again                                                          *)

\* What is read of the tombstones is the same before and after each step of
\* migrate_legacy_tombstones.
LEMMA TombsMigrated ==
    ASSUME Types
    PROVE  /\ MigratedTombstones \in Seq(LogLine) /\ (log # <<>> => MigratedTombstones # <<>>)
           /\ \A p \in Path, u \in {snap, {}} :
                 p \in Replay(u, MigratedTombstones) <=> p \in Replay(snap, log)
<1>1. PICK k \in Seq(LogLine) : /\ MigratedTombstones = k \o log
                                /\ \A i \in DOMAIN k : k[i].op = "+" /\ k[i].path \in snap
                                /\ \A q \in snap : \E i \in DOMAIN k : k[i].path = q
  BY MigrationLines
<1>2. log \in Seq(LogLine)
  BY DEF Types
<1>3. MigratedTombstones \in Seq(LogLine) /\ (log # <<>> => MigratedTombstones # <<>>)
  BY <1>1, <1>2, MigratedFile
<1>4. Joined("log", k, log, MigratedTombstones)
  BY <1>1, <1>2, LastConcat
<1>5. \A i \in DOMAIN k : k[i].op = "+" /\ k[i].path \in snap
  BY <1>1
<1>6. \A q \in snap : \E i \in DOMAIN k : k[i].path = q
  BY <1>1
<1>7. PICK m : m = MigratedTombstones
  OBVIOUS
<1>8. ASSUME NEW p \in Path, NEW u \in {snap, {}} PROVE p \in Replay(u, m) <=> p \in Replay(snap, log)
  <2>1. u \in SUBSET snap /\ m \in Seq(LogLine) /\ Joined("log", k, log, m)
    BY <1>3, <1>4, <1>7
  <2> QED  BY <2>1, <1>2, <1>5, <1>6, MigratedTombs
<1> QED  BY <1>3, <1>7, <1>8

LEMMA RecordsMigrated ==
    ASSUME Types
    PROVE  /\ MigratedTouches \in Seq(LogLine)
           /\ Loadable(MigratedTouches) <=> Loadable(tlog)
           /\ \A p \in Path, u \in {tsnap, NoTouches} :
                 ReplayTouches(u, MigratedTouches)[p] = ReplayTouches(tsnap, tlog)[p]
           /\ tlog # <<>> =>
                 /\ MigratedTouches # <<>>
                 /\ Loadable(Fused(MigratedTouches)) <=> Loadable(Fused(tlog))
                 /\ \A p \in Path : ReplayTouches(tsnap, Fused(MigratedTouches))[p]
                                       = ReplayTouches(tsnap, Fused(tlog))[p]
<1>1. PICK k \in Seq(LogLine) : /\ MigratedTouches = k \o tlog
                                /\ \A i \in DOMAIN k : /\ k[i].op = "+" /\ k[i].path \in Touched(tsnap)
                                                       /\ k[i].rec = tsnap[k[i].path]
                                /\ \A q \in Touched(tsnap) : \E i \in DOMAIN k : k[i].path = q
  BY MigrationLines
<1>2. tlog \in Seq(LogLine) /\ tsnap \in Touches
  BY DEF Types
<1>3. \A i \in DOMAIN k : k[i].op = "+"
  BY <1>1
<1>4. \A i \in DOMAIN k : k[i].op = "+" /\ k[i].path \in Touched(tsnap) /\ k[i].rec = tsnap[k[i].path]
  BY <1>1
<1>5. \A q \in Touched(tsnap) : \E i \in DOMAIN k : k[i].path = q
  BY <1>1
<1>6. ASSUME NEW l \in Seq(LogLine), NEW m, m = k \o l, NEW p \in Path, NEW u \in {tsnap, NoTouches}
      PROVE  ReplayTouches(u, m)[p] = ReplayTouches(tsnap, l)[p]
  <2>1. PICK n : n = k \o l
    OBVIOUS
  <2>2. n \in Seq(LogLine) /\ Joined("tlog", k, l, n)
    BY <2>1, <1>3, MigratedFile, LastConcat
  <2>3. ReplayTouches(u, n)[p] = ReplayTouches(tsnap, l)[p]
    BY <2>2, <1>2, <1>4, <1>5, MigratedRecords
  <2> QED  BY <2>1, <2>3, <1>6
<1>7. MigratedTouches \in Seq(LogLine) /\ (Loadable(MigratedTouches) <=> Loadable(tlog))
  BY <1>1, <1>2, <1>3, MigratedFile
<1>8. \A p \in Path, u \in {tsnap, NoTouches} :
         ReplayTouches(u, MigratedTouches)[p] = ReplayTouches(tsnap, tlog)[p]
  <2>1. MigratedTouches = k \o tlog
    BY <1>1
  <2> QED  BY <2>1, <1>2, <1>6
<1>9. ASSUME tlog # <<>>
      PROVE  /\ MigratedTouches # <<>>
             /\ Loadable(Fused(MigratedTouches)) <=> Loadable(Fused(tlog))
             /\ \A p \in Path : ReplayTouches(tsnap, Fused(MigratedTouches))[p]
                                   = ReplayTouches(tsnap, Fused(tlog))[p]
  <2>1. MigratedTouches # <<>> /\ Fused(MigratedTouches) = k \o Fused(tlog)
    BY <1>1, <1>2, <1>3, <1>9, MigratedFile
  <2>2. Fused(tlog) \in Seq(LogLine)
    BY <1>2, <1>9, FusedLog
  <2>3. Loadable(Fused(MigratedTouches)) <=> Loadable(Fused(tlog))
    BY <2>1, <2>2, <1>3, MigratedFile
  <2>4. \A p \in Path : ReplayTouches(tsnap, Fused(MigratedTouches))[p] = ReplayTouches(tsnap, Fused(tlog))[p]
    BY <2>1, <2>2, <1>6
  <2> QED  BY <2>1, <2>3, <2>4
<1> QED  BY <1>7, <1>8, <1>9

\* The steps of Branch::load.
Migration ==
    \/ /\ boot = "down" /\ boot' \in {"touches", "absent"}
       /\ UNCHANGED <<tombs, touches, snap, log, tsnap, tlog, content>>
    \/ /\ boot = "touches" /\ boot' = "tombs"
       /\ UNCHANGED <<tombs, touches, snap, log, tsnap, tlog, content>>
    \/ /\ boot = "touches" /\ boot' = "tsnap" /\ tlog' = MigratedTouches
       /\ UNCHANGED <<tombs, touches, snap, log, tsnap, content>>
    \/ /\ boot = "tsnap" /\ boot' = "tombs" /\ tsnap' = NoTouches
       /\ UNCHANGED <<tombs, touches, snap, log, tlog, content>>
    \/ /\ boot = "tombs" /\ boot' = "load"
       /\ UNCHANGED <<tombs, touches, snap, log, tsnap, tlog, content>>
    \/ /\ boot = "tombs" /\ boot' = "snap" /\ log' = MigratedTombstones
       /\ UNCHANGED <<tombs, touches, snap, tsnap, tlog, content>>
    \/ /\ boot = "snap" /\ boot' = "load" /\ snap' = {}
       /\ UNCHANGED <<tombs, touches, log, tsnap, tlog, content>>
    \/ /\ boot = "load" /\ boot' = "up" /\ Loadable(tlog)
       /\ tombs' = Replay(snap, log) /\ touches' = ReplayTouches(tsnap, tlog)
       /\ UNCHANGED <<snap, log, tsnap, tlog, content>>
    \/ /\ boot = "load" /\ boot' = "skipped"
       /\ UNCHANGED <<tombs, touches, snap, log, tsnap, tlog, content>>

LEMMA BootIs ==
    ASSUME Boot
    PROVE  /\ Migration /\ open' = open /\ meta' = meta /\ pc' = pc /\ basever' = basever
           /\ lost' = lost /\ tlost' = tlost /\ bare' = bare /\ ops' = ops /\ faults' = faults
<1>1. /\ pc' = pc /\ basever' = basever
      /\ lost' = lost /\ tlost' = tlost /\ bare' = bare /\ ops' = ops /\ faults' = faults
  BY DEF Boot, ghosts, bounds
<1>2. Migration /\ open' = open /\ meta' = meta
  <2>1. Load
    BY DEF Boot
  <2> QED  BY <2>1 DEF Load, Migration, memory, disk, tdisk, rdisk
<1> QED  BY <1>1, <1>2

\* A migration keeps what is read, and what touches.log holds.
LEMMA MigrationReads ==
    ASSUME IInv, Migration, open' = open
    PROVE  /\ \A p \in Path : p \in Replay(snap', log') <=> p \in Replay(snap, log)
           /\ \A p \in Path : ReplayTouches(tsnap', tlog')[p] = ReplayTouches(tsnap, tlog)[p]
<1> USE DEF IInv
<1>1. CASE snap' = snap /\ log' = log /\ tsnap' = tsnap /\ tlog' = tlog
  BY <1>1
<1>2. CASE tlog' = MigratedTouches /\ snap' = snap /\ log' = log /\ tsnap' = tsnap
  BY <1>2, RecordsMigrated
<1>3. CASE boot = "tsnap" /\ tsnap' = NoTouches /\ snap' = snap /\ log' = log /\ tlog' = tlog
  BY <1>3 DEF Migrating
<1>4. CASE log' = MigratedTombstones /\ snap' = snap /\ tsnap' = tsnap /\ tlog' = tlog
  BY <1>4, TombsMigrated
<1>5. CASE boot = "snap" /\ snap' = {} /\ log' = log /\ tsnap' = tsnap /\ tlog' = tlog
  BY <1>5 DEF Migrating
<1> QED  BY <1>1, <1>2, <1>3, <1>4, <1>5 DEF Migration

LEMMA BootKeeps ==
    ASSUME IInv, Boot
    PROVE  IInv'
<1> USE DEF IInv
<1>1. /\ Migration /\ open' = open /\ meta' = meta /\ pc' = pc /\ basever' = basever
      /\ lost' = lost /\ tlost' = tlost /\ bare' = bare /\ ops' = ops /\ faults' = faults
  BY BootIs
<1>2. boot # "up" /\ \A t \in Thread : pc[t].at = "idle" /\ pc[t].left = {}
  BY <1>1 DEF Migration, Threaded, Busy
<1>3. Threaded'
  BY <1>1, <1>2 DEF Threaded, Busy
<1>4. CASE boot' = "up"
  <2>1. /\ Loadable(tlog) /\ tombs' = Replay(snap, log) /\ touches' = ReplayTouches(tsnap, tlog)
        /\ snap' = snap /\ log' = log /\ tsnap' = tsnap /\ tlog' = tlog /\ content' = content
    BY <1>1, <1>4 DEF Migration
  <2>2. tombs' \subseteq Path /\ touches' \in Touches /\ TombsKept' /\ Records' /\ Migrating'
    BY <2>1, <1>1, <1>2, <1>4, LoadedKeeps
  <2>3. Types'
    BY <2>1, <2>2, <1>1, <1>4 DEF Types
  <2>4. Filed'
    BY <2>1, <1>1 DEF Filed
  <2> QED  BY <2>2, <2>3, <2>4, <1>3
<1>5. CASE boot' # "up"
  <2>1. /\ tombs' = tombs /\ touches' = touches /\ content' = content
        /\ snap' \in {snap, {}} /\ tsnap' \in {tsnap, NoTouches}
        /\ log' \in {log, MigratedTombstones} /\ tlog' \in {tlog, MigratedTouches}
        /\ boot' \in {"down", "touches", "tsnap", "tombs", "snap", "load", "up", "skipped", "absent"}
    BY <1>1, <1>5 DEF Migration
  <2>2. /\ log' \in Seq(LogLine) /\ (log # <<>> => log' # <<>>)
        /\ tlog' \in Seq(LogLine) /\ (tlog # <<>> => tlog' # <<>>)
    BY <2>1, TombsMigrated, RecordsMigrated DEF Types
  <2>3. Types'
    BY <2>1, <2>2, <1>1, NoTouchesType DEF Types
  <2>4. Filed'
    BY <2>1, <2>2, <1>1, NoTouchesType DEF Filed
  <2>5. TombsKept' /\ TouchesKept' /\ MergeBaseKept'
    BY <1>5 DEF TombsKept, TouchesKept, MergeBaseKept
  <2>6. /\ tsnap' = tsnap \/ tlog' = tlog
        /\ Loadable(tlog') <=> Loadable(tlog)
    BY <2>1, <1>1, RecordsMigrated DEF Migration
  <2>7. Held(tlog)'
    <3>1. \A p \in Path : ReplayTouches(tsnap', tlog')[p] = ReplayTouches(tsnap, tlog)[p]
      BY <1>1, MigrationReads
    <3>2. Held(tlog)
      BY DEF Records
    <3> QED  BY <3>1, <3>2, <2>1, <2>6, <1>1 DEF Held
  <2>8. ("tlog" \in open => Held(Fused(tlog)))'
    <3> SUFFICES ASSUME "tlog" \in open', Loadable(Fused(tlog')), NEW p \in Path,
                        ReplayTouches(tsnap', Fused(tlog'))[p].key, p \notin bare'
                 PROVE  content'[p] = ReplayTouches(tsnap', Fused(tlog'))[p].base
      BY DEF Held
    <3>1. /\ Held(Fused(tlog)) /\ tlog # <<>> /\ tlog \in Seq(LogLine) /\ Fused(tlog) \in Seq(LogLine)
          /\ tsnap \in Touches /\ \A q \in Path : ~tsnap[q].key
      BY <1>1, FusedLog DEF Records, Filed, Types
    <3>2. CASE tlog' = tlog
      <4>1. ReplayTouches(tsnap', Fused(tlog))[p].key
        BY <3>2
      <4>2. ReplayTouches(tsnap', Fused(tlog))[p] = ReplayTouches(tsnap, Fused(tlog))[p]
        BY <4>1, <3>1, <2>1, HeldWithout
      <4> QED  BY <4>1, <4>2, <3>1, <3>2, <2>1, <1>1 DEF Held
    <3>3. CASE tlog' = MigratedTouches /\ tsnap' = tsnap
      <4>1. /\ Loadable(Fused(tlog))
            /\ ReplayTouches(tsnap', Fused(tlog'))[p] = ReplayTouches(tsnap, Fused(tlog))[p]
        BY <3>1, <3>3, RecordsMigrated
      <4> QED  BY <4>1, <3>1, <2>1, <1>1 DEF Held
    <3> QED  BY <3>2, <3>3, <2>1, <2>6
  <2>9. Migrating'
    <3>1. boot' = "tsnap" => tlog' = MigratedTouches /\ tsnap' = tsnap
      BY <1>1 DEF Migration
    <3>2. boot' = "snap" => log' = MigratedTombstones /\ snap' = snap
      BY <1>1 DEF Migration
    <3> QED  BY <3>1, <3>2, TombsMigrated, RecordsMigrated DEF Migrating
  <2>10. Records'
    BY <2>5, <2>7, <2>8 DEF Records
  <2> QED  BY <2>3, <2>4, <2>5, <2>9, <2>10, <1>3
<1> QED  BY <1>4, <1>5

----------------------------------------------------------------------------
(* The specification keeps the invariant                                   *)

\* A store of an earlier release.
LEMMA InitHolds == Init => IInv
<1> SUFFICES ASSUME Init PROVE IInv
  OBVIOUS
<1>1. /\ snap \in SUBSET Path /\ log = <<>> /\ tlog = <<>> /\ open = {}
      /\ content = [p \in Path |-> NoContent] /\ meta = TRUE /\ boot = "down"
      /\ tombs = {} /\ touches = NoTouches /\ pc = [t \in Thread |-> Idle] /\ basever = 0
      /\ lost = {} /\ tlost = {} /\ bare = {} /\ ops = 0 /\ faults = 0
  BY DEF Init
<1>2. PICK S \in SUBSET Path :
         tsnap = [p \in Path |-> IF p \in S THEN [base |-> 0, key |-> FALSE] ELSE NoTouch]
  BY DEF Init
<1>3. \A p \in Path : tsnap[p] \in Touch \union {NoTouch} /\ ~tsnap[p].key
  <2>1. [base |-> 0, key |-> FALSE] \in Touch
    BY BoundAssumption DEF Touch, Version
  <2> QED  BY <2>1, <1>2 DEF NoTouch
<1>4. tsnap \in Touches
  BY <1>2, <1>3 DEF Touches
<1>5. pc \in [Thread -> Threads] /\ \A t \in Thread : pc[t].at = "idle" /\ pc[t].left = {}
  BY <1>1, IdleIs
<1>6. Types
  <2>1. basever \in Version /\ ops \in 0..MaxOps /\ faults \in 0..MaxFaults
    BY <1>1, BoundAssumption DEF Version
  <2>2. <<>> \in Seq(LogLine)
    OBVIOUS
  <2> QED  BY <2>1, <2>2, <1>1, <1>4, <1>5, NoTouchesType DEF Types
<1>7. Threaded
  BY <1>5 DEF Threaded, Busy
<1>8. Filed
  BY <1>1, <1>3 DEF Filed
<1>9. TombsKept /\ Migrating
  BY <1>1 DEF TombsKept, Migrating
<1>10. Records
  <2>1. \A p \in Path : ReplayTouches(tsnap, <<>>)[p] = tsnap[p]
    BY ReplayEmpty
  <2>2. Held(tlog)
    BY <2>1, <1>1, <1>3 DEF Held
  <2> QED  BY <2>2, <1>1 DEF Records, TouchesKept, MergeBaseKept
<1> QED  BY <1>6, <1>7, <1>8, <1>9, <1>10 DEF IInv

LEMMA StutterKeeps ==
    ASSUME IInv, UNCHANGED vars
    PROVE  IInv'
<1> USE DEF IInv
<1>1. /\ tombs' = tombs /\ touches' = touches /\ snap' = snap /\ log' = log /\ tsnap' = tsnap
      /\ tlog' = tlog /\ content' = content /\ open' = open /\ meta' = meta /\ boot' = boot /\ pc' = pc
      /\ basever' = basever /\ lost' = lost /\ tlost' = tlost /\ bare' = bare
      /\ ops' = ops /\ faults' = faults
  BY DEF vars, memory, disk, tdisk, rdisk, ghosts, bounds
<1>2. Types' /\ Threaded' /\ Filed' /\ Migrating'
  BY <1>1 DEF Types, Threaded, Filed, Busy, Migrating
<1>3. TombsKept' /\ Records'
  BY <1>1, TombsFrame, RecordsFrame
<1> QED  BY <1>2, <1>3

LEMMA StepKeeps == IInv /\ [Next]_vars => IInv'
<1> SUFFICES ASSUME IInv, [Next]_vars PROVE IInv'
  OBVIOUS
<1>1. ASSUME NEW t \in Thread, ThreadStep(t) PROVE IInv'
  <2>1. CASE RecordFirstTouch(t)
    BY <2>1, RecordFirstTouchKeeps
  <2>2. CASE SetTombstone(t)
    BY <2>2, SetTombstoneKeeps
  <2>3. CASE RemoveTombstonesUnder(t)
    BY <2>3, RemoveTombstonesUnderKeeps
  <2>4. CASE AppendRemoved(t)
    BY <2>4, AppendRemovedKeeps
  <2>5. CASE RemoveTouchesUnder(t)
    BY <2>5, RemoveTouchesUnderKeeps
  <2>6. CASE AppendTouchRemoval(t)
    BY <2>6, AppendTouchRemovalKeeps
  <2>7. CASE RemoveContent(t)
    BY <2>7, RemoveContentKeeps
  <2>8. CASE RewriteTombstones(t)
    BY <2>8, RewriteTombstonesKeeps
  <2> QED  BY <1>1, <2>1, <2>2, <2>3, <2>4, <2>5, <2>6, <2>7, <2>8 DEF ThreadStep
<1>2. ASSUME NEW t \in Thread, WriteFails(t) PROVE IInv'
  BY <1>2, WriteFailsKeeps
<1>12. ASSUME NEW t \in Thread, RewriteFails(t) PROVE IInv'
  BY <1>12, RewriteFailsKeeps
<1>13. ASSUME NEW new \in SUBSET Path, SetTombstonesFails(new) PROVE IInv'
  BY <1>13, SetTombstonesFailsKeeps
<1>11. ASSUME NEW t \in Thread, NEW u \in Thread, LinesMix(t, u) PROVE IInv'
  BY <1>11, LinesMixKeeps
<1>3. ASSUME NEW t \in Thread, NEW p \in Path, NEW op \in Op, Start(t, op, p) PROVE IInv'
  BY <1>3, StartKeeps
<1>4. ASSUME NEW t \in Thread, NEW new \in SUBSET Path, SetTombstones(t, new) PROVE IInv'
  BY <1>4, SetTombstonesKeeps
<1>5. CASE BaseChanges
  BY <1>5, BaseChangesKeeps
<1>6. CASE RemoveBranch
  BY <1>6, RemoveBranchKeeps
<1>7. CASE CreateBranch
  BY <1>7, CreateBranchKeeps
<1>8. CASE Crash
  BY <1>8, CrashKeeps
<1>9. CASE Boot
  BY <1>9, BootKeeps
<1>10. CASE UNCHANGED vars
  BY <1>10, StutterKeeps
<1> QED  BY <1>1, <1>2, <1>3, <1>4, <1>5, <1>6, <1>7, <1>8, <1>9, <1>10, <1>11, <1>12, <1>13 DEF Next

LEMMA Invariant == Spec => []IInv
BY InitHolds, StepKeeps, PTL DEF Spec

----------------------------------------------------------------------------
(* Theorems                                                                *)

\* Branch keeps the types of its state, on disk and in memory, and a revert
\* handles only paths under its own.
THEOREM TypeCorrect == Spec => []TypeOK
<1>1. IInv => TypeOK
  BY DEF IInv, Threaded, TypeOK
<1> QED  BY <1>1, Invariant, PTL

\* Whatever threads delete, write, revert and commit, and wherever a write
\* fails or the daemon dies, the next start reads the tombstones that were in
\* memory, but for the paths TombstonesDurable names.
THEOREM TombstonesKept == Spec => []TombstonesDurable
<1>1. IInv => TombstonesDurable
  BY DEF IInv, TombsKept, TombstonesDurable
<1> QED  BY <1>1, Invariant, PTL

\* The same of the touch records, as long as touches.log can be read.
THEOREM RecordsKept == Spec => []TouchesDurable
<1>1. IInv => TouchesDurable
  BY DEF IInv, Records, TouchesKept, TouchesDurable
<1> QED  BY <1>1, Invariant, PTL

\* The content file of a touch record holds the base of its first touch, after
\* any number of crashes and restarts.
THEOREM MergeBasesKept == Spec => []MergeBaseKept
<1>1. IInv => MergeBaseKept
  BY DEF IInv, Records
<1> QED  BY <1>1, Invariant, PTL

\* No step of Branch::load, and no crash in the middle of it, changes what
\* the files of the branch say.
THEOREM MigrationIsSilent == Spec => MigrationChangesNothing
<1>1. ASSUME IInv, [Next]_vars, boot \notin {"up", "skipped", "absent"}, boot' # "absent"
      PROVE  /\ Replay(snap', log') = Replay(snap, log)
             /\ ReplayTouches(tsnap', tlog') = ReplayTouches(tsnap, tlog)
  <2>1. \A t \in Thread : pc[t].at = "idle"
    BY <1>1 DEF IInv, Threaded, Busy
  <2>2. \A t \in Thread : TombLine(t) = {} /\ TouchLine(t) = {}
    BY <2>1, <1>1, TombLines, TouchLines DEF IInv
  <2>3. CASE Boot
    <3>1. /\ \A p \in Path : p \in Replay(snap', log') <=> p \in Replay(snap, log)
          /\ \A p \in Path : ReplayTouches(tsnap', tlog')[p] = ReplayTouches(tsnap, tlog)[p]
      BY <2>3, <1>1, BootIs, MigrationReads
    <3>2. Replay(snap', log') \subseteq Path /\ Replay(snap, log) \subseteq Path
      BY DEF Replay
    <3>3. /\ ReplayTouches(tsnap', tlog') = [p \in Path |-> ReplayTouches(tsnap', tlog')[p]]
          /\ ReplayTouches(tsnap, tlog) = [p \in Path |-> ReplayTouches(tsnap, tlog)[p]]
      BY DEF ReplayTouches
    <3> QED  BY <3>1, <3>2, <3>3
  <2>4. CASE snap' = snap /\ log' = log /\ tsnap' = tsnap /\ tlog' = tlog
    BY <2>4
  <2>5. Crash => snap' = snap /\ log' = log /\ tsnap' = tsnap /\ tlog' = tlog
    BY <2>2, <1>1 DEF Crash, CutShort, disk, tdisk, rdisk
  <2>6. \A t \in Thread : ~ThreadStep(t) /\ ~WriteFails(t) /\ ~RewriteFails(t)
    BY <2>1, <1>1 DEF ThreadStep, WriteFails, RewriteFails, RecordFirstTouch, SetTombstone, RemoveTombstonesUnder,
          AppendRemoved, RemoveTouchesUnder, AppendTouchRemoval, RemoveContent, RewriteTombstones
  <2>9. \A t, u \in Thread : ~LinesMix(t, u)
    BY <2>1 DEF LinesMix
  <2>7. /\ \A t \in Thread, op \in Op, p \in Path : ~Start(t, op, p)
        /\ \A t \in Thread, new \in SUBSET Path : ~SetTombstones(t, new)
        /\ \A new \in SUBSET Path : ~SetTombstonesFails(new)
        /\ ~BaseChanges /\ ~RemoveBranch /\ ~CreateBranch
    BY <1>1 DEF Start, SetTombstones, SetTombstonesFails, BaseChanges, RemoveBranch, CreateBranch
  <2>8. UNCHANGED vars => snap' = snap /\ log' = log /\ tsnap' = tsnap /\ tlog' = tlog
    BY DEF vars, disk, tdisk, rdisk
  <2> QED  BY <1>1, <2>3, <2>4, <2>5, <2>6, <2>7, <2>8, <2>9 DEF Next
<1>2. IInv /\ [Next]_vars =>
         [boot \notin {"up", "skipped", "absent"} /\ boot' \notin {"absent"} =>
            /\ Replay(snap, log)' = Replay(snap, log)
            /\ Loadable(tlog) => ReplayTouches(tsnap, tlog)' = ReplayTouches(tsnap, tlog)]_vars
  BY <1>1
<1> QED  BY <1>2, Invariant, PTL DEF Spec, MigrationChangesNothing
=============================================================================
