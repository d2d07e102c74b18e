------------------------ MODULE BranchManager_proofs ------------------------
(***************************************************************************)
(* The branch table, for every set of paths, branches and operations and   *)
(* every bound.                                                            *)
(*                                                                         *)
(* First its type and its lineage.  The two are one induction: an          *)
(* operation reads entries along the chain of a branch, so its result has  *)
(* its type only if every branch of the chain is still in the table, and   *)
(* that is LineageOK.                                                      *)
(*                                                                         *)
(* Then its trees: they stay trees, whatever copy-ups, renames, prunes,    *)
(* commits, failed commits and rollbacks come; a revert restores what is   *)
(* inherited; a tombstone is added only where it hides something; what a   *)
(* branch hides never shows in it or in its descendants; a file operation  *)
(* changes the path it is about and no other; and a commit gives the       *)
(* parent the view of the branch.                                          *)
(***************************************************************************)
EXTENDS BranchManager, TextMerge_proofs

-----------------------------------------------------------------------------
(***************************************************************************)
(* Trees.                                                                  *)
(***************************************************************************)
LEMMA EntryType ==
    /\ Missing \in Entry /\ Dir \in Entry /\ Symlink \in Entry
    /\ File(<<>>) \in Entry /\ \A l \in Seq(Line) : File(l) \in Entry
    /\ EmptyTree \in Tree
BY DEF Missing, Dir, Symlink, File, Entry, Kind, EmptyTree, Tree

\* remove_entry leaves a tree of entries.
LEMMA RemoveTreeType ==
    ASSUME NEW t \in Tree, NEW S
    PROVE  RemoveTree(t, S) \in Tree
BY EntryType DEF RemoveTree, Tree

\* ensure_parent_dirs leaves a tree of entries.
LEMMA MkParentsType ==
    ASSUME NEW t \in Tree, NEW S
    PROVE  MkParents(t, S) \in Tree
BY EntryType DEF MkParents, Tree

\* prune_empty_delta_parents leaves a tree of entries.
LEMMA PruneType ==
    ASSUME NEW t \in Tree, NEW touched, NEW starts
    PROVE  Prune(t, touched, starts) \in Tree
BY EntryType DEF Prune, Tree

-----------------------------------------------------------------------------
(***************************************************************************)
(* The text of a merge is a sequence of lines.                             *)
(***************************************************************************)
LEMMA SliceType ==
    ASSUME NEW L, NEW s \in Seq(L), NEW m \in Int, NEW n \in Int,
           1 <= m, n <= Len(s)
    PROVE  SubSeq(s, m, n) \in Seq(L)
<1>1. \A i \in m..n : s[i] \in L
  OBVIOUS
<1> QED  BY <1>1, SubSeqProperties

\* The woven text of a merge is a sequence of lines.
LEMMA WeaveType ==
    ASSUME NEW L, NEW text \in Seq(L), NEW first, NEW second,
           first.start \in 0..Len(text), first.end \in 0..Len(text),
           first.repl \in Seq(L),
           second.start \in 0..Len(text), second.end \in 0..Len(text),
           second.repl \in Seq(L)
    PROVE  Weave(text, first, second).text \in Seq(L)
<1>1. /\ SubSeq(text, 1, first.start) \in Seq(L)
      /\ SubSeq(text, first.end + 1, second.start) \in Seq(L)
      /\ SubSeq(text, second.end + 1, Len(text)) \in Seq(L)
  BY SliceType
<1>2. SubSeq(text, 1, first.start) \o first.repl
        \o SubSeq(text, first.end + 1, second.start) \o second.repl
        \o SubSeq(text, second.end + 1, Len(text)) \in Seq(L)
  BY <1>1
<1> QED  BY <1>2 DEF Weave, Panic, Clean

\* A clean merge of sequences of lines is one too.
LEMMA MergeTextType ==
    ASSUME NEW L, NEW text \in Seq(L), NEW cur \in Seq(L), NEW ses \in Seq(L)
    PROVE  TryThreeWayTextMerge(text, cur, ses).text \in Seq(L)
<1> DEFINE x == ChangedRange(text, cur)
           y == ChangedRange(text, ses)
<1>1. /\ x.start \in 0..Len(text) /\ x.end \in 0..Len(text) /\ x.repl \in Seq(L)
      /\ y.start \in 0..Len(text) /\ y.end \in 0..Len(text) /\ y.repl \in Seq(L)
  <2>1. /\ x.start \in 0..Len(text) /\ x.end \in x.start..Len(text)
        /\ x.repl \in Seq(L)
    BY ChangedRangeInBounds
  <2>2. /\ y.start \in 0..Len(text) /\ y.end \in y.start..Len(text)
        /\ y.repl \in Seq(L)
    BY ChangedRangeInBounds
  <2> HIDE DEF x, y
  <2> QED  BY <2>1, <2>2
<1>2. Weave(text, x, y).text \in Seq(L) /\ Weave(text, y, x).text \in Seq(L)
  <2> HIDE DEF x, y
  <2> QED  BY <1>1, WeaveType
<1> HIDE DEF x, y
<1>3. TryThreeWayTextMerge(text, cur, ses)
        \in {Clean(ses), Clean(cur), Conflict, Weave(text, x, y), Weave(text, y, x)}
  BY DEF TryThreeWayTextMerge, x, y
<1>4. /\ Clean(ses).text \in Seq(L) /\ Clean(cur).text \in Seq(L)
      /\ Conflict.text \in Seq(L)
  BY DEF Clean, Conflict
<1> HIDE DEF Clean, Conflict
<1> QED  BY <1>2, <1>3, <1>4, Zenon

-----------------------------------------------------------------------------
(***************************************************************************)
(* Resolution returns entries: every branch it visits is in the table.     *)
(***************************************************************************)
LEMMA RecordType ==
    ASSUME TypeOK, NEW c \in DOMAIN branches
    PROVE  branches[c] \in BranchRecord
BY DEF TypeOK

\* The fields of a branch in the table have their types.
LEMMA FieldType ==
    ASSUME NEW r \in BranchRecord
    PROVE  /\ r.parent \in Branch /\ r.chain \in Seq(Branch)
           /\ r.mode \in {"lazy", "snapshot"} /\ r.frozen \in BOOLEAN
           /\ r.forkver \in Nat /\ r.commits \in Nat
           /\ r.hide \in SUBSET Path /\ r.inh \in Tree /\ r.delta \in Tree
           /\ r.tomb \in SUBSET Path /\ r.touch \in [Path -> TouchRecord]
           /\ r.sess \in 0..MaxEpoch
BY DEF BranchRecord

\* A chain that can be followed.
Live(ch) == /\ ch \in Seq(Branch) /\ Len(ch) > 0
            /\ \A i \in 1..Len(ch) : ch[i] \in DOMAIN branches

\* What the last branch of a chain inherits from is a tree of entries.
LEMMA UnderlayType ==
    ASSUME TypeOK, NEW ch, Live(ch), NEW p \in Path
    PROVE  Underlay(ch)[p] \in Entry
<1>1. ch[Len(ch)] \in DOMAIN branches
  BY DEF Live
<1>2. branches[ch[Len(ch)]].inh \in Tree /\ base \in Tree
  BY <1>1, RecordType, FieldType DEF TypeOK
<1> QED  BY <1>2 DEF Underlay, Tree

\* A lookup along branches of the table finds an entry.
LEMMA ResolveAlongType ==
    ASSUME TypeOK, NEW ch, Live(ch), NEW p \in Path
    PROVE  ResolveAlong(ch, p) \in Entry
<1> DEFINE k == CHOOSE i \in 1..Len(ch) : FirstDecider(ch, p, i)
<1>1. CASE \E i \in 1..Len(ch) : FirstDecider(ch, p, i)
  <2>1. k \in 1..Len(ch)
    BY <1>1
  <2> HIDE DEF k
  <2>2. ch[k] \in DOMAIN branches
    BY <2>1 DEF Live
  <2>3. branches[ch[k]].delta[p] \in Entry
    BY <2>2, RecordType, FieldType DEF Tree
  <2> QED  BY <1>1, <2>3 DEF ResolveAlong, k
<1>2. CASE ~ \E i \in 1..Len(ch) : FirstDecider(ch, p, i)
  BY <1>2, UnderlayType DEF ResolveAlong
<1> QED  BY <1>1, <1>2

\* The branches on a chain are in the table.
LEMMA ChainLive ==
    ASSUME TypeOK, LineageOK, NEW b \in DOMAIN branches
    PROVE  Live(branches[b].chain)
BY RecordType, FieldType DEF LineageOK, ChainOK, Live

\* resolve_path_locked finds an entry.
LEMMA ResolvePathType ==
    ASSUME TypeOK, LineageOK, NEW b \in DOMAIN branches, NEW p \in Path
    PROVE  ResolvePath(b, p) \in Entry
BY ChainLive, ResolveAlongType DEF ResolvePath

\* A chain without its first branch is still one of the table's branches.
LEMMA TailLive ==
    ASSUME NEW ch, Live(ch), Len(ch) # 1
    PROVE  Live(Tail(ch))
<1>1. ch \in Seq(Branch) /\ Len(ch) \in Nat /\ Len(ch) > 1 /\ ch # <<>>
  <2>1. ch \in Seq(Branch) /\ Len(ch) > 0
    BY DEF Live
  <2>2. Len(ch) \in Nat
    BY <2>1
  <2>3. Len(ch) > 1
    BY <2>1, <2>2
  <2> QED  BY <2>1, <2>2, <2>3
<1>2. /\ Tail(ch) \in Seq(Branch) /\ Len(Tail(ch)) = Len(ch) - 1
      /\ \A i \in 1..Len(Tail(ch)) : Tail(ch)[i] = ch[i + 1]
  BY <1>1, HeadTailProperties
<1>3. \A i \in 1..(Len(ch) - 1) : ch[i + 1] \in DOMAIN branches
  <2> TAKE i \in 1..(Len(ch) - 1)
  <2>1. i + 1 \in 1..Len(ch)
    BY <1>1
  <2> QED  BY <2>1 DEF Live
<1> QED  BY <1>1, <1>2, <1>3 DEF Live

\* inherited_resolve_path_locked finds an entry, hidden or not.
LEMMA InheritedType ==
    ASSUME TypeOK, LineageOK, NEW b \in DOMAIN branches, NEW p \in Path
    PROVE  InheritedPath(b, p) \in Entry /\ InheritedForTouch(b, p) \in Entry
<1> DEFINE ch == branches[b].chain
<1>1. Live(ch)
  BY ChainLive
<1>2. InheritedPath(b, p) \in Entry
  <2>1. CASE Len(ch) = 1
    BY <2>1, <1>1, UnderlayType DEF InheritedPath
  <2>2. CASE Len(ch) # 1
    <3>1. Live(Tail(ch))
      BY <2>2, <1>1, TailLive
    <3>2. ResolveAlong(Tail(ch), p) \in Entry
      BY <3>1, ResolveAlongType
    <3> QED  BY <2>2, <3>2 DEF InheritedPath
  <2> QED  BY <2>1, <2>2
<1> QED  BY <1>2, EntryType DEF InheritedForTouch

\* snapshot_visible_tree is a tree of entries.
LEMMA SnapshotType ==
    ASSUME TypeOK, LineageOK, NEW b \in DOMAIN branches
    PROVE  SnapshotVisibleTree(b) \in Tree
BY ResolvePathType, EntryType DEF SnapshotVisibleTree, Tree

-----------------------------------------------------------------------------
(***************************************************************************)
(* What the operations of one branch make of its record.                   *)
(***************************************************************************)
\* The part of a record that the lineage depends on.
SameLineage(r, s) == /\ r.parent = s.parent /\ r.chain = s.chain
                     /\ r.mode = s.mode /\ r.sess = s.sess
                     /\ r.forkver = s.forkver /\ r.commits = s.commits

\* r is a record that a file operation may leave in place of s.
Follows(r, s) == r \in BranchRecord /\ SameLineage(r, s)

\* s with its files, tombstones and touches replaced.
WithFiles(s, touch, t, D) == [s EXCEPT !.touch = touch, !.delta = t, !.tomb = D]

\* A record given other files, tombstones and touches keeps its identity.
LEMMA FilesReplaced ==
    ASSUME NEW s \in BranchRecord, NEW t \in Tree, NEW D \in SUBSET Path,
           NEW touch \in [Path -> TouchRecord]
    PROVE  Follows(WithFiles(s, touch, t, D), s)
BY DEF WithFiles, BranchRecord, Follows, SameLineage

\* Two changes of a record that each keep its identity keep it together.
LEMMA FollowsTrans ==
    ASSUME NEW r, NEW s, NEW t, Follows(r, s), Follows(s, t)
    PROVE  Follows(r, t)
BY DEF Follows, SameLineage

\* record_first_touch keeps the touch records typed.
LEMMA TouchType ==
    ASSUME NEW touch \in [Path -> TouchRecord], NEW p \in Path, NEW src \in Entry,
           NEW capture \in BOOLEAN
    PROVE  RecordFirstTouch(touch, p, src, capture) \in [Path -> TouchRecord]
<1>1. Touch(src, capture /\ IsFile(src) /\ p \in TextPath) \in TouchRecord
  BY DEF Touch, TouchRecord
<1> HIDE DEF Touch, TouchRecord
<1> QED  BY <1>1 DEF RecordFirstTouch

\* Copy-up changes only delta, tombstones and touch records.
LEMMA EnsureDeltaType ==
    ASSUME NEW r \in BranchRecord, NEW p \in Path, NEW src \in Entry
    PROVE  /\ Follows(EnsureDelta(r, p, src), r)
           /\ IF Exists(r.delta[p]) THEN EnsureDelta(r, p, src).delta = r.delta
              ELSE IsLeaf(src) => EnsureDelta(r, p, src).delta[p] = src
<1> DEFINE copy == IF IsLeaf(src) THEN [r.delta EXCEPT ![p] = src] ELSE r.delta
           touch == RecordFirstTouch(r.touch, p, src, TRUE)
<1>1. r.delta \in Tree /\ r.tomb \in SUBSET Path /\ r.touch \in [Path -> TouchRecord]
  BY FieldType
<1>2. copy \in Tree /\ MkParents(copy, {p}) \in Tree
  <2>1. copy \in Tree
    BY <1>1 DEF Tree
  <2> QED  BY <2>1, MkParentsType
<1>3. touch \in [Path -> TouchRecord]
  BY <1>1, TouchType
<1>4. CASE Exists(r.delta[p])
  <2>1. EnsureDelta(r, p, src) = [r EXCEPT !.tomb = @ \ {p}]
    BY <1>4 DEF EnsureDelta
  <2> QED  BY <2>1, <1>1, <1>4 DEF Follows, SameLineage, BranchRecord
<1>5. CASE ~Exists(r.delta[p])
  <2>1. EnsureDelta(r, p, src) = WithFiles(r, touch, MkParents(copy, {p}), r.tomb \ {p})
    BY <1>5 DEF EnsureDelta, WithFiles
  <2>2. Follows(EnsureDelta(r, p, src), r)
    <3> HIDE DEF copy, touch
    <3> QED  BY <2>1, <1>1, <1>2, <1>3, FilesReplaced
  <2>3. EnsureDelta(r, p, src).delta = MkParents(copy, {p})
    <3> HIDE DEF copy, touch
    <3> QED  BY <2>1 DEF BranchRecord, WithFiles
  <2>4. IsLeaf(src) => MkParents(copy, {p})[p] = src
    <3> SUFFICES ASSUME IsLeaf(src) PROVE MkParents(copy, {p})[p] = src
      OBVIOUS
    <3>1. copy[p] = src
      BY <1>1 DEF Tree
    <3> HIDE DEF copy
    <3> QED  BY <3>1 DEF MkParents, Exists, IsLeaf
  <2> QED  BY <2>2, <2>3, <2>4, <1>5
<1> QED  BY <1>4, <1>5

\* One entry of the delta written.
LEMMA PutEntry ==
    ASSUME NEW r \in BranchRecord, NEW p \in Path, NEW e \in Entry
    PROVE  Follows([r EXCEPT !.delta[p] = e], r)
<1>1. [r.delta EXCEPT ![p] = e] \in Tree
  BY FieldType DEF Tree
<1>2. [r EXCEPT !.delta[p] = e] = [r EXCEPT !.delta = [r.delta EXCEPT ![p] = e]]
  OBVIOUS
<1> QED  BY <1>1, <1>2 DEF Follows, SameLineage, BranchRecord

\* mkdir and symlink change only delta, tombstones and touch records.
LEMMA PlaceType ==
    ASSUME NEW r \in BranchRecord, NEW p \in Path, NEW src \in Entry, NEW e \in Entry
    PROVE  Follows([EnsureDelta(r, p, src) EXCEPT !.delta[p] = e], r)
<1>1. Follows(EnsureDelta(r, p, src), r)
  BY EnsureDeltaType
<1>2. EnsureDelta(r, p, src) \in BranchRecord
  BY <1>1 DEF Follows
<1> QED  BY <1>1, <1>2, PutEntry, FollowsTrans

\* unlink and rmdir change only delta, tombstones and touch records.
LEMMA DropPathType ==
    ASSUME NEW r \in BranchRecord, NEW p \in Path, NEW src \in Entry
    PROVE  Follows(DropPath(r, p, src), r)
<1> DEFINE touch == RecordFirstTouch(r.touch, p, src, FALSE)
           cut == Prune(RemoveTree(r.delta, {p}), {q \in Path : touch[q].made},
                        {ParentDir(p)})
           t == IF Exists(r.delta[p]) THEN cut ELSE r.delta
           D == IF Exists(src) THEN r.tomb \cup {p} ELSE r.tomb \ {p}
<1>1. r.delta \in Tree /\ r.tomb \in SUBSET Path /\ r.touch \in [Path -> TouchRecord]
  BY FieldType
<1>2. touch \in [Path -> TouchRecord]
  BY <1>1, TouchType
<1>3. cut \in Tree
  <2> HIDE DEF touch
  <2> QED  BY <1>1, RemoveTreeType, PruneType
<1>4. t \in Tree /\ D \in SUBSET Path
  <2> HIDE DEF cut
  <2> QED  BY <1>1, <1>3
<1>5. DropPath(r, p, src) = WithFiles(r, touch, t, D)
  BY DEF DropPath, WithFiles
<1> HIDE DEF touch, t, D
<1> QED  BY <1>2, <1>4, <1>5, FilesReplaced

\* revert changes only delta, tombstones and touch records.
LEMMA RevertType ==
    ASSUME NEW r \in BranchRecord, NEW p \in Path
    PROVE  Follows(RevertRecord(r, p), r)
<1> DEFINE touch == [q \in Path |-> IF q \in Under(p) THEN NoTouch ELSE r.touch[q]]
           cut == Prune(RemoveTree(r.delta, {p}), {q \in Path : r.touch[q].made},
                        {ParentDir(p)})
           t == IF Exists(r.delta[p]) THEN cut ELSE r.delta
           D == r.tomb \ Under(p)
<1>1. r.delta \in Tree /\ r.tomb \in SUBSET Path /\ r.touch \in [Path -> TouchRecord]
  BY FieldType
<1>2. touch \in [Path -> TouchRecord]
  <2>1. NoTouch \in TouchRecord
    BY EntryType DEF NoTouch, TouchRecord
  <2> QED  BY <1>1, <2>1
<1>3. cut \in Tree
  BY <1>1, RemoveTreeType, PruneType
<1>4. t \in Tree /\ D \in SUBSET Path
  <2> HIDE DEF cut
  <2> QED  BY <1>1, <1>3
<1>5. RevertRecord(r, p) = WithFiles(r, touch, t, D)
  BY DEF RevertRecord, WithFiles
<1> HIDE DEF touch, t, D
<1> QED  BY <1>2, <1>4, <1>5, FilesReplaced

\* A line written into or after a text leaves a text.
LEMMA PutLineType ==
    ASSUME NEW l \in Seq(Line), NEW i \in Nat \ {0}, NEW x \in Line
    PROVE  PutLine(l, i, x) \in Seq(Line)
<1>1. CASE i <= Len(l)
  <2>1. [l EXCEPT ![i] = x] \in Seq(Line)
    BY <1>1
  <2> QED  BY <1>1, <2>1 DEF PutLine
<1>2. CASE ~(i <= Len(l))
  BY <1>2, AppendProperties DEF PutLine
<1> QED  BY <1>1, <1>2

\* write changes only delta, tombstones and touch records.
LEMMA WriteLineType ==
    ASSUME NEW r \in BranchRecord, NEW p \in Path, NEW src \in Entry,
           NEW i \in Nat \ {0}
    PROVE  Follows(WriteLine(r, p, src, i), r)
<1> DEFINE r1 == EnsureDelta(r, p, src)
           l == PutLine(r1.delta[p].lines, i, r.sess + 1)
           e == [r1.delta[p] EXCEPT !.lines = l]
<1>1. Follows(r1, r)
  BY EnsureDeltaType
<1>2. r1 \in BranchRecord
  BY <1>1 DEF Follows
<1> HIDE DEF r1
<1>3. r1.delta[p] \in Entry
  BY <1>2, FieldType DEF Tree
<1>4. r.sess + 1 \in Line
  BY FieldType, LineAssumption, BoundAssumption
<1>5. l \in Seq(Line)
  <2>1. r1.delta[p].lines \in Seq(Line)
    BY <1>3 DEF Entry
  <2> QED  BY <1>4, <2>1, PutLineType
<1> HIDE DEF l
<1>6. e \in Entry
  BY <1>3, <1>5 DEF Entry
<1>7. WriteLine(r, p, src, i) = [r1 EXCEPT !.delta[p] = e]
  BY DEF WriteLine, r1, l
<1> HIDE DEF e
<1> QED  BY <1>1, <1>2, <1>6, <1>7, PutEntry, FollowsTrans

\* Replacing the delta, with or without the tombstones.
LEMMA DeltaReplaced ==
    ASSUME NEW s \in BranchRecord, NEW t \in Tree, NEW D \in SUBSET Path
    PROVE  /\ Follows([s EXCEPT !.delta = t], s)
           /\ Follows([s EXCEPT !.delta = t, !.tomb = D], s)
BY DEF Follows, SameLineage, BranchRecord

\* The copy-ups of rename change only delta, tombstones and touch records.
LEMMA RenameCopiedType ==
    ASSUME NEW r \in BranchRecord, NEW s \in Path, NEW d \in Path,
           NEW srcS \in Entry, NEW srcD \in Entry
    PROVE  Follows(RenameCopied(r, s, d, srcS, srcD), r)
<1>1. Follows(EnsureDelta(r, s, srcS), r)
  BY EnsureDeltaType
<1>2. EnsureDelta(r, s, srcS) \in BranchRecord
  BY <1>1 DEF Follows
<1>3. Follows(RenameCopied(r, s, d, srcS, srcD), EnsureDelta(r, s, srcS))
  BY <1>2, EnsureDeltaType DEF RenameCopied
<1> QED  BY <1>1, <1>3, FollowsTrans

\* rename, finished or failed, changes only delta, tombstones and touch records.
LEMMA RenameType ==
    ASSUME NEW r \in BranchRecord, NEW s \in Path, NEW d \in Path,
           NEW srcS \in Entry, NEW srcD \in Entry
    PROVE  Follows(RenameRecord(r, s, d, srcS, srcD), r)
<1> DEFINE r2 == RenameCopied(r, s, d, srcS, srcD)
           t == RenameCleared(r, s, d, srcS, srcD)
           moved == [q \in Path |->
                      IF q \in Under(s) THEN Missing
                      ELSE IF q \in Under(d)
                           THEN IF Moved(s, d, q) \in Path THEN t[Moved(s, d, q)]
                                ELSE Missing
                      ELSE t[q]]
           D == (IF Exists(srcS) THEN r2.tomb \cup {s} ELSE r2.tomb \ {s}) \ {d}
<1>1. Follows(r2, r) /\ r2 \in BranchRecord
  BY RenameCopiedType DEF Follows
<1>2. t \in Tree
  <2>1. t \in {RemoveTree(r2.delta, {d}), r2.delta}
    BY DEF RenameCleared
  <2> HIDE DEF r2, t
  <2>2. r2.delta \in Tree
    BY <1>1, FieldType
  <2> QED  BY <2>1, <2>2, RemoveTreeType
<1>3. moved \in Tree
  <2> HIDE DEF t
  <2> QED  BY <1>2, EntryType DEF Tree
<1>4. D \in SUBSET Path
  <2> HIDE DEF r2
  <2> QED  BY <1>1, FieldType
<1>5. \/ RenameRecord(r, s, d, srcS, srcD) = [r2 EXCEPT !.delta = moved, !.tomb = D]
      \/ RenameRecord(r, s, d, srcS, srcD) = [r2 EXCEPT !.delta = t]
  BY DEF RenameRecord
<1> HIDE DEF r2, t, moved, D
<1>6. CASE RenameRecord(r, s, d, srcS, srcD) = [r2 EXCEPT !.delta = moved, !.tomb = D]
  <2>1. Follows([r2 EXCEPT !.delta = moved, !.tomb = D], r2)
    BY <1>1, <1>3, <1>4, DeltaReplaced
  <2> QED  BY <1>1, <1>6, <2>1, FollowsTrans
<1>7. CASE RenameRecord(r, s, d, srcS, srcD) = [r2 EXCEPT !.delta = t]
  <2>1. Follows([r2 EXCEPT !.delta = t], r2)
    BY <1>1, <1>2, DeltaReplaced
  <2> QED  BY <1>1, <1>7, <2>1, FollowsTrans
<1> QED  BY <1>5, <1>6, <1>7

-----------------------------------------------------------------------------
(***************************************************************************)
(* What a commit writes.                                                   *)
(***************************************************************************)
LEMMA MergeSourceType ==
    ASSUME TypeOK, LineageOK, NEW b \in DOMAIN branches, NEW p \in Path
    PROVE  MergeSource(b, p) \in Entry
<1>1. branches[b].touch[p] \in TouchRecord /\ branches[b].delta[p] \in Entry
  BY RecordType, FieldType DEF Tree
<1>2. InheritedForTouch(b, p) \in Entry
  BY InheritedType
<1>3. /\ branches[b].touch[p].id.lines \in Seq(Line)
      /\ branches[b].delta[p].lines \in Seq(Line)
      /\ InheritedForTouch(b, p).lines \in Seq(Line)
  BY <1>1, <1>2 DEF TouchRecord, Entry
<1>4. MergeOf(b, p).text \in Seq(Line)
  BY <1>3, MergeTextType DEF MergeOf
<1> QED  BY <1>1, <1>4, EntryType DEF MergeSource

\* Publishing a commit leaves a tree of entries.
LEMMA PublishedType ==
    ASSUME TypeOK, LineageOK, NEW b \in DOMAIN branches, NEW t \in Tree
    PROVE  Published(b, t) \in Tree
<1> DEFINE files == DeltaFiles(branches[b])
           cleared == MkParents(RemoveTree(t, branches[b].tomb \cup files), files)
<1>1. cleared \in Tree
  BY RemoveTreeType, MkParentsType
<1> HIDE DEF files, cleared
<1>2. \A q \in Path : MergeSource(b, q) \in Entry /\ cleared[q] \in Entry
  BY <1>1, MergeSourceType DEF Tree
<1> QED  BY <1>2 DEF Published, Tree, files, cleared

\* So does a commit whose discard fails.
LEMMA HalfPublishedType ==
    ASSUME TypeOK, LineageOK, NEW b \in DOMAIN branches, NEW t \in Tree
    PROVE  HalfPublished(b, t) \subseteq Tree
<1>1. Published(b, t) \in Tree
  BY PublishedType
<1> QED  BY <1>1 DEF HalfPublished, Tree

\* So does a commit that is rolled back.
LEMMA RolledBackType ==
    ASSUME NEW b, NEW t \in Tree
    PROVE  RolledBack(b, t) \subseteq Tree
<1> DEFINE dels == {u \in branches[b].tomb : Exists(t[u])}
           cut == RemoveTree(t, dels)
           replaced(done) == {p \in done : IsDir(cut[p])}
           rest(done) == MkParents(RemoveTree(cut, replaced(done)), done)
<1>1. \A done : rest(done) \in Tree
  BY RemoveTreeType, MkParentsType
<1> DEFINE taken(done) == {u \in dels : \E p \in done : p \in Below(u) /\
                                          (ParentDir(p) # u \/ ~IsDir(t[u]))}
           inside(done) == {u \in dels : \E v \in replaced(done) : u \in Below(v)}
           after(done, lost) ==
             [q \in Path |->
                IF /\ \E u \in dels \cup replaced(done) : q \in Under(u)
                   /\ \A u \in lost \cup inside(done) \cup taken(done) : q \notin Under(u)
                THEN t[q] ELSE rest(done)[q]]
           nested == {u \in dels : \E v \in dels : u \in Below(v)}
           runs == SUBSET (DeltaFiles(branches[b]) \ BlockedFiles(b, t))
<1>2. RolledBack(b, t) = UNION {{after(done, lost) : lost \in SUBSET nested} :
                                  done \in runs}
  BY DEF RolledBack
<1>3. \A done, lost : after(done, lost) \in Tree
  <2> TAKE done, lost
  <2>1. rest(done) \in Tree
    BY <1>1
  <2> HIDE DEF rest, taken, inside, dels, replaced
  <2> QED  BY <2>1 DEF Tree
<1> HIDE DEF after, nested, runs
<1> QED  BY <1>2, <1>3

-----------------------------------------------------------------------------
(***************************************************************************)
(* The lineage survives every step that keeps what a record says of it and *)
(* removes no branch but leaves.                                           *)
(***************************************************************************)
KeepsLineage(r, s) == /\ r.parent = s.parent /\ r.chain = s.chain
                      /\ r.mode = s.mode /\ r.sess = s.sess
                      /\ r.forkver = s.forkver /\ s.commits <= r.commits

\* A record that keeps its identity stays where it is in the lineage.
LEMMA FollowsKeeps ==
    ASSUME NEW s \in BranchRecord, NEW r, Follows(r, s)
    PROVE  r \in BranchRecord /\ KeepsLineage(r, s)
BY FieldType DEF Follows, SameLineage, KeepsLineage

\* The lineage depends only on parents, chains, modes, forks and commit counts.
LEMMA LineageFrame ==
    ASSUME TypeOK, LineageOK,
           DOMAIN branches' \subseteq DOMAIN branches,
           \A c \in DOMAIN branches \ DOMAIN branches' : c # Main /\ IsLeafBranch(c),
           \A c \in DOMAIN branches' : /\ branches'[c] \in BranchRecord
                                       /\ KeepsLineage(branches'[c], branches[c]),
           epoch' \in Nat, epoch <= epoch'
    PROVE  LineageOK'
<1>1. ASSUME NEW c \in DOMAIN branches' \ {Main}
      PROVE  ParentOK(c)'
  <2> DEFINE m == branches[c].parent
  <2>1. m \in DOMAIN branches /\ branches[m].sess < branches[c].sess
        /\ branches[c].forkver <= branches[m].commits
    BY <1>1 DEF LineageOK, ParentOK
  <2>2. branches'[c].parent = m /\ branches'[c].sess = branches[c].sess
        /\ branches'[c].forkver = branches[c].forkver
    BY <1>1 DEF KeepsLineage
  <2>3. m \in DOMAIN branches'
    BY <1>1, <2>1 DEF IsLeafBranch
  <2>4. branches'[m].sess = branches[m].sess /\ branches[m].commits <= branches'[m].commits
    BY <2>3 DEF KeepsLineage
  <2>5. branches[c].forkver \in Nat /\ branches[m].commits \in Nat
        /\ branches'[m].commits \in Nat
    BY <1>1, <2>1, <2>3, RecordType, FieldType
  <2> HIDE DEF m
  <2> QED  BY <2>1, <2>2, <2>3, <2>4, <2>5 DEF ParentOK
<1>2. ASSUME NEW c \in DOMAIN branches'
      PROVE  ChainOK(c)'
  <2> DEFINE ch == branches[c].chain
  <2>1. ch \in Seq(Branch) /\ Len(ch) \in Nat
    BY <1>2, RecordType, FieldType
  <2>2. /\ Len(ch) > 0 /\ ch[1] = c
        /\ \A i \in 1..Len(ch) : ch[i] \in DOMAIN branches
        /\ \A i \in 1..(Len(ch) - 1) : /\ ch[i] # Main
                                       /\ branches[ch[i]].mode = "lazy"
                                       /\ branches[ch[i]].parent = ch[i + 1]
        /\ branches[ch[Len(ch)]].mode = LastMode(ch[Len(ch)])
    BY <1>2 DEF LineageOK, ChainOK
  <2>3. branches'[c].chain = ch
    BY <1>2 DEF KeepsLineage
  <2> HIDE DEF ch
  <2>4. ASSUME NEW i \in 1..Len(ch)
        PROVE  ch[i] \in DOMAIN branches'
    <3>1. CASE i = 1
      BY <3>1, <1>2, <2>2
    <3>2. CASE i # 1
      <4> DEFINE j == i - 1
      <4>1. j \in 1..(Len(ch) - 1) /\ j \in 1..Len(ch) /\ j + 1 = i
        BY <3>2, <2>1, <2>4
      <4> HIDE DEF j
      <4>2. ch[j] \in DOMAIN branches \ {Main} /\ branches[ch[j]].parent = ch[i]
        BY <4>1, <2>2
      <4>3. ~IsLeafBranch(ch[i])
        BY <4>2 DEF IsLeafBranch
      <4> QED  BY <4>3, <2>2, <2>4
    <3> QED  BY <3>1, <3>2
  <2>5. \A i \in 1..Len(ch) : /\ branches'[ch[i]].mode = branches[ch[i]].mode
                              /\ branches'[ch[i]].parent = branches[ch[i]].parent
    BY <2>4 DEF KeepsLineage
  <2>6. \A i \in 1..(Len(ch) - 1) : /\ ch[i] # Main
                                    /\ branches'[ch[i]].mode = "lazy"
                                    /\ branches'[ch[i]].parent = ch[i + 1]
    <3> TAKE i \in 1..(Len(ch) - 1)
    <3>1. i \in 1..Len(ch)
      BY <2>1
    <3>2. /\ ch[i] # Main /\ branches[ch[i]].mode = "lazy"
          /\ branches[ch[i]].parent = ch[i + 1]
      BY <2>2
    <3> QED  BY <3>1, <3>2, <2>5
  <2>7. branches'[ch[Len(ch)]].mode = LastMode(ch[Len(ch)])
    BY <2>1, <2>2, <2>5
  <2> QED  BY <2>2, <2>3, <2>4, <2>6, <2>7 DEF ChainOK
<1>3. ASSUME NEW c \in DOMAIN branches'
      PROVE  branches'[c].sess <= epoch'
  <2>1. branches'[c].sess = branches[c].sess /\ branches[c].sess <= epoch
    BY <1>3 DEF LineageOK, KeepsLineage
  <2>2. branches[c].sess \in Nat /\ epoch \in Nat
    BY <1>3, RecordType, FieldType DEF TypeOK
  <2> QED  BY <2>1, <2>2
<1> QED  BY <1>1, <1>2, <1>3 DEF LineageOK

-----------------------------------------------------------------------------
(***************************************************************************)
(* The steps.                                                              *)
(***************************************************************************)
IInv == TypeOK /\ LineageOK

\* The report of a step without a commit is typed.
LEMMA EndedType ==
    ASSUME NEW status \in {"ok", "eio", "failed"}
    PROVE  Ended(status) \in Report
BY DEF Ended, Report

\* One branch's record is replaced.
LEMMA SetStep ==
    ASSUME IInv, NEW b \in DOMAIN branches, NEW r, Follows(r, branches[b]), Set(b, r),
           epoch' \in 0..MaxEpoch, epoch <= epoch'
    PROVE  /\ branches' \in [DOMAIN branches' -> BranchRecord]
           /\ DOMAIN branches' = DOMAIN branches
           /\ LineageOK'
<1> USE DEF IInv
<1>1. /\ branches' = [branches EXCEPT ![b] = r]
      /\ branches \in [DOMAIN branches -> BranchRecord]
  BY DEF Set, TypeOK
<1>2. r \in BranchRecord /\ KeepsLineage(r, branches[b])
  BY RecordType, FollowsKeeps
<1>3. branches' \in [DOMAIN branches -> BranchRecord] /\ DOMAIN branches' = DOMAIN branches
  BY <1>1, <1>2
<1>4. \A c \in DOMAIN branches : KeepsLineage(branches[c], branches[c])
  BY RecordType, FieldType DEF KeepsLineage
<1>5. \A c \in DOMAIN branches' : /\ branches'[c] \in BranchRecord
                                  /\ KeepsLineage(branches'[c], branches[c])
  BY <1>1, <1>2, <1>3, <1>4
<1>6. LineageOK'
  <2>1. epoch' \in Nat
    OBVIOUS
  <2> QED  BY <1>3, <1>5, <2>1, LineageFrame
<1> QED  BY <1>3, <1>6

\* Every file operation ends in FileOp.
LEMMA FileOpStep ==
    ASSUME IInv, NEW b \in DOMAIN branches, NEW r, Follows(r, branches[b]),
           NEW status \in {"ok", "eio"}, ops < MaxOps, FileOp(b, r, status)
    PROVE  IInv'
<1>1. /\ Set(b, r) /\ base' = base /\ epoch' = epoch /\ ops' = ops + 1
      /\ report' \in Report
  BY EndedType DEF FileOp
<1>2. /\ base \in Tree /\ DOMAIN branches \subseteq Branch /\ Main \in DOMAIN branches
      /\ epoch \in 0..MaxEpoch /\ ops \in 0..MaxOps
  BY DEF IInv, TypeOK
<1>3. /\ branches' \in [DOMAIN branches' -> BranchRecord]
      /\ DOMAIN branches' = DOMAIN branches
      /\ LineageOK'
  BY <1>1, <1>2, SetStep
<1>4. ops' \in 0..MaxOps
  BY <1>1, <1>2, BoundAssumption
<1> QED  BY <1>1, <1>2, <1>3, <1>4 DEF IInv, TypeOK

\* The first touch is recorded and nothing else.
LEMMA TouchedOnly ==
    ASSUME NEW r \in BranchRecord, NEW p \in Path, NEW src \in Entry
    PROVE  Follows([r EXCEPT !.touch = RecordFirstTouch(@, p, src, TRUE)], r)
<1>1. RecordFirstTouch(r.touch, p, src, TRUE) \in [Path -> TouchRecord]
  BY FieldType, TouchType
<1> QED  BY <1>1 DEF Follows, SameLineage, BranchRecord

\* Every file operation preserves the invariant.
LEMMA FileOperationStep ==
    ASSUME IInv, NEW b \in DOMAIN branches, NEW p \in Path, FileOperation(b, p)
    PROVE  IInv'
<1> DEFINE src == InheritedForTouch(b, p)
           r == branches[b]
<1>1. src \in Entry /\ r \in BranchRecord
  BY InheritedType, RecordType DEF IInv
<1> USE DEF MayWrite, Issued
<1>2. ASSUME NEW i \in 1..MaxLines, WriteData(b, p, i) PROVE IInv'
  <2>1. ops < MaxOps /\ FileOp(b, WriteLine(r, p, src, i), "ok")
    BY <1>2 DEF WriteData
  <2>2. Follows(WriteLine(r, p, src, i), r)
    <3> HIDE DEF src, r
    <3> QED  BY <1>1, WriteLineType
  <2> QED  BY <2>1, <2>2, FileOpStep
<1>3. CASE NoSpace(b, p)
  <2> DEFINE n == [r EXCEPT !.touch = RecordFirstTouch(@, p, src, TRUE)]
  <2>1. ops < MaxOps /\ FileOp(b, n, "eio")
    BY <1>3 DEF NoSpace
  <2>2. Follows(n, r)
    <3> HIDE DEF src, r
    <3> QED  BY <1>1, TouchedOnly
  <2> HIDE DEF n
  <2> QED  BY <2>1, <2>2, FileOpStep
<1>4. CASE CreateFile(b, p)
  <2> DEFINE e == IF src.kind = "symlink" THEN src ELSE File(<<>>)
             n == [EnsureDelta(r, p, src) EXCEPT !.delta[p] = e]
  <2>1. ops < MaxOps /\ FileOp(b, n, "ok")
    BY <1>4 DEF CreateFile
  <2>2. e \in Entry
    BY <1>1, EntryType
  <2>3. Follows(n, r)
    <3> HIDE DEF e, src, r
    <3> QED  BY <1>1, <2>2, PlaceType
  <2> HIDE DEF n
  <2> QED  BY <2>1, <2>3, FileOpStep
<1>5. CASE MakeDir(b, p)
  <2> DEFINE e == IF IsLeaf(src) THEN src ELSE Dir
             n == [EnsureDelta(r, p, src) EXCEPT !.delta[p] = e]
             status == IF IsLeaf(src) THEN "eio" ELSE "ok"
  <2>1. ops < MaxOps /\ FileOp(b, n, status)
    BY <1>5 DEF MakeDir, PlaceNew
  <2>2. e \in Entry /\ status \in {"ok", "eio"}
    BY <1>1, EntryType
  <2>3. Follows(n, r)
    <3> HIDE DEF e, src, r
    <3> QED  BY <1>1, <2>2, PlaceType
  <2> HIDE DEF n, status
  <2> QED  BY <2>1, <2>2, <2>3, FileOpStep
<1>6. CASE MakeSymlink(b, p)
  <2> DEFINE e == IF IsLeaf(src) THEN src ELSE Symlink
             n == [EnsureDelta(r, p, src) EXCEPT !.delta[p] = e]
             status == IF IsLeaf(src) THEN "eio" ELSE "ok"
  <2>1. ops < MaxOps /\ FileOp(b, n, status)
    BY <1>6 DEF MakeSymlink, PlaceNew
  <2>2. e \in Entry /\ status \in {"ok", "eio"}
    BY <1>1, EntryType
  <2>3. Follows(n, r)
    <3> HIDE DEF e, src, r
    <3> QED  BY <1>1, <2>2, PlaceType
  <2> HIDE DEF n, status
  <2> QED  BY <2>1, <2>2, <2>3, FileOpStep
<1>7. CASE Truncate(b, p)
  <2> DEFINE n == [EnsureDelta(r, p, src) EXCEPT !.delta[p] = File(<<>>)]
  <2>1. ops < MaxOps /\ FileOp(b, n, "ok")
    BY <1>7 DEF Truncate
  <2>2. File(<<>>) \in Entry
    BY EntryType
  <2>3. Follows(n, r)
    <3> HIDE DEF src, r
    <3> QED  BY <1>1, <2>2, PlaceType
  <2> HIDE DEF n
  <2> QED  BY <2>1, <2>3, FileOpStep
<1>8. CASE ChangeAttr(b, p)
  <2>1. ops < MaxOps /\ FileOp(b, EnsureDelta(r, p, src), "ok")
    BY <1>8 DEF ChangeAttr
  <2>2. Follows(EnsureDelta(r, p, src), r)
    <3> HIDE DEF src, r
    <3> QED  BY <1>1, EnsureDeltaType
  <2> QED  BY <2>1, <2>2, FileOpStep
<1>9. CASE Unlink(b, p) \/ RemoveDir(b, p)
  <2>1. ops < MaxOps /\ FileOp(b, DropPath(r, p, src), "ok")
    BY <1>9 DEF Unlink, RemoveDir
  <2>2. Follows(DropPath(r, p, src), r)
    <3> HIDE DEF src, r
    <3> QED  BY <1>1, DropPathType
  <2> QED  BY <2>1, <2>2, FileOpStep
<1>10. ASSUME NEW d \in Path, Rename(b, p, d) PROVE IInv'
  <2> DEFINE srcD == InheritedForTouch(b, d)
             status == IF RenameWorks(r, p, d, src, srcD) THEN "ok" ELSE "eio"
  <2>1. ops < MaxOps /\ FileOp(b, RenameRecord(r, p, d, src, srcD), status)
    BY <1>10 DEF Rename
  <2>2. status \in {"ok", "eio"}
    OBVIOUS
  <2>3. srcD \in Entry
    BY InheritedType DEF IInv
  <2>4. Follows(RenameRecord(r, p, d, src, srcD), r)
    <3> HIDE DEF src, srcD, r
    <3> QED  BY <1>1, <2>3, RenameType
  <2> HIDE DEF status
  <2> QED  BY <2>1, <2>2, <2>4, FileOpStep
<1> HIDE DEF MayWrite, Issued
<1> QED  BY <1>2, <1>3, <1>4, <1>5, <1>6, <1>7, <1>8, <1>9, <1>10
         DEF FileOperation, PathOperation

\* revert, freeze and thaw
LEMMA ManagerSetStep ==
    ASSUME IInv, NEW b \in DOMAIN branches, NEW r, Follows(r, branches[b]), Set(b, r),
           epoch < MaxEpoch, epoch' = epoch + 1, report' = Ended("ok"),
           UNCHANGED <<base, ops>>
    PROVE  IInv'
<1>1. /\ base \in Tree /\ DOMAIN branches \subseteq Branch /\ Main \in DOMAIN branches
      /\ epoch \in 0..MaxEpoch /\ ops \in 0..MaxOps
  BY DEF IInv, TypeOK
<1>2. epoch' \in 0..MaxEpoch /\ epoch <= epoch'
  BY <1>1, BoundAssumption
<1>3. /\ branches' \in [DOMAIN branches' -> BranchRecord]
      /\ DOMAIN branches' = DOMAIN branches
      /\ LineageOK'
  BY <1>2, SetStep
<1>4. report' \in Report
  BY EndedType
<1> QED  BY <1>1, <1>2, <1>3, <1>4 DEF IInv, TypeOK

\* revert_path_in_branch preserves the invariant.
LEMMA RevertStep ==
    ASSUME IInv, NEW b \in DOMAIN branches, NEW p \in Path, RevertPath(b, p)
    PROVE  IInv'
<1>1. Follows(RevertRecord(branches[b], p), branches[b])
  BY RecordType, RevertType DEF IInv
<1> QED  BY <1>1, ManagerSetStep DEF RevertPath

\* freeze_branch and thaw_branch preserve the invariant.
LEMMA SetStateStep ==
    ASSUME IInv, NEW b \in DOMAIN branches, NEW frozen \in BOOLEAN, SetState(b, frozen)
    PROVE  IInv'
<1> DEFINE n == [branches[b] EXCEPT !.frozen = frozen]
<1>1. branches[b] \in BranchRecord
  BY RecordType DEF IInv
<1>2. Follows(n, branches[b])
  BY <1>1 DEF Follows, SameLineage, BranchRecord
<1>3. /\ Set(b, n) /\ epoch < MaxEpoch /\ epoch' = epoch + 1
      /\ report' = Ended("ok") /\ UNCHANGED <<base, ops>>
  BY DEF SetState
<1> HIDE DEF n
<1> QED  BY <1>2, <1>3, ManagerSetStep

\* BranchManager::new establishes the invariant.
LEMMA InitStep == Init => IInv
<1> SUFFICES ASSUME Init PROVE IInv
  OBVIOUS
<1> DEFINE r == NewBranch(Main, <<Main>>, "lazy", 0, {}, EmptyTree, 0)
<1>1. [p \in Path |-> NoTouch] \in [Path -> TouchRecord]
  BY EntryType DEF NoTouch, TouchRecord
<1>2. <<Main>> \in Seq(Branch) /\ Main \in Branch
  BY BranchAssumption
<1>3. r \in BranchRecord
  BY <1>1, <1>2, EntryType, BoundAssumption DEF NewBranch, BranchRecord
<1>4. r.parent = Main /\ r.chain = <<Main>> /\ r.sess = 0 /\ r.mode = "lazy"
  BY DEF NewBranch
<1> HIDE DEF r
<1>5. branches = [c \in {Main} |-> r] /\ DOMAIN branches = {Main} /\ branches[Main] = r
  BY DEF Init, r
<1>6. TypeOK
  BY <1>2, <1>3, <1>5, BaseAssumption, BoundAssumption, EndedType DEF Init, TypeOK
<1>7. LineageOK
  <2>1. ChainOK(Main)
    <3>1. Len(<<Main>>) = 1 /\ <<Main>>[1] = Main
      OBVIOUS
    <3>2. 1..1 = {1} /\ 1..(1 - 1) = {}
      OBVIOUS
    <3>3. branches[Main].chain = <<Main>> /\ branches[Main].mode = LastMode(Main)
      BY <1>4, <1>5 DEF LastMode
    <3> QED  BY <3>1, <3>2, <3>3, <1>5 DEF ChainOK
  <2>2. branches[Main].sess <= epoch
    BY <1>4, <1>5 DEF Init
  <2> QED  BY <2>1, <2>2, <1>5 DEF LineageOK
<1> QED  BY <1>6, <1>7 DEF IInv
\* A leaf is removed and, for a commit, its parent's record replaced.
LEMMA RemoveStep ==
    ASSUME IInv, NEW b \in DOMAIN branches, b # Main, IsLeafBranch(b),
           NEW m \in DOMAIN branches, m # b,
           NEW n \in BranchRecord, KeepsLineage(n, branches[m]),
           branches' = [c \in DOMAIN branches \ {b} |-> IF c = m THEN n ELSE branches[c]],
           base' \in Tree, epoch' \in 0..MaxEpoch, epoch <= epoch',
           ops' = ops, report' \in Report
    PROVE  IInv'
<1>1. /\ branches \in [DOMAIN branches -> BranchRecord]
      /\ DOMAIN branches \subseteq Branch /\ Main \in DOMAIN branches
      /\ ops \in 0..MaxOps
  BY DEF IInv, TypeOK
<1>2. DOMAIN branches' = DOMAIN branches \ {b}
  OBVIOUS
<1>3. \A c \in DOMAIN branches : KeepsLineage(branches[c], branches[c])
  BY RecordType, FieldType DEF KeepsLineage, IInv
<1>4. \A c \in DOMAIN branches' : /\ branches'[c] \in BranchRecord
                                  /\ KeepsLineage(branches'[c], branches[c])
  BY <1>1, <1>2, <1>3
<1>5. branches' \in [DOMAIN branches' -> BranchRecord]
  BY <1>1
<1>6. TypeOK'
  BY <1>1, <1>2, <1>5 DEF TypeOK
<1>7. LineageOK'
  <2>1. epoch' \in Nat
    OBVIOUS
  <2>2. \A c \in DOMAIN branches \ DOMAIN branches' : c # Main /\ IsLeafBranch(c)
    BY <1>2
  <2> QED  BY <1>2, <1>4, <2>1, <2>2, LineageFrame DEF IInv
<1> QED  BY <1>6, <1>7 DEF IInv

\* The report of a commit is typed.
LEMMA CommitReportType ==
    ASSUME IInv, NEW b \in DOMAIN branches
    PROVE  CommitReport(b) \in Report
<1>1. branches[b].tomb \in SUBSET Path
  BY RecordType, FieldType DEF IInv
<1>2. Conflicts(b) \in SUBSET Path /\ AutoMerges(b) \in SUBSET Path
  BY <1>1 DEF Conflicts, AutoMerges, DeltaFiles
<1> QED  BY <1>2 DEF CommitReport, Report

\* What a commit does to the record of the parent.
LEMMA CommittedInto ==
    ASSUME NEW s \in BranchRecord, NEW t \in Tree, NEW D \in SUBSET Path
    PROVE  LET n == [s EXCEPT !.delta = t, !.tomb = D, !.commits = @ + 1]
               k == [s EXCEPT !.delta = t, !.commits = @ + 1]
           IN  /\ n \in BranchRecord /\ KeepsLineage(n, s)
               /\ k \in BranchRecord /\ KeepsLineage(k, s)
<1>1. s.commits \in Nat /\ s.commits + 1 \in Nat /\ s.commits <= s.commits + 1
  BY FieldType
<1> QED  BY <1>1 DEF KeepsLineage, BranchRecord

\* abort preserves the invariant: nobody's chain holds a leaf of the table.
LEMMA AbortStep ==
    ASSUME IInv, NEW b \in DOMAIN branches, AbortBranch(b)
    PROVE  IInv'
<1>1. /\ b # Main /\ IsLeafBranch(b) /\ branches' = Without(b)
      /\ report' \in Report /\ UNCHANGED <<base, epoch, ops>>
  BY EndedType DEF AbortBranch
<1>2. /\ Main \in DOMAIN branches /\ base \in Tree /\ epoch \in 0..MaxEpoch
  BY DEF IInv, TypeOK
<1>3. branches[Main] \in BranchRecord /\ KeepsLineage(branches[Main], branches[Main])
  BY <1>2, RecordType, FieldType DEF IInv, KeepsLineage
<1>4. branches' = [c \in DOMAIN branches \ {b} |->
                     IF c = Main THEN branches[Main] ELSE branches[c]]
  BY <1>1 DEF Without
<1>5. epoch <= epoch' /\ base' \in Tree /\ epoch' \in 0..MaxEpoch /\ ops' = ops
  BY <1>1, <1>2
<1> QED  BY <1>1, <1>2, <1>3, <1>4, <1>5, RemoveStep

\* A commit to the base preserves the invariant.
LEMMA CommitToBaseStep ==
    ASSUME IInv, NEW b \in DOMAIN branches, CommitToBase(b)
    PROVE  IInv'
<1> DEFINE m == branches[Main]
           t == RemoveTree(m.delta, DeltaFiles(branches[b]) \cup branches[b].tomb)
           n == [m EXCEPT !.delta = t, !.commits = @ + 1]
<1>1. /\ Main \in DOMAIN branches /\ base \in Tree /\ epoch \in 0..MaxEpoch
      /\ branches \in [DOMAIN branches -> BranchRecord]
  BY DEF IInv, TypeOK
<1>2. /\ epoch < MaxEpoch /\ b # Main /\ IsLeafBranch(b)
      /\ base' = Published(b, base) /\ epoch' = epoch + 1 /\ ops' = ops
      /\ report' = CommitReport(b)
  BY DEF CommitToBase
<1>3. base' \in Tree /\ report' \in Report
  BY <1>1, <1>2, PublishedType, CommitReportType DEF IInv
<1>4. epoch' \in 0..MaxEpoch /\ epoch <= epoch'
  BY <1>1, <1>2, BoundAssumption
<1>5. n \in BranchRecord /\ KeepsLineage(n, m)
  <2>1. m \in BranchRecord
    BY <1>1
  <2>2. t \in Tree
    BY <2>1, FieldType, RemoveTreeType
  <2> HIDE DEF m, t
  <2> QED  BY <2>1, <2>2, CommittedInto
<1>6. branches' = [c \in DOMAIN branches \ {b} |-> IF c = Main THEN n ELSE branches[c]]
  BY <1>1, <1>2 DEF CommitToBase, Without
<1> HIDE DEF n
<1> QED  BY <1>1, <1>2, <1>3, <1>4, <1>5, <1>6, RemoveStep
\* A commit into a parent branch preserves the invariant.
LEMMA NestedCommitStep ==
    ASSUME IInv, NEW b \in DOMAIN branches, NestedCommit(b)
    PROVE  IInv'
<1> DEFINE m == branches[b].parent
           starts == {ParentDir(p) :
                        p \in {q \in branches[b].tomb : Exists(branches[m].delta[q])}}
           touched == {q \in Path : branches[m].touch[q].made}
           t == Prune(Published(b, branches[m].delta), touched, starts)
           D == MergedTombstones(b, m)
           n == [branches[m] EXCEPT !.delta = t, !.tomb = D, !.commits = @ + 1]
<1>1. /\ base \in Tree /\ epoch \in 0..MaxEpoch
      /\ branches \in [DOMAIN branches -> BranchRecord]
  BY DEF IInv, TypeOK
<1>2. /\ epoch < MaxEpoch /\ b # Main /\ IsLeafBranch(b)
      /\ base' = base /\ epoch' = epoch + 1 /\ ops' = ops
      /\ report' = CommitReport(b)
  BY DEF NestedCommit
<1>3. report' \in Report
  BY <1>2, CommitReportType
<1>4. epoch' \in 0..MaxEpoch /\ epoch <= epoch'
  BY <1>1, <1>2, BoundAssumption
<1>5. m \in DOMAIN branches /\ m # b
  <2>1. m \in DOMAIN branches /\ branches[m].sess < branches[b].sess
    BY <1>2 DEF IInv, LineageOK, ParentOK
  <2>2. branches[b].sess \in 0..MaxEpoch
    BY <1>1, FieldType
  <2> QED  BY <2>1, <2>2
<1>6. n \in BranchRecord /\ KeepsLineage(n, branches[m])
  <2>1. branches[m] \in BranchRecord
    BY <1>1, <1>5
  <2>2. Published(b, branches[m].delta) \in Tree
    BY <2>1, FieldType, PublishedType DEF IInv
  <2>3. t \in Tree
    BY <2>2, PruneType
  <2>4. D \in SUBSET Path
    <3>1. branches[m].tomb \in SUBSET Path /\ branches[b].tomb \in SUBSET Path
      BY <1>1, <2>1, FieldType
    <3> HIDE DEF m
    <3> QED  BY <3>1 DEF MergedTombstones
  <2> HIDE DEF t, D, m
  <2> QED  BY <2>1, <2>3, <2>4, CommittedInto
<1>7. branches' = [c \in DOMAIN branches \ {b} |-> IF c = m THEN n ELSE branches[c]]
  <2>1. branches' = [Without(b) EXCEPT ![m].delta = Prune(Published(b, @), touched, starts),
                                       ![m].tomb = D, ![m].commits = @ + 1]
    BY DEF NestedCommit
  <2> HIDE DEF m, touched, starts, D
  <2>2. Without(b) = [c \in DOMAIN branches \ {b} |-> branches[c]]
    BY DEF Without
  <2> QED  BY <1>5, <2>1, <2>2 DEF t
<1> HIDE DEF n, m
<1> QED  BY <1>1, <1>2, <1>3, <1>4, <1>5, <1>6, <1>7, RemoveStep

\* Every tree that a failed commit can leave is a tree of entries.
LEMMA FailedTreesType ==
    ASSUME IInv, NEW b \in DOMAIN branches, NEW t \in Tree
    PROVE  FailedTrees(b, t) \subseteq Tree
BY HalfPublishedType, RolledBackType DEF FailedTrees, IInv

\* A failed commit preserves the invariant.
LEMMA FailedCommitStep ==
    ASSUME IInv, NEW b \in DOMAIN branches, FailedCommit(b)
    PROVE  IInv'
<1> DEFINE m == branches[b].parent
<1>1. /\ base \in Tree /\ epoch \in 0..MaxEpoch /\ ops \in 0..MaxOps
      /\ branches \in [DOMAIN branches -> BranchRecord]
      /\ DOMAIN branches \subseteq Branch /\ Main \in DOMAIN branches
  BY DEF IInv, TypeOK
<1>2. b # Main /\ report' = Ended("failed") /\ epoch' = epoch /\ ops' = ops
  BY DEF FailedCommit
<1>3. report' \in Report
  BY <1>2, EndedType
<1>4. m \in DOMAIN branches /\ branches[m] \in BranchRecord
  BY <1>1, <1>2 DEF IInv, LineageOK, ParentOK
<1>5. Destination(b) \in Tree
  <2>1. branches[m].delta \in Tree
    BY <1>4, FieldType
  <2> QED  BY <1>1, <2>1 DEF Destination
<1>6. PICK t \in FailedTrees(b, Destination(b)) :
         IF m = Main THEN base' = t /\ UNCHANGED branches
         ELSE branches' = [branches EXCEPT ![m].delta = t] /\ UNCHANGED base
  BY DEF FailedCommit
<1>7. t \in Tree
  BY <1>5, <1>6, FailedTreesType
<1> HIDE DEF m
<1>8. CASE m = Main
  <2>1. base' = t /\ branches' = branches
    BY <1>6, <1>8
  <2>2. TypeOK'
    BY <1>1, <1>2, <1>3, <1>7, <2>1 DEF TypeOK
  <2>3. LineageOK'
    <3>1. LineageOK /\ branches' = branches /\ epoch' = epoch
      BY <1>2, <2>1 DEF IInv
    <3> QED  BY <3>1 DEF LineageOK, ParentOK, ChainOK
  <2> QED  BY <2>2, <2>3 DEF IInv
<1>9. CASE m # Main
  <2> DEFINE n == [branches[m] EXCEPT !.delta = t]
  <2>1. base' = base /\ Set(m, n)
    BY <1>6, <1>9, <1>4 DEF Set
  <2>2. Follows(n, branches[m])
    BY <1>4, <1>7, DeltaReplaced
  <2>3. epoch' \in 0..MaxEpoch /\ epoch <= epoch'
    BY <1>1, <1>2
  <2> HIDE DEF n
  <2>4. /\ branches' \in [DOMAIN branches' -> BranchRecord]
        /\ DOMAIN branches' = DOMAIN branches
        /\ LineageOK'
    BY <1>4, <2>1, <2>2, <2>3, SetStep
  <2> QED  BY <1>1, <1>2, <1>3, <2>1, <2>3, <2>4 DEF IInv, TypeOK
<1> QED  BY <1>8, <1>9

\* create_branch_with_options preserves the invariant.
LEMMA CreateStep ==
    ASSUME IInv, NEW b \in Branch, NEW parent \in DOMAIN branches, NEW mode \in Mode,
           NEW hide \in HideSets, CreateBranch(b, parent, mode, hide)
    PROVE  IInv'
<1> DEFINE inh == IF mode = "snapshot" THEN SnapshotVisibleTree(parent) ELSE EmptyTree
           ch == branches[parent].chain
           fork == ForkChain(b, parent, mode)
           r == NewBranch(parent, fork, mode, branches[parent].commits, hide, inh, epoch + 1)
<1>1. /\ base \in Tree /\ epoch \in 0..MaxEpoch /\ ops \in 0..MaxOps
      /\ branches \in [DOMAIN branches -> BranchRecord]
      /\ DOMAIN branches \subseteq Branch /\ Main \in DOMAIN branches
  BY DEF IInv, TypeOK
<1>2. /\ epoch < MaxEpoch /\ b \notin DOMAIN branches
      /\ branches' = [c \in DOMAIN branches \cup {b} |-> IF c = b THEN r ELSE branches[c]]
      /\ epoch' = epoch + 1 /\ report' = Ended("ok") /\ base' = base /\ ops' = ops
  BY DEF CreateBranch
<1>3. report' \in Report /\ epoch' \in 0..MaxEpoch /\ epoch \in Nat
  BY <1>1, <1>2, EndedType, BoundAssumption
<1>4. branches[parent] \in BranchRecord /\ ch \in Seq(Branch) /\ Len(ch) \in Nat
  BY <1>1, FieldType
<1>5. fork \in Seq(Branch)
  BY <1>4 DEF ForkChain
<1>6. inh \in Tree
  BY SnapshotType, EntryType DEF IInv
<1>7. [p \in Path |-> NoTouch] \in [Path -> TouchRecord]
  BY EntryType DEF NoTouch, TouchRecord
<1> HIDE DEF inh, ch, fork
<1>8. r \in BranchRecord
  <2>1. /\ parent \in Branch /\ mode \in {"lazy", "snapshot"} /\ hide \in SUBSET Path
        /\ branches[parent].commits \in Nat /\ epoch + 1 \in 0..MaxEpoch
    BY <1>1, <1>2, <1>3, <1>4, FieldType, ModeAssumption, HideAssumption
  <2> QED  BY <2>1, <1>5, <1>6, <1>7, EntryType DEF NewBranch, BranchRecord
<1>9. /\ r.parent = parent /\ r.chain = fork /\ r.mode = mode
      /\ r.forkver = branches[parent].commits /\ r.sess = epoch + 1
  BY DEF NewBranch
<1> HIDE DEF r
<1>10. /\ DOMAIN branches' = DOMAIN branches \cup {b} /\ branches'[b] = r
       /\ \A c \in DOMAIN branches : branches'[c] = branches[c]
  BY <1>2
<1>11. TypeOK'
  <2>1. branches' \in [DOMAIN branches' -> BranchRecord]
    BY <1>1, <1>2, <1>8, <1>10
  <2> QED  BY <1>1, <1>2, <1>3, <1>10, <2>1 DEF TypeOK
<1>12. ASSUME NEW c \in DOMAIN branches PROVE branches[c].sess \in Nat /\ branches[c].sess <= epoch
  <2>1. branches[c].sess \in 0..MaxEpoch
    BY <1>1, <1>12, FieldType
  <2> QED  BY <2>1, <1>12 DEF IInv, LineageOK
<1>13. ASSUME NEW c \in DOMAIN branches' \ {Main} PROVE ParentOK(c)'
  <2>1. CASE c = b
    <3>1. branches[parent].commits \in Nat
      BY <1>4, FieldType
    <3> QED  BY <2>1, <3>1, <1>3, <1>9, <1>10, <1>12 DEF ParentOK
  <2>2. CASE c # b
    <3>1. c \in DOMAIN branches \ {Main}
      BY <2>2, <1>10, <1>13
    <3>2. ParentOK(c)
      BY <3>1 DEF IInv, LineageOK
    <3> QED  BY <3>1, <3>2, <1>10 DEF ParentOK
  <2> QED  BY <2>1, <2>2
<1>14. ASSUME NEW c \in DOMAIN branches PROVE ChainOK(c)'
  <2>1. ChainOK(c) /\ branches[c].chain \in Seq(Branch)
    BY <1>1, <1>14, FieldType DEF IInv, LineageOK
  <2> DEFINE h == branches[c].chain
  <2>2. Len(h) \in Nat /\ branches'[c].chain = h
    BY <2>1, <1>10
  <2>3. /\ Len(h) > 0 /\ h[1] = c
        /\ \A i \in 1..Len(h) : h[i] \in DOMAIN branches
        /\ \A i \in 1..(Len(h) - 1) : /\ h[i] # Main
                                      /\ branches[h[i]].mode = "lazy"
                                      /\ branches[h[i]].parent = h[i + 1]
        /\ branches[h[Len(h)]].mode = LastMode(h[Len(h)])
    BY <2>1 DEF ChainOK
  <2> HIDE DEF h
  <2>4. \A i \in 1..Len(h) : h[i] \in DOMAIN branches' /\ branches'[h[i]] = branches[h[i]]
    BY <2>3, <1>10
  <2>5. \A i \in 1..(Len(h) - 1) : i \in 1..Len(h)
    BY <2>2
  <2>6. Len(h) \in 1..Len(h)
    BY <2>2, <2>3
  <2> QED  BY <2>2, <2>3, <2>4, <2>5, <2>6 DEF ChainOK
<1>15. ChainOK(b)'
  <2>1. CASE mode = "snapshot"
    <3>1. fork = <<b>> /\ Len(fork) = 1 /\ fork[1] = b
      BY <2>1 DEF fork, ForkChain
    <3>2. 1..1 = {1} /\ 1..(1 - 1) = {}
      OBVIOUS
    <3>3. branches'[b].mode = LastMode(b)
      BY <1>1, <1>2, <1>9, <1>10, <2>1 DEF LastMode
    <3>4. branches'[b].chain = fork /\ b \in DOMAIN branches'
      BY <1>9, <1>10
    <3>5. Len(fork) = 1 /\ fork[1] = b
      BY <3>1
    <3> QED  BY <3>2, <3>3, <3>4, <3>5 DEF ChainOK
  <2>2. CASE mode # "snapshot"
    <3>1. mode = "lazy" /\ fork = <<b>> \o ch
      BY <2>2, ModeAssumption DEF fork, ForkChain, ch
    <3>2. /\ Len(fork) = Len(ch) + 1 /\ fork[1] = b
          /\ \A i \in 1..Len(ch) : fork[i + 1] = ch[i]
      BY <3>1, <1>4
    <3>3. /\ Len(ch) > 0 /\ ch[1] = parent
          /\ \A i \in 1..Len(ch) : ch[i] \in DOMAIN branches
          /\ \A i \in 1..(Len(ch) - 1) : /\ ch[i] # Main
                                         /\ branches[ch[i]].mode = "lazy"
                                         /\ branches[ch[i]].parent = ch[i + 1]
          /\ branches[ch[Len(ch)]].mode = LastMode(ch[Len(ch)])
      BY DEF IInv, LineageOK, ChainOK, ch
    <3>4. ASSUME NEW i \in 1..Len(fork)
          PROVE  /\ fork[i] \in DOMAIN branches'
                 /\ i < Len(fork) => /\ fork[i] # Main
                                     /\ branches'[fork[i]].mode = "lazy"
                                     /\ branches'[fork[i]].parent = fork[i + 1]
      <4>1. CASE i = 1
        <5>1. b # Main /\ fork[2] = parent
          <6>1. 1 \in 1..Len(ch) /\ 1 + 1 = 2
            BY <1>4, <3>3
          <6>2. fork[1 + 1] = ch[1]
            BY <6>1, <3>2
          <6> QED  BY <6>1, <6>2, <1>1, <1>2, <3>3
        <5> QED  BY <4>1, <5>1, <3>1, <3>2, <1>9, <1>10
      <4>2. CASE i # 1
        <5> DEFINE j == i - 1
        <5>1. /\ j \in 1..Len(ch) /\ j + 1 = i
              /\ i < Len(fork) => j \in 1..(Len(ch) - 1) /\ j + 1 \in 1..Len(ch)
          BY <4>2, <3>2, <1>4
        <5> HIDE DEF j
        <5>2. fork[i] = ch[j] /\ ch[j] \in DOMAIN branches
          BY <5>1, <3>2, <3>3
        <5>3. i < Len(fork) => fork[i + 1] = ch[j + 1]
          BY <5>1, <3>2
        <5> QED  BY <5>1, <5>2, <5>3, <3>3, <1>10
      <4> QED  BY <4>1, <4>2
    <3>5. fork[Len(fork)] = ch[Len(ch)] /\ ch[Len(ch)] \in DOMAIN branches
      BY <3>2, <3>3, <1>4
    <3>6. \A i \in 1..(Len(fork) - 1) : i \in 1..Len(fork) /\ i < Len(fork)
      BY <3>2, <1>4
    <3>7. Len(fork) > 0
      BY <3>2, <1>4
    <3>8. branches'[fork[Len(fork)]].mode = LastMode(fork[Len(fork)])
      BY <3>3, <3>5, <1>10
    <3> QED  BY <3>2, <3>4, <3>6, <3>7, <3>8, <1>9, <1>10 DEF ChainOK
  <2> QED  BY <2>1, <2>2
<1>16. \A c \in DOMAIN branches' : branches'[c].sess <= epoch'
  BY <1>2, <1>3, <1>9, <1>10, <1>12
<1>17. LineageOK'
  BY <1>10, <1>13, <1>14, <1>15, <1>16 DEF LineageOK
<1> QED  BY <1>11, <1>17 DEF IInv

\* Every step preserves the invariant.
LEMMA NextStep ==
    ASSUME IInv, [Next]_vars
    PROVE  IInv'
<1>1. ASSUME NEW b \in DOMAIN branches \cap Agents, NEW p \in Path, FileOperation(b, p)
      PROVE  IInv'
  BY <1>1, FileOperationStep
<1>2. ASSUME NEW b \in DOMAIN branches, NEW p \in Path, RevertPath(b, p)
      PROVE  IInv'
  BY <1>2, RevertStep
<1>3. ASSUME NEW b \in DOMAIN branches, NEW frozen \in BOOLEAN, SetState(b, frozen)
      PROVE  IInv'
  BY <1>3, SetStateStep
<1>4. ASSUME NEW b \in DOMAIN branches,
             CommitToBase(b) \/ NestedCommit(b) \/ FailedCommit(b) \/ AbortBranch(b)
      PROVE  IInv'
  BY <1>4, CommitToBaseStep, NestedCommitStep, FailedCommitStep, AbortStep
<1>5. ASSUME NEW b \in Branch, NEW parent \in DOMAIN branches, NEW mode \in Mode,
             NEW hide \in HideSets, CreateBranch(b, parent, mode, hide)
      PROVE  IInv'
  BY <1>5, CreateStep
<1>6. CASE UNCHANGED vars
  BY <1>6 DEF vars, IInv, TypeOK, LineageOK, ParentOK, ChainOK
<1> QED  BY <1>1, <1>2, <1>3, <1>4, <1>5, <1>6 DEF Next

(***************************************************************************)
(* The state of the branch manager has its type in every reachable state,  *)
(* whatever the paths, branches, base and workload: copies, merges, prunes *)
(* and rollbacks always yield trees of entries, every file holds lines     *)
(* some incarnation wrote, and the tables name only paths and branches.    *)
(***************************************************************************)
THEOREM TypeCorrect == Spec => []TypeOK
<1>1. Init => IInv
  BY InitStep
<1>2. IInv /\ [Next]_vars => IInv'
  BY NextStep
<1>3. IInv => TypeOK
  BY DEF IInv
<1> QED  BY <1>1, <1>2, <1>3, PTL DEF Spec

(***************************************************************************)
(* resolve_path_locked, collect_dir_names_locked and commit_with_report    *)
(* follow parents through the table without ever missing one or running in *)
(* a circle: create_branch_with_options only adds a new name below a live  *)
(* branch, and commit and abort remove leaves only.                        *)
(***************************************************************************)
THEOREM LineageCorrect == Spec => []LineageOK
<1>1. Init => IInv
  BY InitStep
<1>2. IInv /\ [Next]_vars => IInv'
  BY NextStep
<1>3. IInv => LineageOK
  BY DEF IInv
<1> QED  BY <1>1, <1>2, <1>3, PTL DEF Spec
(***************************************************************************)
(* A snapshot branch resolves a path in its own record alone.              *)
(***************************************************************************)
LEMMA SnapshotResolvesAlone ==
    ASSUME IInv, NEW b \in DOMAIN branches, branches[b].mode = "snapshot", NEW p \in Path
    PROVE  ResolvePath(b, p) = IF Decides(branches[b], p) THEN branches[b].delta[p]
                               ELSE branches[b].inh[p]
<1> DEFINE ch == branches[b].chain
<1>1. ch \in Seq(Branch) /\ Len(ch) \in Nat
  BY RecordType, FieldType DEF IInv
<1>2. /\ Len(ch) > 0 /\ ch[1] = b
      /\ \A i \in 1..(Len(ch) - 1) : branches[ch[i]].mode = "lazy"
      /\ branches[ch[Len(ch)]].mode = LastMode(ch[Len(ch)])
  BY DEF IInv, LineageOK, ChainOK
<1> HIDE DEF ch
<1>3. Len(ch) = 1
  <2> DEFINE n == Len(ch)
  <2>1. n \in Nat /\ n > 0
    BY <1>1, <1>2
  <2>2. 1 \notin 1..(n - 1)
    BY <1>2
  <2> HIDE DEF n
  <2>3. n = 1
    BY <2>1, <2>2
  <2> QED  BY <2>3 DEF n
<1>4. ch[Len(ch)] = b /\ b # Main
  BY <1>2, <1>3 DEF LastMode
<1>5. Underlay(ch) = branches[b].inh
  BY <1>4 DEF Underlay
<1>6. \A i \in 1..Len(ch) : i = 1 /\ (FirstDecider(ch, p, i) <=> Decides(branches[b], p))
  <2> TAKE i \in 1..Len(ch)
  <2>1. i = 1 /\ 1..(i - 1) = {}
    BY <1>3
  <2> QED  BY <2>1, <1>2 DEF FirstDecider
<1>7. 1 \in 1..Len(ch)
  BY <1>3
<1>8. ResolveAlong(ch, p) = IF Decides(branches[b], p) THEN branches[b].delta[p]
                            ELSE branches[b].inh[p]
  <2>1. CASE Decides(branches[b], p)
    <3> DEFINE k == CHOOSE i \in 1..Len(ch) : FirstDecider(ch, p, i)
    <3>1. \E i \in 1..Len(ch) : FirstDecider(ch, p, i)
      BY <1>6, <1>7, <2>1
    <3>2. k \in 1..Len(ch)
      BY <3>1
    <3>3. ResolveAlong(ch, p) = branches[ch[k]].delta[p]
      BY <3>1 DEF ResolveAlong
    <3> HIDE DEF k
    <3>4. k = 1
      BY <3>2, <1>6
    <3> QED  BY <3>3, <3>4, <2>1, <1>2
  <2>2. CASE ~Decides(branches[b], p)
    <3>1. ~ \E i \in 1..Len(ch) : FirstDecider(ch, p, i)
      BY <1>6, <2>2
    <3> QED  BY <3>1, <2>2, <1>5 DEF ResolveAlong
  <2> QED  BY <2>1, <2>2
<1> QED  BY <1>8 DEF ResolvePath, ch
(***************************************************************************)
(* InheritanceMode::Snapshot isolates: no step of another branch, no       *)
(* commit into its parent or the base and no reuse of a name changes what  *)
(* a snapshot branch finds.  It needs the lineage: the chain of a snapshot *)
(* branch is the branch alone, and stays so.                               *)
(***************************************************************************)
THEOREM SnapshotIsolated == Spec => SnapshotIsIsolated
<1> DEFINE S == \A c \in DOMAIN branches : branches[c].mode = "snapshot" =>
                  \A q \in Path :
                    ResolvePath(c, q) = IF Decides(branches[c], q)
                                        THEN branches[c].delta[q] ELSE branches[c].inh[q]
           A == \A b \in DOMAIN branches \cap DOMAIN branches' :
                  branches[b].mode = "snapshot" /\ branches'[b] = branches[b] =>
                    \A p \in Path : ResolvePath(b, p)' = ResolvePath(b, p)
<1>1. Init => IInv
  BY InitStep
<1>2. IInv /\ [Next]_vars => IInv'
  BY NextStep
<1>3. IInv => S
  BY SnapshotResolvesAlone
<1>4. S /\ S' => A
  <2> SUFFICES ASSUME S, S', NEW b \in DOMAIN branches \cap DOMAIN branches',
                      branches[b].mode = "snapshot", branches'[b] = branches[b],
                      NEW p \in Path
               PROVE  ResolvePath(b, p)' = ResolvePath(b, p)
    OBVIOUS
  <2>1. ResolvePath(b, p) = IF Decides(branches[b], p) THEN branches[b].delta[p]
                            ELSE branches[b].inh[p]
    OBVIOUS
  <2>2. ResolvePath(b, p)' = IF Decides(branches'[b], p) THEN branches'[b].delta[p]
                             ELSE branches'[b].inh[p]
    OBVIOUS
  <2> QED  BY <2>1, <2>2
<1> HIDE DEF S
<1> QED  BY <1>1, <1>2, <1>3, <1>4, PTL DEF Spec, SnapshotIsIsolated

-----------------------------------------------------------------------------
(***************************************************************************)
(* Paths: prefixes of one sequence are prefixes of each other.             *)
(***************************************************************************)
\* A path is a non-empty sequence whose prefixes are paths.
LEMMA PathType ==
    ASSUME NEW p \in Path
    PROVE  /\ p \in Seq(STRING) /\ Len(p) \in Nat /\ Len(p) > 0
           /\ \A n \in 1..Len(p) : SubSeq(p, 1, n) \in Path
<1>1. /\ p \in Seq(STRING) /\ Len(p) > 0
      /\ \A n \in 1..Len(p) : SubSeq(p, 1, n) \in Path
  BY PathAssumption
<1> QED  BY <1>1

\* a is a prefix of p, name by name.
IsPrefixOf(a, p) == Len(a) <= Len(p) /\ \A i \in 1..Len(a) : p[i] = a[i]

\* Cutting a sequence after n names gives s exactly when s is its prefix.
LEMMA CutIsPrefix ==
    ASSUME NEW p \in Seq(STRING), NEW a \in Seq(STRING)
    PROVE  Len(a) <= Len(p) /\ SubSeq(p, 1, Len(a)) = a <=> IsPrefixOf(a, p)
<1>1. Len(a) \in Nat /\ Len(p) \in Nat
  OBVIOUS
<1>2. CASE Len(a) <= Len(p)
  <2> DEFINE n == Len(a)
  <2>1. n \in Nat /\ n <= Len(p) /\ \A i \in 1..n : p[i] \in STRING
    BY <1>1, <1>2
  <2>2. /\ SubSeq(p, 1, n) \in Seq(STRING)
        /\ Len(SubSeq(p, 1, n)) = IF 1 <= n THEN n - 1 + 1 ELSE 0
        /\ \A i \in 1..(n - 1 + 1) : SubSeq(p, 1, n)[i] = p[1 + i - 1]
    <3>1. 1 \in Int /\ n \in Int
      BY <2>1
    <3> HIDE DEF n
    <3> QED  BY <2>1, <3>1, SubSeqProperties
  <2>3. Len(SubSeq(p, 1, n)) = n /\ \A i \in 1..n : SubSeq(p, 1, n)[i] = p[i]
    <3>1. (IF 1 <= n THEN n - 1 + 1 ELSE 0) = n /\ n - 1 + 1 = n
      BY <2>1
    <3>2. \A i \in 1..n : 1 + i - 1 = i
      BY <2>1
    <3> HIDE DEF n
    <3> QED  BY <2>2, <3>1, <3>2
  <2>4. (\A i \in 1..n : p[i] = a[i]) => SubSeq(p, 1, n) = a
    BY <2>2, <2>3, SeqEqual
  <2> QED  BY <1>2, <2>3, <2>4 DEF IsPrefixOf
<1>3. CASE ~(Len(a) <= Len(p))
  BY <1>3 DEF IsPrefixOf
<1> QED  BY <1>2, <1>3

\* Above and Under are the two readings of the prefix order.
LEMMA PrefixOrder ==
    ASSUME NEW p \in Path, NEW q \in Path
    PROVE  /\ q \in Under(p) <=> IsPrefixOf(p, q)
           /\ p \in Above(q) <=> IsPrefixOf(p, q) /\ Len(p) < Len(q)
           /\ IsPrefixOf(p, q) /\ ~(Len(p) < Len(q)) => p = q
<1>1. /\ p \in Seq(STRING) /\ q \in Seq(STRING)
      /\ Len(p) \in Nat /\ Len(q) \in Nat
  BY PathType
<1>2. Len(p) <= Len(q) /\ SubSeq(q, 1, Len(p)) = p <=> IsPrefixOf(p, q)
  BY <1>1, CutIsPrefix
<1>3. Len(p) < Len(q) => Len(p) <= Len(q)
  BY <1>1
<1>4. IsPrefixOf(p, q) /\ ~(Len(p) < Len(q)) => p = q
  <2> SUFFICES ASSUME IsPrefixOf(p, q), ~(Len(p) < Len(q)) PROVE p = q
    OBVIOUS
  <2>1. Len(p) = Len(q) /\ \A i \in 1..Len(p) : p[i] = q[i]
    BY <1>1 DEF IsPrefixOf
  <2> QED  BY <1>1, <2>1, SeqEqual
<1> QED  BY <1>2, <1>3, <1>4 DEF Under, Above

\* What is under, below and above a path.
LEMMA PathOrder ==
    ASSUME NEW a \in Path, NEW p \in Path, NEW q \in Path
    PROVE  /\ p \in Under(p) /\ p \notin Above(p)
           /\ q \in Below(p) <=> p \in Above(q)
           /\ q \in Under(p) <=> q = p \/ p \in Above(q)
           /\ a \in Above(q) /\ q \in Above(p) => a \in Above(p)
           /\ a \in Above(q) /\ q \in Under(p) => a \in Under(p) \/ a \in Above(p)
           /\ a \in Under(p) /\ q \in Under(a) => q \in Under(p)
           /\ a \in Above(q) /\ p \in Above(q)
                => a = p \/ a \in Above(p) \/ p \in Above(a)
           /\ a \in Above(p) => p \notin Above(a) /\ a # p
<1>1. Len(a) \in Nat /\ Len(p) \in Nat /\ Len(q) \in Nat
  BY PathType
<1>2. ASSUME NEW x \in Path, NEW y \in Path
      PROVE  /\ y \in Under(x) <=> IsPrefixOf(x, y)
             /\ x \in Above(y) <=> IsPrefixOf(x, y) /\ Len(x) < Len(y)
             /\ IsPrefixOf(x, y) /\ ~(Len(x) < Len(y)) => x = y
  BY PrefixOrder
<1>3. /\ IsPrefixOf(p, p) /\ IsPrefixOf(a, a) /\ ~(Len(p) < Len(p)) /\ ~(Len(q) < Len(q))
      /\ IsPrefixOf(a, q) /\ IsPrefixOf(q, p) => IsPrefixOf(a, p)
      /\ IsPrefixOf(p, a) /\ IsPrefixOf(a, q) => IsPrefixOf(p, q)
      /\ Len(a) < Len(q) /\ Len(q) < Len(p) => Len(a) < Len(p)
      /\ Len(a) < Len(p) => ~(Len(p) < Len(a)) /\ a # p
  BY <1>1 DEF IsPrefixOf
<1>4. IsPrefixOf(a, q) /\ IsPrefixOf(p, q) => IsPrefixOf(a, p) \/ IsPrefixOf(p, a)
  <2> SUFFICES ASSUME IsPrefixOf(a, q), IsPrefixOf(p, q)
               PROVE  IsPrefixOf(a, p) \/ IsPrefixOf(p, a)
    OBVIOUS
  <2>1. CASE Len(a) <= Len(p)
    <3>1. \A i \in 1..Len(a) : i \in 1..Len(p)
      BY <1>1, <2>1
    <3> QED  BY <2>1, <3>1 DEF IsPrefixOf
  <2>2. CASE ~(Len(a) <= Len(p))
    <3>1. Len(p) <= Len(a) /\ \A i \in 1..Len(p) : i \in 1..Len(a)
      BY <1>1, <2>2
    <3> QED  BY <3>1 DEF IsPrefixOf
  <2> QED  BY <2>1, <2>2
<1> HIDE DEF IsPrefixOf
<1>5. /\ p \in Under(p) /\ p \notin Above(p)
      /\ q \in Under(p) <=> q = p \/ p \in Above(q)
  BY <1>2, <1>3
<1>6. q \in Below(p) <=> p \in Above(q)
  BY <1>5, <1>2, <1>3 DEF Below
<1>7. a \in Above(q) /\ q \in Above(p) => a \in Above(p)
  BY <1>2, <1>3
<1>8. a \in Above(q) /\ q \in Under(p) => a \in Under(p) \/ a \in Above(p)
  BY <1>2, <1>4
<1>9. a \in Under(p) /\ q \in Under(a) => q \in Under(p)
  BY <1>2, <1>3
<1>10. a \in Above(q) /\ p \in Above(q) => a = p \/ a \in Above(p) \/ p \in Above(a)
  BY <1>2, <1>4
<1>11. a \in Above(p) => p \notin Above(a) /\ a # p
  BY <1>2, <1>3
<1> QED  BY <1>5, <1>6, <1>7, <1>8, <1>9, <1>10, <1>11

-----------------------------------------------------------------------------
(***************************************************************************)
(* Operations on one tree.                                                 *)
(***************************************************************************)
\* An entry is missing, a directory, or a file or link.
LEMMA Kinds ==
    ASSUME NEW t \in Tree, NEW p \in Path
    PROVE  /\ Exists(t[p]) <=> IsDir(t[p]) \/ IsLeaf(t[p])
           /\ ~(IsDir(t[p]) /\ IsLeaf(t[p]))
           /\ t[p] \in Entry
           /\ IsDir(Dir) /\ ~Exists(Missing) /\ ~IsDir(Missing) /\ ~IsLeaf(Missing)
<1>1. t[p] \in Entry
  BY DEF Tree
<1>2. t[p].kind \in Kind
  BY <1>1 DEF Entry
<1> QED  BY <1>1, <1>2 DEF Exists, IsDir, IsLeaf, Kind, Dir, Missing

\* remove_entry takes everything below along.
LEMMA RemoveIsTree ==
    ASSUME NEW t \in Tree, IsTree(t), NEW S \in SUBSET Path
    PROVE  IsTree(RemoveTree(t, S))
<1> SUFFICES ASSUME NEW q \in Path, Exists(RemoveTree(t, S)[q]), NEW a \in Above(q)
             PROVE  IsDir(RemoveTree(t, S)[a])
  BY DEF IsTree
<1>1. a \in Path
  BY DEF Above
<1>2. ~(\E p \in S : q \in Under(p)) /\ Exists(t[q])
  BY Kinds DEF RemoveTree
<1>3. ~(\E p \in S : a \in Under(p))
  <2> SUFFICES ASSUME NEW p \in S, a \in Under(p) PROVE FALSE
    OBVIOUS
  <2>1. q \in Under(a)
    BY <1>1, PathOrder
  <2>2. q \in Under(p)
    BY <1>1, <2>1, PathOrder
  <2> QED  BY <1>2, <2>2
<1>4. IsDir(t[a])
  BY <1>1, <1>2 DEF IsTree
<1> QED  BY <1>1, <1>3, <1>4 DEF RemoveTree

\* ensure_parent_dirs for paths that nothing blocks gives every entry its
\* directories, the entries at those paths included.
LEMMA ParentsMakeTree ==
    ASSUME NEW t \in Tree, NEW S \in SUBSET Path,
           \A q \in Path : Exists(t[q]) => q \in S \/ \A a \in Above(q) : IsDir(t[a]),
           \A p \in S : ~Blocked(t, p)
    PROVE  /\ IsTree(MkParents(t, S))
           /\ \A p \in S : \A a \in Above(p) : IsDir(MkParents(t, S)[a])
           /\ \A q \in Path : Exists(t[q]) => MkParents(t, S)[q] = t[q]
<1> DEFINE n == MkParents(t, S)
<1>1. \A q \in Path : n[q] = IF ~Exists(t[q]) /\ \E p \in S : q \in Above(p)
                              THEN Dir ELSE t[q]
  BY DEF MkParents
<1> HIDE DEF n
<1>2. \A p \in S : \A a \in Above(p) : IsDir(n[a])
  <2> TAKE p \in S
  <2> TAKE a \in Above(p)
  <2>1. a \in Path /\ ~IsLeaf(t[a])
    BY DEF Above, Blocked
  <2> QED  BY <2>1, <1>1, Kinds
<1>3. ASSUME NEW q \in Path, Exists(n[q]), NEW a \in Above(q)
      PROVE  IsDir(n[a])
  <2>1. a \in Path
    BY DEF Above
  <2>2. CASE Exists(t[q])
    <3>1. CASE q \in S
      BY <3>1, <1>2, <1>3
    <3>2. CASE \A x \in Above(q) : IsDir(t[x])
      BY <3>2, <2>1, <1>1, <1>3, Kinds
    <3> QED  BY <2>2, <3>1, <3>2, <1>3
  <2>3. CASE ~Exists(t[q])
    <3>1. PICK p \in S : q \in Above(p)
      BY <2>3, <1>1, <1>3
    <3>2. a \in Above(p)
      BY <2>1, <3>1, <1>3, PathOrder
    <3> QED  BY <3>2, <1>2
  <2> QED  BY <2>2, <2>3
<1> QED  BY <1>1, <1>2, <1>3 DEF IsTree, n

\* A directory is pruned only with everything below it.
LEMMA PruneIsTree ==
    ASSUME NEW t \in Tree, IsTree(t), NEW touched, NEW starts
    PROVE  IsTree(Prune(t, touched, starts))
<1> DEFINE cand == {a \in Path : \E s \in starts \cap Path : Exists(t[s]) /\ s \in Under(a)}
           gone(a) == \A q \in Under(a) : Exists(t[q]) => q \in cand \ touched /\ IsDir(t[q])
           n == Prune(t, touched, starts)
<1>1. \A q \in Path : n[q] = IF q \in cand /\ gone(q) THEN Missing ELSE t[q]
  BY DEF Prune
<1> HIDE DEF n
<1> SUFFICES ASSUME NEW q \in Path, Exists(n[q]), NEW a \in Above(q)
             PROVE  IsDir(n[a])
  BY DEF IsTree, n
<1>2. a \in Path
  BY DEF Above
<1>3. Exists(t[q]) /\ ~(q \in cand /\ gone(q))
  BY <1>1, Kinds
<1>4. IsDir(t[a])
  BY <1>2, <1>3 DEF IsTree
<1>5. ~gone(a)
  <2> SUFFICES ASSUME gone(a) PROVE FALSE
    OBVIOUS
  <2>1. q \in Under(a)
    BY <1>2, PathOrder
  <2>2. q \in cand
    BY <2>1, <1>3
  <2>3. ASSUME NEW x \in Under(q) PROVE x \in Under(a)
    <3>1. x \in Path
      BY <2>3 DEF Under
    <3> QED  BY <1>2, <2>1, <2>3, <3>1, PathOrder
  <2>4. gone(q)
    <3> HIDE DEF cand
    <3> QED  BY <2>3
  <2> QED  BY <1>3, <2>2, <2>4
<1> HIDE DEF cand, gone
<1> QED  BY <1>1, <1>2, <1>4, <1>5

\* One entry is written in a directory; it replaces no directory, or is one.
LEMMA PutIsTree ==
    ASSUME NEW t \in Tree, IsTree(t), NEW p \in Path, NEW e \in Entry,
           \A a \in Above(p) : IsDir(t[a]), IsDir(t[p]) => IsDir(e)
    PROVE  IsTree([t EXCEPT ![p] = e])
<1> DEFINE n == [t EXCEPT ![p] = e]
<1>1. \A q \in Path : n[q] = IF q = p THEN e ELSE t[q]
  BY DEF Tree
<1> HIDE DEF n
<1> SUFFICES ASSUME NEW q \in Path, Exists(n[q]), NEW a \in Above(q)
             PROVE  IsDir(n[a])
  BY DEF IsTree, n
<1>2. a \in Path /\ a # q
  BY PathOrder DEF Above
<1>3. IsDir(t[a])
  BY <1>1, <1>2 DEF IsTree
<1> QED  BY <1>1, <1>2, <1>3

\* A walk from the root finds a tree (snapshot_visible_tree).
LEMMA SnapshotIsTree ==
    ASSUME TypeOK, LineageOK, NEW b \in DOMAIN branches
    PROVE  IsTree(SnapshotVisibleTree(b))
<1> DEFINE n == SnapshotVisibleTree(b)
<1>1. \A q \in Path : n[q] = IF Visible(b, q) THEN ResolvePath(b, q) ELSE Missing
  BY DEF SnapshotVisibleTree
<1>2. n \in Tree
  BY SnapshotType
<1> HIDE DEF n
<1> SUFFICES ASSUME NEW q \in Path, Exists(n[q]), NEW a \in Above(q)
             PROVE  IsDir(n[a])
  BY DEF IsTree, n
<1>3. a \in Path
  BY DEF Above
<1>4. Visible(b, q)
  BY <1>1, <1>2, Kinds
<1>5. IsDir(ResolvePath(b, a)) /\ Reachable(b, a)
  <2>1. \A x \in Above(a) : x \in Above(q)
    <3> TAKE x \in Above(a)
    <3>1. x \in Path
      BY DEF Above
    <3> QED  BY <1>3, <3>1, PathOrder
  <2> QED  BY <1>4, <2>1 DEF Visible, Reachable
<1>6. Visible(b, a)
  BY <1>5 DEF Visible, IsDir, Exists
<1> QED  BY <1>1, <1>3, <1>5, <1>6

-----------------------------------------------------------------------------
(***************************************************************************)
(* A lookup, one branch at a time.                                         *)
(***************************************************************************)
\* The first branch that decides a path answers for it.
LEMMA FirstAnswers ==
    ASSUME NEW ch, Len(ch) \in Nat, NEW p \in Path, NEW i \in 1..Len(ch),
           FirstDecider(ch, p, i)
    PROVE  ResolveAlong(ch, p) = branches[ch[i]].delta[p]
<1> DEFINE k == CHOOSE j \in 1..Len(ch) : FirstDecider(ch, p, j)
<1>1. k \in 1..Len(ch) /\ FirstDecider(ch, p, k)
  OBVIOUS
<1>2. ResolveAlong(ch, p) = branches[ch[k]].delta[p]
  BY DEF ResolveAlong
<1> HIDE DEF k
<1>3. ~(k < i) /\ ~(i < k)
  <2>1. k < i => k \in 1..(i - 1)
    BY <1>1
  <2>2. i < k => i \in 1..(k - 1)
    BY <1>1
  <2> QED  BY <1>1, <2>1, <2>2 DEF FirstDecider
<1>4. k = i
  BY <1>1, <1>3
<1> QED  BY <1>2, <1>4

\* resolve_path_locked: the branch's own delta, tombstone or hide rule, or
\* what inherited_resolve_path_locked finds.
LEMMA ResolveUnfolds ==
    ASSUME TypeOK, LineageOK, NEW b \in DOMAIN branches, NEW p \in Path
    PROVE  ResolvePath(b, p) = IF Decides(branches[b], p) THEN branches[b].delta[p]
                               ELSE InheritedPath(b, p)
<1> DEFINE ch == branches[b].chain
<1>1. ch \in Seq(Branch) /\ Len(ch) \in Nat /\ Len(ch) > 0 /\ ch[1] = b
  BY RecordType, FieldType DEF LineageOK, ChainOK
<1>2. ResolvePath(b, p) = ResolveAlong(ch, p)
  BY DEF ResolvePath
<1>3. InheritedPath(b, p) = IF Len(ch) = 1 THEN Underlay(ch)[p] ELSE ResolveAlong(Tail(ch), p)
  BY DEF InheritedPath
<1> HIDE DEF ch
<1>4. CASE Decides(branches[b], p)
  <2>1. FirstDecider(ch, p, 1)
    <3>1. 1..(1 - 1) = {}
      OBVIOUS
    <3> QED  BY <1>1, <1>4, <3>1 DEF FirstDecider
  <2>2. 1 \in 1..Len(ch)
    BY <1>1
  <2> QED  BY <1>1, <1>2, <1>4, <2>1, <2>2, FirstAnswers
<1>5. CASE ~Decides(branches[b], p)
  <2>1. CASE Len(ch) = 1
    <3>1. ~ \E i \in 1..Len(ch) : FirstDecider(ch, p, i)
      BY <1>1, <1>5, <2>1 DEF FirstDecider
    <3> QED  BY <1>2, <1>3, <1>5, <2>1, <3>1 DEF ResolveAlong
  <2>2. CASE Len(ch) # 1
    <3> DEFINE tl == Tail(ch)
    <3>1. ch # <<>>
      BY <1>1
    <3>2. /\ tl \in Seq(Branch) /\ Len(tl) = Len(ch) - 1
          /\ \A i \in 1..Len(tl) : tl[i] = ch[i + 1]
      BY <1>1, <3>1, HeadTailProperties
    <3>3. Len(tl) \in Nat /\ Len(tl) > 0
      BY <1>1, <2>2, <3>2
    <3> HIDE DEF tl
    <3>4. ASSUME NEW i \in 1..Len(tl)
          PROVE  FirstDecider(tl, p, i) <=> FirstDecider(ch, p, i + 1)
      <4>1. tl[i] = ch[i + 1] /\ i + 1 - 1 = i
        BY <3>2, <3>4
      <4>2. ASSUME NEW j \in 1..(i - 1) PROVE tl[j] = ch[j + 1] /\ j + 1 \in 1..i
        BY <3>2, <3>3, <3>4, <4>2
      <4>3. ASSUME NEW j \in 1..i, j # 1 PROVE j - 1 \in 1..(i - 1) /\ j - 1 + 1 = j
        BY <3>4, <4>3
      <4>4. (\A j \in 1..(i - 1) : ~Decides(branches[tl[j]], p))
              <=> (\A j \in 1..i : ~Decides(branches[ch[j]], p))
        <5>1. ASSUME \A j \in 1..(i - 1) : ~Decides(branches[tl[j]], p), NEW j \in 1..i
              PROVE  ~Decides(branches[ch[j]], p)
          <6>1. CASE j = 1
            BY <6>1, <1>1, <1>5
          <6>2. CASE j # 1
            BY <6>2, <4>2, <4>3, <5>1, ZenonT(40)
          <6> QED  BY <6>1, <6>2
        <5>2. ASSUME \A j \in 1..i : ~Decides(branches[ch[j]], p), NEW j \in 1..(i - 1)
              PROVE  ~Decides(branches[tl[j]], p)
          BY <4>2, <5>2
        <5> QED  BY <5>1, <5>2
      <4> QED  BY <4>1, <4>4 DEF FirstDecider
    <3>5. CASE \E i \in 1..Len(tl) : FirstDecider(tl, p, i)
      <4>1. PICK i \in 1..Len(tl) : FirstDecider(tl, p, i)
        BY <3>5
      <4>2. i + 1 \in 1..Len(ch) /\ FirstDecider(ch, p, i + 1)
        BY <1>1, <3>2, <3>4, <4>1
      <4>3. ResolveAlong(tl, p) = branches[tl[i]].delta[p]
        BY <3>3, <4>1, FirstAnswers
      <4>4. ResolveAlong(ch, p) = branches[ch[i + 1]].delta[p]
        BY <1>1, <4>2, FirstAnswers
      <4> QED  BY <1>2, <1>3, <1>5, <2>2, <3>2, <4>1, <4>3, <4>4 DEF tl
    <3>6. CASE ~ \E i \in 1..Len(tl) : FirstDecider(tl, p, i)
      <4>1. ~ \E i \in 1..Len(ch) : FirstDecider(ch, p, i)
        <5> SUFFICES ASSUME NEW i \in 1..Len(ch), FirstDecider(ch, p, i) PROVE FALSE
          OBVIOUS
        <5>1. i # 1
          BY <1>1, <1>5 DEF FirstDecider
        <5>2. i - 1 \in 1..Len(tl) /\ i - 1 + 1 = i
          BY <1>1, <3>2, <5>1
        <5> QED  BY <3>4, <3>6, <5>2
      <4>2. Underlay(tl) = Underlay(ch)
        <5>1. Len(tl) \in 1..Len(tl) /\ Len(tl) + 1 = Len(ch)
          BY <1>1, <3>2, <3>3
        <5>2. tl[Len(tl)] = ch[Len(ch)]
          BY <3>2, <5>1
        <5> QED  BY <5>2 DEF Underlay
      <4> QED  BY <1>2, <1>3, <1>5, <2>2, <3>6, <4>1, <4>2 DEF ResolveAlong, tl
    <3> QED  BY <3>5, <3>6
  <2> QED  BY <2>1, <2>2
<1> QED  BY <1>4, <1>5

\* A path the kernel can walk to is not blocked in the branch's own delta.
LEMMA ReachableUnblocked ==
    ASSUME TypeOK, LineageOK, NEW b \in DOMAIN branches, NEW p \in Path, Reachable(b, p)
    PROVE  ~Blocked(branches[b].delta, p)
<1> SUFFICES ASSUME NEW a \in Above(p), IsLeaf(branches[b].delta[a]) PROVE FALSE
  BY DEF Blocked
<1>1. a \in Path /\ branches[b].delta \in Tree
  BY RecordType, FieldType DEF Above
<1>2. Exists(branches[b].delta[a])
  BY <1>1, Kinds
<1>3. ResolvePath(b, a) = branches[b].delta[a]
  BY <1>1, <1>2, ResolveUnfolds DEF Decides
<1>4. IsDir(branches[b].delta[a])
  BY <1>3 DEF Reachable
<1> QED  BY <1>1, <1>4, Kinds

-----------------------------------------------------------------------------
(***************************************************************************)
(* What the operations of one branch make of its trees.                    *)
(***************************************************************************)
TreeRecord(r) == IsTree(r.delta) /\ IsTree(r.inh)

\* A record given another tree as its delta.
LEMMA FilesGiven ==
    ASSUME NEW r \in BranchRecord, TreeRecord(r), NEW t \in Tree, IsTree(t),
           NEW touch, NEW D
    PROVE  TreeRecord(WithFiles(r, touch, t, D))
BY DEF TreeRecord, WithFiles, BranchRecord

\* The same, with or without other tombstones, by a commit or not.
LEMMA DeltaGiven ==
    ASSUME NEW r \in BranchRecord, TreeRecord(r), NEW t \in Tree, IsTree(t), NEW D
    PROVE  /\ TreeRecord([r EXCEPT !.delta = t])
           /\ TreeRecord([r EXCEPT !.delta = t, !.tomb = D])
           /\ TreeRecord([r EXCEPT !.delta = t, !.commits = @ + 1])
           /\ TreeRecord([r EXCEPT !.delta = t, !.tomb = D, !.commits = @ + 1])
BY DEF TreeRecord, WithFiles, BranchRecord

\* Copy-up makes the directories above the path and nothing else but a copy.
LEMMA EnsureDeltaIsTree ==
    ASSUME NEW r \in BranchRecord, TreeRecord(r), NEW p \in Path, NEW src \in Entry,
           ~Blocked(r.delta, p)
    PROVE  LET n == EnsureDelta(r, p, src)
           IN  /\ TreeRecord(n)
               /\ \A a \in Above(p) : IsDir(n.delta[a])
               /\ IsDir(n.delta[p]) <=> IsDir(r.delta[p])
               /\ \A q \in Path : q = p \/ q \in Above(p) \/ n.delta[q] = r.delta[q]
<1> DEFINE n == EnsureDelta(r, p, src)
           copy == IF IsLeaf(src) THEN [r.delta EXCEPT ![p] = src] ELSE r.delta
           touch == RecordFirstTouch(r.touch, p, src, TRUE)
           m == MkParents(copy, {p})
<1>1. r.delta \in Tree /\ IsTree(r.delta) /\ IsTree(r.inh)
  BY FieldType DEF TreeRecord
<1>2. CASE Exists(r.delta[p])
  <2>1. n.delta = r.delta /\ n.inh = r.inh
    BY <1>2 DEF EnsureDelta, BranchRecord
  <2> QED  BY <1>1, <1>2, <2>1 DEF TreeRecord, IsTree
<1>3. CASE ~Exists(r.delta[p])
  <2>1. copy \in Tree /\ \A q \in Path : copy[q] = IF q = p /\ IsLeaf(src) THEN src ELSE r.delta[q]
    BY <1>1 DEF Tree
  <2>2. n = WithFiles(r, touch, m, r.tomb \ {p})
    BY <1>3 DEF EnsureDelta, WithFiles
  <2>3. n.delta = m /\ n.inh = r.inh
    <3> HIDE DEF m, touch, n
    <3> QED  BY <2>2 DEF WithFiles, BranchRecord
  <2> HIDE DEF copy
  <2>4. \A q \in Path : m[q] = IF ~Exists(copy[q]) /\ q \in Above(p) THEN Dir ELSE copy[q]
    BY DEF MkParents
  <2>5. ~IsDir(src) \/ ~IsLeaf(src)
    BY DEF IsDir, IsLeaf
  <2>6. p \notin Above(p)
    BY PathOrder
  <2>7. \A q \in Path : Exists(copy[q]) => q \in {p} \/ \A a \in Above(q) : IsDir(copy[a])
    <3> SUFFICES ASSUME NEW q \in Path, Exists(copy[q]), q # p, NEW a \in Above(q)
                 PROVE  IsDir(copy[a])
      OBVIOUS
    <3>1. a \in Path /\ IsDir(r.delta[a])
      BY <1>1, <2>1 DEF IsTree, Above
    <3>2. a # p
      BY <1>3, <3>1 DEF Exists, IsDir
    <3> QED  BY <2>1, <3>1, <3>2
  <2>8. \A x \in {p} : ~Blocked(copy, x)
    <3> SUFFICES ASSUME NEW a \in Above(p), IsLeaf(copy[a]) PROVE FALSE
      BY DEF Blocked
    <3>1. a \in Path /\ a # p
      BY <2>6 DEF Above
    <3> QED  BY <3>1, <2>1 DEF Blocked
  <2>9. IsTree(m) /\ \A a \in Above(p) : IsDir(m[a])
    <3>1. {p} \in SUBSET Path
      OBVIOUS
    <3> QED  BY <3>1, <2>1, <2>7, <2>8, ParentsMakeTree
  <2>10. IsDir(m[p]) <=> IsDir(r.delta[p])
    BY <2>1, <2>4, <2>5, <2>6, <1>3 DEF IsDir, Exists
  <2>11. \A q \in Path : q = p \/ q \in Above(p) \/ m[q] = r.delta[q]
    BY <2>1, <2>4
  <2> HIDE DEF m, n
  <2> QED  BY <1>1, <2>3, <2>9, <2>10, <2>11 DEF TreeRecord, n
<1> QED  BY <1>2, <1>3

\* create, mkdir, symlink, truncate and write: then an entry at the path.
LEMMA PlaceIsTree ==
    ASSUME NEW r \in BranchRecord, TreeRecord(r), NEW p \in Path, NEW src \in Entry,
           NEW e \in Entry, ~Blocked(r.delta, p),
           IsDir(r.delta[p]) => IsDir(e)
    PROVE  TreeRecord([EnsureDelta(r, p, src) EXCEPT !.delta[p] = e])
<1> DEFINE n == EnsureDelta(r, p, src)
<1>1. n \in BranchRecord
  BY EnsureDeltaType DEF Follows
<1>2. /\ TreeRecord(n)
      /\ \A a \in Above(p) : IsDir(n.delta[a])
      /\ IsDir(n.delta[p]) => IsDir(e)
  BY EnsureDeltaIsTree
<1> HIDE DEF n
<1>3. n.delta \in Tree /\ IsTree(n.delta)
  BY <1>1, <1>2, FieldType DEF TreeRecord
<1>4. IsTree([n.delta EXCEPT ![p] = e]) /\ [n.delta EXCEPT ![p] = e] \in Tree
  BY <1>2, <1>3, PutIsTree, SMTT(30) DEF Tree
<1>5. [n EXCEPT !.delta[p] = e] = [n EXCEPT !.delta = [n.delta EXCEPT ![p] = e]]
  OBVIOUS
<1>6. TreeRecord([n EXCEPT !.delta[p] = e])
  BY <1>1, <1>2, <1>4, <1>5, DeltaGiven
<1> QED  BY <1>6 DEF n

\* write keeps the kind of the entry.
LEMMA WriteIsTree ==
    ASSUME NEW r \in BranchRecord, TreeRecord(r), NEW p \in Path, NEW src \in Entry,
           NEW i \in Nat \ {0}, ~Blocked(r.delta, p)
    PROVE  TreeRecord(WriteLine(r, p, src, i))
<1> DEFINE r1 == EnsureDelta(r, p, src)
           l == PutLine(r1.delta[p].lines, i, r.sess + 1)
           e == [r1.delta[p] EXCEPT !.lines = l]
<1>1. r1 \in BranchRecord
  BY EnsureDeltaType DEF Follows
<1>2. IsDir(r1.delta[p]) <=> IsDir(r.delta[p])
  BY EnsureDeltaIsTree
<1>3. r1.delta[p] \in Entry
  <2> HIDE DEF r1
  <2> QED  BY <1>1, FieldType DEF Tree
<1>4. e \in Entry /\ e.kind = r1.delta[p].kind
  <2>1. r.sess + 1 \in Line
    BY FieldType, LineAssumption, BoundAssumption
  <2> HIDE DEF r1
  <2>2. r1.delta[p].lines \in Seq(Line)
    BY <1>3 DEF Entry
  <2>3. l \in Seq(Line)
    BY <2>1, <2>2, PutLineType
  <2> HIDE DEF l
  <2> QED  BY <1>3, <2>3 DEF Entry
<1>5. WriteLine(r, p, src, i) = [r1 EXCEPT !.delta[p] = e]
  BY DEF WriteLine
<1> HIDE DEF e
<1>6. IsDir(r.delta[p]) => IsDir(e)
  BY <1>2, <1>4 DEF IsDir
<1> QED  BY <1>4, <1>5, <1>6, PlaceIsTree

\* unlink, rmdir and revert: remove and prune.
LEMMA CutIsTree ==
    ASSUME NEW r \in BranchRecord, TreeRecord(r), NEW p \in Path, NEW touched
    PROVE  LET cut == Prune(RemoveTree(r.delta, {p}), touched, {ParentDir(p)})
               t == IF Exists(r.delta[p]) THEN cut ELSE r.delta
           IN  t \in Tree /\ IsTree(t)
<1>1. r.delta \in Tree /\ IsTree(r.delta)
  BY FieldType DEF TreeRecord
<1>2. RemoveTree(r.delta, {p}) \in Tree /\ IsTree(RemoveTree(r.delta, {p}))
  <2>1. {p} \in SUBSET Path
    OBVIOUS
  <2> QED  BY <1>1, <2>1, RemoveTreeType, RemoveIsTree
<1> QED  BY <1>1, <1>2, PruneType, PruneIsTree

\* delete_path_in_branch and rmdir_path_in_branch
LEMMA DropIsTree ==
    ASSUME NEW r \in BranchRecord, TreeRecord(r), NEW p \in Path, NEW src \in Entry
    PROVE  TreeRecord(DropPath(r, p, src))
<1> DEFINE touch == RecordFirstTouch(r.touch, p, src, FALSE)
           cut == Prune(RemoveTree(r.delta, {p}), {q \in Path : touch[q].made},
                        {ParentDir(p)})
           t == IF Exists(r.delta[p]) THEN cut ELSE r.delta
           D == IF Exists(src) THEN r.tomb \cup {p} ELSE r.tomb \ {p}
<1>1. t \in Tree /\ IsTree(t)
  <2> HIDE DEF touch
  <2> QED  BY CutIsTree
<1>2. DropPath(r, p, src) = WithFiles(r, touch, t, D)
  BY DEF DropPath, WithFiles
<1> HIDE DEF touch, t, D
<1> QED  BY <1>1, <1>2, FilesGiven

\* revert_path_in_branch
LEMMA RevertIsTree ==
    ASSUME NEW r \in BranchRecord, TreeRecord(r), NEW p \in Path
    PROVE  TreeRecord(RevertRecord(r, p))
<1> DEFINE touch == [q \in Path |-> IF q \in Under(p) THEN NoTouch ELSE r.touch[q]]
           cut == Prune(RemoveTree(r.delta, {p}), {q \in Path : r.touch[q].made},
                        {ParentDir(p)})
           t == IF Exists(r.delta[p]) THEN cut ELSE r.delta
           D == r.tomb \ Under(p)
<1>1. t \in Tree /\ IsTree(t)
  BY CutIsTree
<1>2. RevertRecord(r, p) = WithFiles(r, touch, t, D)
  BY DEF RevertRecord, WithFiles
<1> HIDE DEF touch, t, D
<1> QED  BY <1>1, <1>2, FilesGiven

-----------------------------------------------------------------------------
(***************************************************************************)
(* rename: a subtree is moved inside the delta.                            *)
(***************************************************************************)
\* The path that comes to be q when s is moved to d, name by name.
LEMMA MovedNames ==
    ASSUME NEW s \in Path, NEW d \in Path, NEW q \in Path, q \in Under(d)
    PROVE  /\ Moved(s, d, q) \in Seq(STRING)
           /\ Len(Moved(s, d, q)) = Len(s) + (Len(q) - Len(d))
           /\ \A i \in 1..(Len(s) + (Len(q) - Len(d))) :
                Moved(s, d, q)[i] = IF i <= Len(s) THEN s[i] ELSE q[Len(d) + (i - Len(s))]
<1>1. /\ s \in Seq(STRING) /\ q \in Seq(STRING)
      /\ Len(s) \in Nat /\ Len(d) \in Nat /\ Len(q) \in Nat /\ Len(d) <= Len(q)
  BY PathType DEF Under
<1> DEFINE m == Len(d) + 1
           n == Len(q)
           tl == SubSeq(q, m, n)
<1>2. m \in Int /\ n \in Int /\ \A i \in m..n : q[i] \in STRING
  BY <1>1
<1>3. /\ tl \in Seq(STRING)
      /\ Len(tl) = IF m <= n THEN n - m + 1 ELSE 0
      /\ \A i \in 1..(n - m + 1) : tl[i] = q[m + i - 1]
  <2> HIDE DEF m, n
  <2> QED  BY <1>2, SubSeqProperties
<1>4. Len(tl) = n - Len(d) /\ \A i \in 1..(n - Len(d)) : tl[i] = q[Len(d) + i]
  <2>1. n - m + 1 = n - Len(d) /\ (IF m <= n THEN n - m + 1 ELSE 0) = n - Len(d)
    BY <1>1
  <2>2. \A i \in 1..(n - Len(d)) : m + i - 1 = Len(d) + i
    BY <1>1
  <2> HIDE DEF m, n, tl
  <2> QED  BY <1>3, <2>1, <2>2
<1> HIDE DEF tl
<1>5. Moved(s, d, q) = s \o tl
  BY DEF Moved, tl
<1>6. /\ s \o tl \in Seq(STRING) /\ Len(s \o tl) = Len(s) + Len(tl)
      /\ \A i \in 1..(Len(s) + Len(tl)) :
           (s \o tl)[i] = IF i <= Len(s) THEN s[i] ELSE tl[i - Len(s)]
  BY <1>1, <1>3, ConcatProperties
<1>7. \A i \in 1..(Len(s) + (Len(q) - Len(d))) : i <= Len(s) \/ i - Len(s) \in 1..(n - Len(d))
  BY <1>1
<1> HIDE DEF m, n
<1> QED  BY <1>4, <1>5, <1>6, <1>7 DEF n

\* Moving keeps what is above what, and takes s itself to d.
LEMMA MovedOrder ==
    ASSUME NEW s \in Path, NEW d \in Path, NEW q \in Path, q \in Under(d),
           Moved(s, d, q) \in Path, NEW a \in Path, a \in Under(d), a \in Above(q)
    PROVE  Moved(s, d, a) \in Path /\ Moved(s, d, a) \in Above(Moved(s, d, q))
<1> DEFINE x == Moved(s, d, a)
           y == Moved(s, d, q)
           n == Len(s) + (Len(a) - Len(d))
<1>1. /\ Len(s) \in Nat /\ Len(d) \in Nat /\ Len(q) \in Nat /\ Len(a) \in Nat
      /\ Len(d) <= Len(a) /\ Len(a) < Len(q) /\ Len(s) > 0
  BY PathType DEF Under, Above
<1>2. \A i \in 1..Len(a) : q[i] = a[i]
  <2>1. IsPrefixOf(a, q)
    BY PrefixOrder
  <2> QED  BY <2>1 DEF IsPrefixOf
<1>3. /\ x \in Seq(STRING) /\ Len(x) = n
      /\ \A i \in 1..n : x[i] = IF i <= Len(s) THEN s[i] ELSE a[Len(d) + (i - Len(s))]
  BY MovedNames
<1>4. /\ y \in Seq(STRING) /\ Len(y) = Len(s) + (Len(q) - Len(d))
      /\ \A i \in 1..(Len(s) + (Len(q) - Len(d))) :
            y[i] = IF i <= Len(s) THEN s[i] ELSE q[Len(d) + (i - Len(s))]
  BY MovedNames
<1> HIDE DEF x, y
<1>5. /\ n \in 1..Len(y) /\ n < Len(y) /\ n \in Nat
      /\ \A i \in 1..n : /\ i \in 1..(Len(s) + (Len(q) - Len(d)))
                         /\ i <= Len(s) \/ Len(d) + (i - Len(s)) \in 1..Len(a)
  BY <1>1, <1>4
<1> HIDE DEF n
<1>6. \A i \in 1..n : y[i] = x[i]
  <2> TAKE i \in 1..n
  <2>1. x[i] = IF i <= Len(s) THEN s[i] ELSE a[Len(d) + (i - Len(s))]
    BY <1>3
  <2>2. y[i] = IF i <= Len(s) THEN s[i] ELSE q[Len(d) + (i - Len(s))]
    BY <1>4, <1>5
  <2> QED  BY <2>1, <2>2, <1>2, <1>5
<1>7. IsPrefixOf(x, y)
  BY <1>3, <1>5, <1>6 DEF IsPrefixOf
<1>8. SubSeq(y, 1, n) = x
  BY <1>3, <1>4, <1>7, CutIsPrefix
<1>9. y \in Path
  BY DEF y
<1>10. x \in Path
  BY <1>5, <1>8, <1>9, PathType
<1>11. x \in Above(y)
  BY <1>3, <1>5, <1>7, <1>9, <1>10, PrefixOrder
<1> QED  BY <1>10, <1>11 DEF x, y

\* fs::rename of a subtree to a path in a directory.
LEMMA MoveIsTree ==
    ASSUME NEW t \in Tree, IsTree(t), NEW s \in Path, NEW d \in Path,
           \A a \in Above(d) : IsDir(t[a])
    PROVE  IsTree([q \in Path |->
                     IF q \in Under(s) THEN Missing
                     ELSE IF q \in Under(d)
                          THEN IF Moved(s, d, q) \in Path THEN t[Moved(s, d, q)]
                               ELSE Missing
                     ELSE t[q]])
<1> DEFINE n == [q \in Path |->
                   IF q \in Under(s) THEN Missing
                   ELSE IF q \in Under(d)
                        THEN IF Moved(s, d, q) \in Path THEN t[Moved(s, d, q)]
                             ELSE Missing
                   ELSE t[q]]
<1>1. \A q \in Path : n[q] = IF q \in Under(s) THEN Missing
                             ELSE IF q \in Under(d)
                                  THEN IF Moved(s, d, q) \in Path THEN t[Moved(s, d, q)]
                                       ELSE Missing
                             ELSE t[q]
  OBVIOUS
<1> HIDE DEF n
<1> SUFFICES ASSUME NEW q \in Path, Exists(n[q]), NEW a \in Above(q)
             PROVE  IsDir(n[a])
  BY DEF IsTree, n
<1>2. a \in Path
  BY DEF Above
<1>3. q \notin Under(s)
  BY <1>1, Kinds
<1>4. a \notin Under(s)
  BY <1>2, <1>3, PathOrder
<1>5. CASE q \in Under(d)
  <2>1. Moved(s, d, q) \in Path /\ Exists(t[Moved(s, d, q)])
    BY <1>1, <1>3, <1>5, Kinds
  <2>2. CASE a \in Under(d)
    <3>1. Moved(s, d, a) \in Path /\ Moved(s, d, a) \in Above(Moved(s, d, q))
      BY <1>2, <1>5, <2>1, <2>2, MovedOrder
    <3>2. IsDir(t[Moved(s, d, a)])
      BY <2>1, <3>1 DEF IsTree
    <3> QED  BY <1>1, <1>2, <1>4, <2>2, <3>1, <3>2
  <2>3. CASE a \notin Under(d)
    <3>1. a \in Above(d)
      BY <1>2, <1>5, <2>3, PathOrder
    <3> QED  BY <1>1, <1>2, <1>4, <2>3, <3>1
  <2> QED  BY <2>2, <2>3
<1>6. CASE q \notin Under(d)
  <2>1. a \notin Under(d)
    BY <1>2, <1>6, PathOrder
  <2>2. Exists(t[q])
    BY <1>1, <1>3, <1>6
  <2>3. IsDir(t[a])
    BY <1>2, <2>2 DEF IsTree
  <2> QED  BY <1>1, <1>2, <1>4, <2>1, <2>3
<1> QED  BY <1>5, <1>6

\* rename, finished or failed.
LEMMA RenameIsTree ==
    ASSUME NEW r \in BranchRecord, TreeRecord(r), NEW s \in Path, NEW d \in Path,
           NEW srcS \in Entry, NEW srcD \in Entry,
           ~Blocked(r.delta, s), ~Blocked(r.delta, d), d \notin Under(s)
    PROVE  TreeRecord(RenameRecord(r, s, d, srcS, srcD))
<1> DEFINE r1 == EnsureDelta(r, s, srcS)
           r2 == RenameCopied(r, s, d, srcS, srcD)
           t == RenameCleared(r, s, d, srcS, srcD)
           moved == [q \in Path |->
                      IF q \in Under(s) THEN Missing
                      ELSE IF q \in Under(d)
                           THEN IF Moved(s, d, q) \in Path THEN t[Moved(s, d, q)]
                                ELSE Missing
                      ELSE t[q]]
           D == (IF Exists(srcS) THEN r2.tomb \cup {s} ELSE r2.tomb \ {s}) \ {d}
<1>1. /\ r1 \in BranchRecord /\ TreeRecord(r1)
      /\ \A a \in Above(s) : IsDir(r1.delta[a])
      /\ \A q \in Path : q = s \/ q \in Above(s) \/ r1.delta[q] = r.delta[q]
  BY EnsureDeltaIsTree, EnsureDeltaType DEF Follows
<1>2. r2 = EnsureDelta(r1, d, srcD)
  BY DEF RenameCopied
<1> HIDE DEF r1
<1>3. ~Blocked(r1.delta, d)
  <2> SUFFICES ASSUME NEW a \in Above(d), IsLeaf(r1.delta[a]) PROVE FALSE
    BY DEF Blocked
  <2>1. a \in Path
    BY DEF Above
  <2>2. a # s
    BY <2>1, PathOrder
  <2>3. r1.delta \in Tree
    BY <1>1, FieldType
  <2>4. a \notin Above(s)
    BY <1>1, <2>1, <2>3, Kinds
  <2>5. r1.delta[a] = r.delta[a]
    BY <1>1, <2>1, <2>2, <2>4
  <2> QED  BY <2>5 DEF Blocked
<1>4. /\ r2 \in BranchRecord /\ TreeRecord(r2)
      /\ \A a \in Above(d) : IsDir(r2.delta[a])
  BY <1>1, <1>2, <1>3, EnsureDeltaIsTree, EnsureDeltaType DEF Follows
<1>5. t \in {RemoveTree(r2.delta, {d}), r2.delta}
  BY DEF RenameCleared
<1> HIDE DEF r2, t
<1>6. t \in Tree /\ IsTree(t) /\ \A a \in Above(d) : IsDir(t[a])
  <2>1. r2.delta \in Tree /\ IsTree(r2.delta)
    BY <1>4, FieldType DEF TreeRecord
  <2>2. CASE t = r2.delta
    BY <1>4, <2>1, <2>2
  <2>3. CASE t = RemoveTree(r2.delta, {d})
    <3>1. {d} \in SUBSET Path
      OBVIOUS
    <3>2. t \in Tree /\ IsTree(t)
      BY <2>1, <2>3, <3>1, RemoveTreeType, RemoveIsTree
    <3>3. ASSUME NEW a \in Above(d) PROVE IsDir(t[a])
      <4>1. a \in Path
        BY <3>3 DEF Above
      <4>2. a \notin Under(d)
        BY <3>3, <4>1, PathOrder
      <4> QED  BY <1>4, <2>3, <4>1, <4>2, <3>3 DEF RemoveTree
    <3> QED  BY <3>2, <3>3
  <2> QED  BY <1>5, <2>2, <2>3
<1>7. moved \in Tree /\ IsTree(moved)
  <2>1. IsTree(moved)
    BY <1>6, MoveIsTree
  <2>2. moved \in Tree
    BY <1>6, EntryType DEF Tree
  <2> QED  BY <2>1, <2>2
<1>8. \/ RenameRecord(r, s, d, srcS, srcD) = [r2 EXCEPT !.delta = moved, !.tomb = D]
      \/ RenameRecord(r, s, d, srcS, srcD) = [r2 EXCEPT !.delta = t]
  BY SMTT(30) DEF RenameRecord, r2, t
<1> HIDE DEF moved, D
<1>9. /\ TreeRecord([r2 EXCEPT !.delta = moved, !.tomb = D])
      /\ TreeRecord([r2 EXCEPT !.delta = t])
  BY <1>4, <1>6, <1>7, DeltaGiven
<1> QED  BY <1>8, <1>9

-----------------------------------------------------------------------------
(***************************************************************************)
(* StagedMerge: what a commit leaves in its destination.                   *)
(***************************************************************************)
\* The files of a delta are not above each other.
LEMMA FilesApart ==
    ASSUME NEW r \in BranchRecord, TreeRecord(r), NEW p \in DeltaFiles(r),
           NEW a \in Above(p)
    PROVE  a \notin DeltaFiles(r) /\ p \in Path /\ a \in Path
<1>1. p \in Path /\ IsLeaf(r.delta[p]) /\ r.delta \in Tree /\ IsTree(r.delta)
  BY FieldType DEF DeltaFiles, TreeRecord
<1>2. a \in Path /\ Exists(r.delta[p])
  BY <1>1, Kinds DEF Above
<1>3. IsDir(r.delta[a])
  BY <1>1, <1>2 DEF IsTree
<1> QED  BY <1>1, <1>2, <1>3, Kinds DEF DeltaFiles

\* The destination after the copies are renamed into place.
LEMMA PublishedIsTree ==
    ASSUME TypeOK, LineageOK, NEW b \in DOMAIN branches, TreeRecord(branches[b]),
           NEW t \in Tree, IsTree(t), ~StageFails(b, t)
    PROVE  IsTree(Published(b, t))
<1> DEFINE r == branches[b]
           files == DeltaFiles(r)
           S == r.tomb \cup files
           cut == RemoveTree(t, S)
           made == MkParents(cut, files)
           pub == Published(b, t)
<1>1. r \in BranchRecord /\ r.tomb \in SUBSET Path /\ files \in SUBSET Path
  BY RecordType, FieldType DEF DeltaFiles
<1>2. \A q \in Path : pub[q] = IF q \in files THEN MergeSource(b, q) ELSE made[q]
  BY DEF Published
<1>3. cut \in Tree /\ IsTree(cut)
  BY <1>1, RemoveTreeType, RemoveIsTree
<1>4. \A p \in files : ~Blocked(cut, p)
  <2> SUFFICES ASSUME NEW p \in files, NEW a \in Above(p), IsLeaf(cut[a]) PROVE FALSE
    BY DEF Blocked
  <2>1. a \in Path
    BY DEF Above
  <2>2. cut[a] = t[a] /\ ~ \E u \in S : a \in Under(u)
    BY <2>1, Kinds DEF RemoveTree
  <2>3. IsLeaf(RemoveTree(t, r.tomb)[a])
    BY <2>1, <2>2 DEF RemoveTree
  <2> QED  BY <2>3 DEF StageFails, BlockedFiles, Blocked
<1> HIDE DEF cut
<1>5. /\ IsTree(made)
      /\ \A p \in files : \A a \in Above(p) : IsDir(made[a])
  BY <1>1, <1>3, <1>4, ParentsMakeTree DEF IsTree
<1>6. ASSUME NEW f \in files PROVE ~Exists(cut[f]) /\ \A q \in Under(f) : ~Exists(cut[q])
  <2>1. \A q \in Under(f) : q \in Path /\ cut[q] = Missing
    BY <1>6 DEF cut, RemoveTree, Under
  <2>2. f \in Under(f)
    BY <1>1, <1>6, PathOrder
  <2> QED  BY <2>1, <2>2 DEF Missing, Exists
<1> SUFFICES ASSUME NEW q \in Path, Exists(pub[q]), NEW a \in Above(q)
             PROVE  IsDir(pub[a])
  BY DEF IsTree
<1>7. a \in Path
  BY DEF Above
<1>8. CASE q \in files
  <2>1. a \notin files
    BY <1>1, <1>8, FilesApart
  <2> QED  BY <1>2, <1>5, <1>7, <1>8, <2>1
<1>9. CASE q \notin files
  <2>1. Exists(made[q])
    BY <1>2, <1>9
  <2>2. IsDir(made[a])
    BY <1>5, <1>7, <2>1 DEF IsTree
  <2>3. a \notin files
    <3> SUFFICES ASSUME a \in files PROVE FALSE
      OBVIOUS
    <3>1. q \in Under(a)
      BY <1>7, PathOrder
    <3>2. ~Exists(cut[q])
      BY <1>6, <3>1
    <3>3. PICK p \in files : q \in Above(p)
      BY <2>1, <3>2 DEF MkParents
    <3>4. a \in Above(p)
      BY <1>1, <1>7, <3>3, PathOrder
    <3> QED  BY <1>1, <3>4, FilesApart
  <2> QED  BY <1>2, <1>7, <2>2, <2>3
<1> QED  BY <1>8, <1>9

\* Nothing of the destination above a deleted path went, unless it is deleted
\* too or a file is published over it.
LEMMA KeptAbove ==
    ASSUME TypeOK, LineageOK, NEW b \in DOMAIN branches, NEW t \in Tree, IsTree(t),
           NEW u \in Path, Exists(t[u]), NEW a \in Above(u),
           \A v \in branches[b].tomb : u \notin Below(v),
           ~Blocked(Published(b, t), u)
    PROVE  IsDir(Published(b, t)[a])
<1> DEFINE r == branches[b]
           files == DeltaFiles(r)
           cut == RemoveTree(t, r.tomb \cup files)
           made == MkParents(cut, files)
           pub == Published(b, t)
<1>1. a \in Path /\ IsDir(t[a]) /\ r.tomb \in SUBSET Path /\ files \in SUBSET Path
  BY RecordType, FieldType DEF IsTree, Above, DeltaFiles
<1>2. \A q \in Path : pub[q] = IF q \in files THEN MergeSource(b, q) ELSE made[q]
  BY DEF Published
<1>3. ASSUME NEW f \in files, f \in Above(u) PROVE FALSE
  <2>1. IsLeaf(MergeSource(b, f))
    BY <1>3 DEF MergeSource, DeltaFiles, IsLeaf, File
  <2>2. IsLeaf(pub[f])
    BY <1>1, <1>2, <2>1
  <2> QED  BY <1>3, <2>2 DEF Blocked
<1>4. ~ \E v \in r.tomb \cup files : a \in Under(v)
  <2> SUFFICES ASSUME NEW v \in r.tomb \cup files, a \in Under(v) PROVE FALSE
    OBVIOUS
  <2>1. v \in Path /\ v \in Above(u) /\ u \in Below(v)
    <3>1. v \in Path
      BY <1>1
    <3>2. v = a \/ v \in Above(a)
      BY <1>1, <3>1, PathOrder
    <3>3. v \in Above(u)
      BY <1>1, <3>1, <3>2, PathOrder
    <3> QED  BY <3>1, <3>3, PathOrder
  <2> QED  BY <1>3, <2>1
<1>5. cut[a] = t[a]
  BY <1>1, <1>4 DEF RemoveTree
<1>6. made[a] = t[a]
  BY <1>1, <1>5 DEF MkParents, IsDir, Exists
<1>7. a \notin files
  BY <1>3
<1> QED  BY <1>1, <1>2, <1>6, <1>7

\* A commit whose discard fails: trash is renamed back only to a path whose
\* directory is there and at which nothing was published.
LEMMA HalfPublishedIsTree ==
    ASSUME TypeOK, LineageOK, NEW b \in DOMAIN branches, TreeRecord(branches[b]),
           NEW t \in Tree, IsTree(t), ~StageFails(b, t), NEW n \in HalfPublished(b, t)
    PROVE  IsTree(n)
<1> DEFINE r == branches[b]
           pub == Published(b, t)
           nested == {u \in r.tomb : \E v \in r.tomb : u \in Below(v)}
           canReturn == {u \in r.tomb \ nested : /\ Exists(t[u]) /\ ~TrashLost(b, t, u)
                                                 /\ ~Exists(pub[u]) /\ ~Blocked(pub, u)}
           after(kept, lost) == [q \in Path |-> IF /\ \E u \in kept : q \in Under(u)
                                                  /\ \A u \in lost : q \notin Under(u)
                                               THEN t[q] ELSE pub[q]]
<1>1. PICK kept \in SUBSET canReturn, lost \in SUBSET nested : n = after(kept, lost)
  <2>1. HalfPublished(b, t) = {after(kept, lost) : kept \in SUBSET canReturn,
                                                   lost \in SUBSET nested}
    BY DEF HalfPublished
  <2> HIDE DEF after, canReturn, nested
  <2> QED  BY <2>1
<1>2. IsTree(pub) /\ pub \in Tree /\ r.tomb \in SUBSET Path
  BY PublishedIsTree, PublishedType, RecordType, FieldType
<1>3. \A u \in kept : /\ u \in Path /\ u \in r.tomb /\ Exists(t[u]) /\ ~Exists(pub[u])
                      /\ ~Blocked(pub, u) /\ \A v \in r.tomb : u \notin Below(v)
  BY <1>1, <1>2
<1>4. lost \in SUBSET Path
  BY <1>1, <1>2
<1> HIDE DEF pub
<1> DEFINE Back(q) == /\ \E u \in kept : q \in Under(u)
                      /\ \A u \in lost : q \notin Under(u)
<1>5. \A q \in Path : n[q] = IF Back(q) THEN t[q] ELSE pub[q]
  BY <1>1
<1> SUFFICES ASSUME NEW q \in Path, Exists(n[q]), NEW a \in Above(q)
             PROVE  IsDir(n[a])
  BY DEF IsTree
<1>6. a \in Path /\ q \in Under(a)
  BY PathOrder DEF Above
<1>7. CASE Back(q)
  <2>1. PICK u \in kept : q \in Under(u)
    BY <1>7
  <2>2. IsDir(t[a])
    BY <1>5, <1>6, <1>7 DEF IsTree
  <2>3. CASE a \in Under(u)
    <3>1. \A w \in lost : a \notin Under(w)
      BY <1>4, <1>6, <1>7, PathOrder
    <3>2. Back(a)
      BY <2>1, <2>3, <3>1
    <3> QED  BY <1>5, <1>6, <2>2, <3>2
  <2>4. CASE a \notin Under(u)
    <3>1. a \in Above(u)
      BY <1>3, <1>6, <2>1, <2>4, PathOrder
    <3>2. ~Back(a)
      <4> SUFFICES ASSUME NEW v \in kept, a \in Under(v) PROVE FALSE
        OBVIOUS
      <4>1. v = a \/ v \in Above(a)
        BY <1>3, <1>6, PathOrder
      <4>2. v \in Above(u)
        BY <1>3, <1>6, <3>1, <4>1, PathOrder
      <4>3. u \in Below(v)
        BY <1>3, <4>2, PathOrder
      <4> QED  BY <1>3, <4>3
    <3>3. IsDir(pub[a])
      BY <1>3, <3>1, KeptAbove DEF pub
    <3> HIDE DEF Back
    <3> QED  BY <1>5, <1>6, <3>2, <3>3
  <2> QED  BY <2>3, <2>4
<1>8. CASE ~Back(q)
  <2>1. Exists(pub[q])
    <3> HIDE DEF Back
    <3> QED  BY <1>5, <1>8
  <2>2. IsDir(pub[a])
    BY <1>2, <1>6, <2>1 DEF IsTree
  <2>3. ~Back(a)
    <3> SUFFICES ASSUME NEW u \in kept, a \in Under(u) PROVE FALSE
      OBVIOUS
    <3>1. u \in Path
      BY <1>3
    <3>2. q \in Under(u)
      BY <1>6, <3>1, PathOrder
    <3>3. u = q \/ u \in Above(q)
      BY <3>1, <3>2, PathOrder
    <3>4. Exists(pub[u])
      <4>1. CASE u = q
        BY <4>1, <2>1
      <4>2. CASE u \in Above(q)
        BY <4>2, <1>2, <2>1, SMTT(30) DEF IsTree, IsDir, Exists
      <4> QED  BY <3>3, <4>1, <4>2
    <3> QED  BY <1>3, <3>4
  <2> HIDE DEF Back
  <2> QED  BY <1>5, <1>6, <2>2, <2>3
<1> QED  BY <1>7, <1>8

\* A path is longer than a directory two levels above it.
LEMMA NotTheParent ==
    ASSUME NEW v \in Path, NEW q \in Path, NEW p \in Path, v \in Above(q), q \in Above(p)
    PROVE  ParentDir(p) # v
<1>1. /\ Len(p) \in Nat /\ Len(q) \in Nat /\ Len(v) \in Nat /\ Len(v) > 0
      /\ Len(v) < Len(q) /\ Len(q) < Len(p) /\ p \in Seq(STRING)
  BY PathType DEF Above
<1> DEFINE n == Len(p) - 1
<1>2. /\ n \in Int /\ 1 \in Int /\ n >= 1 /\ n # Len(v) /\ n - 1 + 1 = n
      /\ \A i \in 1..n : p[i] \in STRING
  BY <1>1
<1>3. Len(SubSeq(p, 1, n)) = IF 1 <= n THEN n - 1 + 1 ELSE 0
  <2> HIDE DEF n
  <2> QED  BY <1>2, SubSeqProperties
<1> QED  BY <1>2, <1>3 DEF ParentDir

\* A commit that is rolled back: what is renamed back comes with everything
\* above it, and directories made for copies stay.
LEMMA RolledBackIsTree ==
    ASSUME TypeOK, LineageOK, NEW b \in DOMAIN branches, TreeRecord(branches[b]),
           NEW t \in Tree, IsTree(t), NEW n \in RolledBack(b, t)
    PROVE  IsTree(n)
<1> DEFINE r == branches[b]
           dels == {u \in r.tomb : Exists(t[u])}
           cut == RemoveTree(t, dels)
           replaced(done) == {p \in done : IsDir(cut[p])}
           rest(done) == MkParents(RemoveTree(cut, replaced(done)), done)
           taken(done) == {u \in dels : \E p \in done : p \in Below(u) /\
                                          (ParentDir(p) # u \/ ~IsDir(t[u]))}
           inside(done) == {u \in dels : \E v \in replaced(done) : u \in Below(v)}
           after(done, lost) ==
             [q \in Path |->
                IF /\ \E u \in dels \cup replaced(done) : q \in Under(u)
                   /\ \A u \in lost \cup inside(done) \cup taken(done) : q \notin Under(u)
                THEN t[q] ELSE rest(done)[q]]
           nested == {u \in dels : \E v \in dels : u \in Below(v)}
           runs == SUBSET (DeltaFiles(r) \ BlockedFiles(b, t))
<1>1. PICK done \in runs, lost \in SUBSET nested : n = after(done, lost)
  <2>1. RolledBack(b, t) = UNION {{after(done, lost) : lost \in SUBSET nested} :
                                    done \in runs}
    BY DEF RolledBack
  <2> HIDE DEF after, nested, runs
  <2> QED  BY <2>1
<1> DEFINE S == dels \cup replaced(done)
           L == lost \cup inside(done) \cup taken(done)
           cut2 == RemoveTree(cut, replaced(done))
           rst == rest(done)
           Back(q) == (\E u \in S : q \in Under(u)) /\ \A u \in L : q \notin Under(u)
<1>2. \A q \in Path : n[q] = IF Back(q) THEN t[q] ELSE rst[q]
  BY <1>1
<1>3. /\ r \in BranchRecord /\ dels \in SUBSET Path /\ done \in SUBSET Path
      /\ replaced(done) \in SUBSET done /\ L \in SUBSET dels
      /\ \A p \in done : p \in DeltaFiles(r) /\ p \notin BlockedFiles(b, t)
  BY <1>1, RecordType, FieldType DEF DeltaFiles
<1>4. taken(done) = {u \in dels : \E p \in done : p \in Below(u) /\
                                     (ParentDir(p) # u \/ ~IsDir(t[u]))}
      /\ taken(done) \in SUBSET L
  OBVIOUS
<1>5. cut2 \in Tree /\ IsTree(cut2)
  <2>1. cut \in Tree /\ IsTree(cut)
    BY <1>3, RemoveTreeType, RemoveIsTree
  <2>2. replaced(done) \in SUBSET Path
    BY <1>3
  <2> HIDE DEF cut, replaced
  <2> QED  BY <2>1, <2>2, RemoveTreeType, RemoveIsTree
<1>6. \A q \in Path : cut2[q] = IF \E u \in S : q \in Under(u) THEN Missing ELSE t[q]
  <2>1. \A q \in Path : cut[q] = IF \E u \in dels : q \in Under(u) THEN Missing ELSE t[q]
    BY DEF RemoveTree
  <2> HIDE DEF cut, replaced, dels
  <2> QED  BY <2>1 DEF RemoveTree
<1>7. \A q \in Path : rst[q] = IF ~Exists(cut2[q]) /\ \E p \in done : q \in Above(p)
                               THEN Dir ELSE cut2[q]
  <2> HIDE DEF cut, replaced
  <2> QED  BY DEF MkParents
<1> HIDE DEF cut2, rst, replaced, taken, L
<1>8. \A p \in done : ~Blocked(cut2, p)
  <2> SUFFICES ASSUME NEW p \in done, NEW a \in Above(p), IsLeaf(cut2[a]) PROVE FALSE
    BY DEF Blocked
  <2>1. a \in Path
    BY DEF Above
  <2>2. cut2[a] = t[a] /\ \A u \in dels : a \notin Under(u)
    BY <1>6, <2>1, Kinds
  <2>3. Exists(t[a])
    BY <2>1, <2>2, Kinds
  <2>4. ~ \E v \in r.tomb : a \in Under(v)
    <3> SUFFICES ASSUME NEW v \in r.tomb, a \in Under(v) PROVE FALSE
      OBVIOUS
    <3>1. v \in Path /\ ~Exists(t[v])
      BY <1>3, <2>2, FieldType
    <3>2. v = a \/ v \in Above(a)
      BY <2>1, <3>1, PathOrder
    <3> QED  BY <2>1, <2>3, <3>1, <3>2 DEF IsTree, IsDir, Exists
  <2>5. IsLeaf(RemoveTree(t, r.tomb)[a])
    BY <2>1, <2>2, <2>4 DEF RemoveTree
  <2> QED  BY <1>3, <2>5 DEF BlockedFiles, Blocked
<1>9. IsTree(rst)
  <2>1. MkParents(cut2, done) = rst
    BY DEF rst, cut2
  <2>2. IsTree(MkParents(cut2, done))
    BY <1>3, <1>5, <1>8, ParentsMakeTree DEF IsTree
  <2> QED  BY <2>1, <2>2
<1> SUFFICES ASSUME NEW q \in Path, Exists(n[q]), NEW a \in Above(q)
             PROVE  IsDir(n[a])
  BY DEF IsTree
<1>10. a \in Path /\ q \in Under(a)
  BY PathOrder DEF Above
<1>11. CASE Back(q)
  <2>1. IsDir(t[a])
    BY <1>2, <1>10, <1>11 DEF IsTree
  <2>2. \A w \in L : a \notin Under(w)
    <3>1. \A w \in L : w \in Path /\ q \notin Under(w)
      BY <1>3, <1>11
    <3> QED  BY <1>10, <3>1, PathOrder
  <2>3. CASE \E u \in S : a \in Under(u)
    BY <1>2, <1>10, <2>1, <2>2, <2>3
  <2>4. CASE ~ \E u \in S : a \in Under(u)
    <3>1. cut2[a] = t[a]
      BY <1>6, <1>10, <2>4
    <3>2. rst[a] = t[a]
      BY <1>7, <1>10, <2>1, <3>1 DEF IsDir, Exists
    <3>3. n[a] = rst[a]
      BY <1>2, <1>10, <2>4
    <3> QED  BY <2>1, <3>2, <3>3
  <2> QED  BY <2>3, <2>4
<1>12. CASE ~Back(q)
  <2>1. Exists(rst[q])
    <3> HIDE DEF Back
    <3> QED  BY <1>2, <1>12
  <2>2. IsDir(rst[a])
    BY <1>9, <1>10, <2>1 DEF IsTree
  <2>3. ~Back(a)
    <3> SUFFICES ASSUME Back(a) PROVE FALSE
      OBVIOUS
    <3>1. PICK v \in S : a \in Under(v)
      OBVIOUS
    <3>2. v \in Path
      BY <1>3
    <3>3. v \in Above(q) /\ q \in Under(v)
      <4>1. v = a \/ v \in Above(a)
        BY <1>10, <3>1, <3>2, PathOrder
      <4>2. v \in Above(q)
        BY <1>10, <3>2, <4>1, PathOrder
      <4> QED  BY <3>2, <4>2, PathOrder
    <3>4. cut2[q] = Missing
      BY <1>6, <3>1, <3>3
    <3>5. PICK p \in done : q \in Above(p)
      <4>1. ~Exists(cut2[q])
        BY <3>4 DEF Exists, Missing
      <4> QED  BY <1>7, <2>1, <4>1
    <3>6. p \in Path /\ v \in Above(p)
      BY <1>3, <3>2, <3>3, <3>5, PathOrder
    <3>7. v \in dels
      <4>1. v \notin DeltaFiles(r)
        BY <1>3, <3>6, FilesApart
      <4> QED  BY <1>3, <4>1
    <3>8. ParentDir(p) # v /\ p \in Below(v)
      BY <3>2, <3>3, <3>5, <3>6, NotTheParent, PathOrder
    <3>9. v \in L
      BY <1>4, <3>7, <3>8
    <3> QED  BY <3>1, <3>9
  <2> HIDE DEF Back
  <2> QED  BY <1>2, <1>10, <2>2, <2>3
<1> QED  BY <1>11, <1>12

-----------------------------------------------------------------------------
(***************************************************************************)
(* The steps.                                                              *)
(***************************************************************************)
\* One branch's record is replaced by one with trees.
LEMMA TreesSet ==
    ASSUME IInv, TreesOK, NEW b \in DOMAIN branches, NEW r, TreeRecord(r), Set(b, r),
           base' = base
    PROVE  TreesOK'
<1>1. branches' = [branches EXCEPT ![b] = r]
  BY DEF Set
<1>2. DOMAIN branches' = DOMAIN branches
      /\ \A c \in DOMAIN branches : branches'[c] = IF c = b THEN r ELSE branches[c]
  BY <1>1 DEF IInv, TypeOK
<1> QED  BY <1>2 DEF TreesOK, TreeRecord

\* The trees of a branch in the table.
LEMMA TreesOfBranch ==
    ASSUME TreesOK, NEW b \in DOMAIN branches
    PROVE  TreeRecord(branches[b]) /\ IsTree(base)
BY DEF TreesOK, TreeRecord

\* Every file operation keeps the trees.
LEMMA FileOperationTrees ==
    ASSUME IInv, TreesOK, NEW b \in DOMAIN branches, NEW p \in Path, FileOperation(b, p)
    PROVE  TreesOK'
<1> DEFINE src == InheritedForTouch(b, p)
           r == branches[b]
<1>1. src \in Entry /\ r \in BranchRecord /\ TreeRecord(r) /\ r.delta \in Tree
  BY InheritedType, RecordType, FieldType, TreesOfBranch DEF IInv
<1>2. Reachable(b, p) => ~Blocked(r.delta, p)
  BY ReachableUnblocked DEF IInv
<1>3. Visible(b, p) => Reachable(b, p)
  BY DEF Visible
<1>4. ASSUME NEW n, NEW status, TreeRecord(n), FileOp(b, n, status) PROVE TreesOK'
  BY <1>4, TreesSet DEF FileOp
<1>5. Exists(r.delta[p]) => ResolvePath(b, p) = r.delta[p]
  BY ResolveUnfolds DEF IInv, Decides
<1>6. IsDir(r.delta[p]) => Exists(ResolvePath(b, p)) /\ ~IsFile(ResolvePath(b, p))
  BY <1>5 DEF IsDir, Exists, IsFile
<1> HIDE DEF src, r
<1>7. ASSUME NEW i \in 1..MaxLines, WriteData(b, p, i) PROVE TreesOK'
  <2>1. Visible(b, p) /\ FileOp(b, WriteLine(r, p, src, i), "ok")
    BY <1>7 DEF WriteData, r, src
  <2>2. i \in Nat \ {0}
    BY <1>7, BoundAssumption
  <2>3. TreeRecord(WriteLine(r, p, src, i))
    BY <1>1, <1>2, <1>3, <2>1, <2>2, WriteIsTree
  <2> QED  BY <1>4, <2>1, <2>3
<1>8. CASE NoSpace(b, p)
  <2> DEFINE n == [r EXCEPT !.touch = RecordFirstTouch(@, p, src, TRUE)]
  <2>1. FileOp(b, n, "eio")
    BY <1>8 DEF NoSpace, r, src
  <2>2. TreeRecord(n)
    BY <1>1 DEF TreeRecord, BranchRecord
  <2> HIDE DEF n
  <2> QED  BY <1>4, <2>1, <2>2
<1>9. ASSUME NEW e \in Entry, NEW status, Reachable(b, p), ~IsDir(r.delta[p]),
             FileOp(b, [EnsureDelta(r, p, src) EXCEPT !.delta[p] = e], status)
      PROVE  TreesOK'
  <2>1. TreeRecord([EnsureDelta(r, p, src) EXCEPT !.delta[p] = e])
    BY <1>1, <1>2, <1>9, PlaceIsTree
  <2> QED  BY <1>4, <1>9, <2>1
<1>10. CASE CreateFile(b, p)
  <2> DEFINE e == IF src.kind = "symlink" THEN src ELSE File(<<>>)
  <2>1. /\ Reachable(b, p) /\ ~Exists(ResolvePath(b, p))
        /\ FileOp(b, [EnsureDelta(r, p, src) EXCEPT !.delta[p] = e], "ok")
    BY <1>10 DEF CreateFile, r, src
  <2>2. e \in Entry
    BY <1>1, EntryType
  <2> HIDE DEF e
  <2> QED  BY <1>6, <1>9, <2>1, <2>2
<1>11. CASE MakeDir(b, p) \/ MakeSymlink(b, p)
  <2>1. PICK k \in {Dir, Symlink}, status \in {"ok", "eio"} :
          /\ Reachable(b, p) /\ ~Exists(ResolvePath(b, p))
          /\ FileOp(b, [EnsureDelta(r, p, src) EXCEPT !.delta[p] =
                          IF IsLeaf(src) THEN src ELSE k], status)
    BY <1>11 DEF MakeDir, MakeSymlink, PlaceNew, r, src
  <2> DEFINE e == IF IsLeaf(src) THEN src ELSE k
  <2>2. e \in Entry
    BY <1>1, EntryType
  <2> HIDE DEF e
  <2> QED  BY <1>6, <1>9, <2>1, <2>2 DEF e
<1>12. CASE Truncate(b, p)
  <2>1. /\ Visible(b, p) /\ IsFile(ResolvePath(b, p))
        /\ FileOp(b, [EnsureDelta(r, p, src) EXCEPT !.delta[p] = File(<<>>)], "ok")
    BY <1>12 DEF Truncate, r, src
  <2> QED  BY <1>3, <1>6, <1>9, <2>1, EntryType
<1>13. CASE ChangeAttr(b, p)
  <2>1. Visible(b, p) /\ FileOp(b, EnsureDelta(r, p, src), "ok")
    BY <1>13 DEF ChangeAttr, r, src
  <2>2. TreeRecord(EnsureDelta(r, p, src))
    BY <1>1, <1>2, <1>3, <2>1, EnsureDeltaIsTree
  <2> QED  BY <1>4, <2>1, <2>2
<1>14. CASE Unlink(b, p) \/ RemoveDir(b, p)
  <2>1. FileOp(b, DropPath(r, p, src), "ok")
    BY <1>14 DEF Unlink, RemoveDir, r, src
  <2>2. TreeRecord(DropPath(r, p, src))
    BY <1>1, DropIsTree
  <2> QED  BY <1>4, <2>1, <2>2
<1>15. ASSUME NEW d \in Path, Rename(b, p, d) PROVE TreesOK'
  <2> DEFINE srcD == InheritedForTouch(b, d)
  <2>1. /\ Visible(b, p) /\ Reachable(b, d) /\ d \notin Under(p)
        /\ FileOp(b, RenameRecord(r, p, d, src, srcD),
                  IF RenameWorks(r, p, d, src, srcD) THEN "ok" ELSE "eio")
    BY <1>15 DEF Rename, r, src
  <2>2. srcD \in Entry
    BY InheritedType DEF IInv
  <2>3. ~Blocked(r.delta, d)
    BY <2>1, ReachableUnblocked DEF IInv, r
  <2> HIDE DEF srcD
  <2>4. TreeRecord(RenameRecord(r, p, d, src, srcD))
    BY <1>1, <1>2, <1>3, <2>1, <2>2, <2>3, RenameIsTree
  <2> QED  BY <1>4, <2>1, <2>4
<1> QED  BY <1>7, <1>8, <1>10, <1>11, <1>12, <1>13, <1>14, <1>15
         DEF FileOperation, PathOperation

\* revert, freeze and thaw.
LEMMA ManagerTrees ==
    ASSUME IInv, TreesOK, NEW b \in DOMAIN branches,
           \/ \E p \in Path : RevertPath(b, p)
           \/ \E frozen \in BOOLEAN : SetState(b, frozen)
    PROVE  TreesOK'
<1>1. branches[b] \in BranchRecord /\ TreeRecord(branches[b])
  BY RecordType, TreesOfBranch DEF IInv
<1>2. ASSUME NEW p \in Path, RevertPath(b, p) PROVE TreesOK'
  <2>1. TreeRecord(RevertRecord(branches[b], p))
    BY <1>1, RevertIsTree
  <2> QED  BY <1>2, <2>1, TreesSet DEF RevertPath
<1>3. ASSUME NEW frozen \in BOOLEAN, SetState(b, frozen) PROVE TreesOK'
  <2> DEFINE n == [branches[b] EXCEPT !.frozen = frozen]
  <2>1. TreeRecord(n)
    BY <1>1 DEF TreeRecord, BranchRecord
  <2>2. Set(b, n) /\ base' = base
    BY <1>3 DEF SetState
  <2> HIDE DEF n
  <2> QED  BY <2>1, <2>2, TreesSet
<1> QED  BY <1>2, <1>3

\* A leaf is removed and, for a commit, its parent's record replaced.
LEMMA TreesRemove ==
    ASSUME IInv, TreesOK, NEW b, NEW m \in DOMAIN branches, NEW n, TreeRecord(n),
           branches' = [c \in DOMAIN branches \ {b} |-> IF c = m THEN n ELSE branches[c]],
           IsTree(base')
    PROVE  TreesOK'
<1>1. DOMAIN branches' = DOMAIN branches \ {b}
      /\ \A c \in DOMAIN branches' : branches'[c] = IF c = m THEN n ELSE branches[c]
  OBVIOUS
<1> QED  BY <1>1 DEF TreesOK, TreeRecord

\* commit into the base.
LEMMA CommitToBaseTrees ==
    ASSUME IInv, TreesOK, NEW b \in DOMAIN branches, CommitToBase(b)
    PROVE  TreesOK'
<1> DEFINE m == branches[Main]
           S == DeltaFiles(branches[b]) \cup branches[b].tomb
           t == RemoveTree(m.delta, S)
           n == [m EXCEPT !.delta = t, !.commits = @ + 1]
<1>1. /\ Main \in DOMAIN branches /\ base \in Tree /\ branches[b] \in BranchRecord
      /\ branches \in [DOMAIN branches -> BranchRecord]
  BY DEF IInv, TypeOK
<1>2. /\ b # Main /\ base' = Published(b, base) /\ ~StageFails(b, base)
  BY DEF CommitToBase
<1>3. IsTree(base')
  BY <1>1, <1>2, PublishedIsTree, TreesOfBranch DEF IInv
<1>4. TreeRecord(n)
  <2>1. m \in BranchRecord /\ TreeRecord(m) /\ m.delta \in Tree /\ IsTree(m.delta)
    BY <1>1, RecordType, FieldType, TreesOfBranch DEF IInv, TreeRecord
  <2>2. S \in SUBSET Path
    BY <1>1, FieldType DEF DeltaFiles
  <2> HIDE DEF m, S
  <2>3. t \in Tree /\ IsTree(t)
    BY <2>1, <2>2, RemoveTreeType, RemoveIsTree
  <2> HIDE DEF t
  <2> QED  BY <2>1, <2>3, DeltaGiven
<1>5. branches' = [c \in DOMAIN branches \ {b} |-> IF c = Main THEN n ELSE branches[c]]
  BY <1>1, <1>2 DEF CommitToBase, Without
<1> HIDE DEF n
<1> QED  BY <1>1, <1>3, <1>4, <1>5, TreesRemove, SMTT(30)

\* commit into a parent branch.
LEMMA NestedCommitTrees ==
    ASSUME IInv, TreesOK, NEW b \in DOMAIN branches, NestedCommit(b)
    PROVE  TreesOK'
<1> DEFINE m == branches[b].parent
           starts == {ParentDir(p) :
                        p \in {q \in branches[b].tomb : Exists(branches[m].delta[q])}}
           touched == {q \in Path : branches[m].touch[q].made}
           t == Prune(Published(b, branches[m].delta), touched, starts)
           D == MergedTombstones(b, m)
           n == [branches[m] EXCEPT !.delta = t, !.tomb = D, !.commits = @ + 1]
<1>1. b # Main /\ base' = base /\ ~StageFails(b, branches[m].delta)
  BY DEF NestedCommit
<1>2. m \in DOMAIN branches /\ m # b
  <2>1. m \in DOMAIN branches /\ branches[m].sess < branches[b].sess
    BY <1>1 DEF IInv, LineageOK, ParentOK
  <2>2. branches[b].sess \in 0..MaxEpoch
    BY RecordType, FieldType, SMTT(30) DEF IInv
  <2> QED  BY <2>1, <2>2
<1>3. TreeRecord(n)
  <2>1. /\ branches[m] \in BranchRecord /\ TreeRecord(branches[m])
        /\ branches[m].delta \in Tree /\ IsTree(branches[m].delta)
    BY <1>2, RecordType, FieldType, TreesOfBranch DEF IInv, TreeRecord
  <2>2. /\ Published(b, branches[m].delta) \in Tree
        /\ IsTree(Published(b, branches[m].delta))
    BY <1>1, <2>1, PublishedType, PublishedIsTree, TreesOfBranch DEF IInv
  <2>3. t \in Tree /\ IsTree(t)
    BY <2>2, PruneType, PruneIsTree
  <2> HIDE DEF t, D, m
  <2> QED  BY <2>1, <2>3, DeltaGiven
<1>4. branches' = [c \in DOMAIN branches \ {b} |-> IF c = m THEN n ELSE branches[c]]
  <2>1. branches' = [Without(b) EXCEPT ![m].delta = Prune(Published(b, @), touched, starts),
                                       ![m].tomb = D, ![m].commits = @ + 1]
    BY DEF NestedCommit
  <2> HIDE DEF m, touched, starts, D
  <2>2. Without(b) = [c \in DOMAIN branches \ {b} |-> branches[c]]
    BY DEF Without
  <2> QED  BY <1>2, <2>1, <2>2 DEF t
<1>5. IsTree(base')
  BY <1>1 DEF TreesOK
<1> HIDE DEF n, m
<1> QED  BY <1>2, <1>3, <1>4, <1>5, TreesRemove

\* A commit that fails, or panics.
LEMMA FailedCommitTrees ==
    ASSUME IInv, TreesOK, NEW b \in DOMAIN branches, FailedCommit(b)
    PROVE  TreesOK'
<1> DEFINE m == branches[b].parent
<1>1. b # Main /\ base \in Tree /\ branches \in [DOMAIN branches -> BranchRecord]
  BY DEF FailedCommit, IInv, TypeOK
<1>2. m \in DOMAIN branches /\ branches[m] \in BranchRecord /\ TreeRecord(branches[m])
  BY <1>1, RecordType, TreesOfBranch DEF IInv, LineageOK, ParentOK
<1>3. Destination(b) \in Tree /\ IsTree(Destination(b))
  <2>1. branches[m].delta \in Tree /\ IsTree(branches[m].delta)
    BY <1>2, FieldType DEF TreeRecord
  <2> QED  BY <1>1, <2>1 DEF Destination, TreesOK
<1>4. PICK t \in FailedTrees(b, Destination(b)) :
         IF m = Main THEN base' = t /\ UNCHANGED branches
         ELSE branches' = [branches EXCEPT ![m].delta = t] /\ UNCHANGED base
  BY DEF FailedCommit
<1>5. IsTree(t) /\ t \in Tree
  <2>1. t \in Tree
    BY <1>3, <1>4, FailedTreesType
  <2>2. TreeRecord(branches[b])
    BY TreesOfBranch
  <2>3. \/ t = Destination(b)
        \/ t \in RolledBack(b, Destination(b))
        \/ ~StageFails(b, Destination(b)) /\ t \in HalfPublished(b, Destination(b))
    BY <1>4 DEF FailedTrees
  <2>4. IsTree(t)
    BY <1>3, <2>2, <2>3, RolledBackIsTree, HalfPublishedIsTree DEF IInv
  <2> QED  BY <2>1, <2>4
<1> HIDE DEF m
<1>6. CASE m = Main
  BY <1>4, <1>5, <1>6 DEF TreesOK
<1>7. CASE m # Main
  <2> DEFINE n == [branches[m] EXCEPT !.delta = t]
  <2>1. base' = base /\ Set(m, n)
    BY <1>4, <1>7, <1>2, SMTT(30) DEF Set
  <2>2. TreeRecord(n)
    BY <1>2, <1>5, DeltaGiven
  <2> HIDE DEF n
  <2> QED  BY <1>2, <2>1, <2>2, TreesSet
<1> QED  BY <1>6, <1>7

\* create_branch_with_options and abort.
LEMMA CreateTrees ==
    ASSUME IInv, TreesOK, NEW b \in Branch, NEW parent \in DOMAIN branches,
           NEW mode \in Mode, NEW hide \in HideSets, CreateBranch(b, parent, mode, hide)
    PROVE  TreesOK'
<1> DEFINE inh == IF mode = "snapshot" THEN SnapshotVisibleTree(parent) ELSE EmptyTree
           r == NewBranch(parent, ForkChain(b, parent, mode), mode,
                          branches[parent].commits, hide, inh, epoch + 1)
<1>1. IsTree(EmptyTree)
  BY DEF IsTree, EmptyTree, Exists, Missing
<1>2. IsTree(inh)
  BY <1>1, SnapshotIsTree DEF IInv
<1> HIDE DEF inh
<1>3. TreeRecord(r)
  BY <1>1, <1>2 DEF TreeRecord, NewBranch
<1>4. /\ base' = base
      /\ branches' = [c \in DOMAIN branches \cup {b} |-> IF c = b THEN r ELSE branches[c]]
  BY DEF CreateBranch, inh
<1> HIDE DEF r
<1>5. DOMAIN branches' = DOMAIN branches \cup {b}
      /\ \A c \in DOMAIN branches' : branches'[c] = IF c = b THEN r ELSE branches[c]
  BY <1>4
<1> QED  BY <1>3, <1>4, <1>5 DEF TreesOK, TreeRecord

\* An abort takes a branch out of the table and changes no tree.
LEMMA AbortTrees ==
    ASSUME IInv, TreesOK, NEW b \in DOMAIN branches, AbortBranch(b)
    PROVE  TreesOK'
BY DEF AbortBranch, Without, TreesOK

\* Every step keeps the trees.
LEMMA TreesStep ==
    ASSUME IInv, TreesOK, [Next]_vars
    PROVE  TreesOK'
<1>1. ASSUME NEW b \in DOMAIN branches \cap Agents, NEW p \in Path, FileOperation(b, p)
      PROVE  TreesOK'
  BY <1>1, FileOperationTrees
<1>2. ASSUME NEW b \in DOMAIN branches,
             \/ \E p \in Path : RevertPath(b, p)
             \/ \E frozen \in BOOLEAN : SetState(b, frozen)
      PROVE  TreesOK'
  BY <1>2, ManagerTrees
<1>3. ASSUME NEW b \in DOMAIN branches,
             CommitToBase(b) \/ NestedCommit(b) \/ FailedCommit(b) \/ AbortBranch(b)
      PROVE  TreesOK'
  BY <1>3, CommitToBaseTrees, NestedCommitTrees, FailedCommitTrees, AbortTrees
<1>4. ASSUME NEW b \in Branch, NEW parent \in DOMAIN branches, NEW mode \in Mode,
             NEW hide \in HideSets, CreateBranch(b, parent, mode, hide)
      PROVE  TreesOK'
  BY <1>4, CreateTrees
<1>5. CASE UNCHANGED vars
  BY <1>5 DEF vars, TreesOK
<1> QED  BY <1>1, <1>2, <1>3, <1>4, <1>5 DEF Next

\* The base directory and the new main branch are trees.
LEMMA TreesStart == Init => TreesOK
<1>1. IsTree(EmptyTree)
  BY DEF IsTree, EmptyTree, Exists, Missing
<1> QED  BY <1>1, BaseAssumption DEF Init, TreesOK, NewBranch

-----------------------------------------------------------------------------
(***************************************************************************)
(* What a branch inherits does not depend on its own record, because no    *)
(* branch is further down its own chain.                                   *)
(***************************************************************************)
\* The branches of a chain are ever older.
LEMMA ChainDescends ==
    ASSUME TypeOK, LineageOK, NEW b \in DOMAIN branches, NEW i \in 2..Len(branches[b].chain)
    PROVE  branches[branches[b].chain[i]].sess < branches[b].sess
<1> DEFINE ch == branches[b].chain
           T == {j \in 2..Len(ch) : ~(branches[ch[j]].sess < branches[b].sess)}
<1>1. ch \in Seq(Branch) /\ Len(ch) \in Nat /\ branches[b].sess \in Nat
  BY RecordType, FieldType
<1>2. /\ Len(ch) > 0 /\ ch[1] = b
      /\ \A j \in 1..Len(ch) : ch[j] \in DOMAIN branches
      /\ \A j \in 1..(Len(ch) - 1) : ch[j] # Main /\ branches[ch[j]].parent = ch[j + 1]
  BY DEF LineageOK, ChainOK
<1> HIDE DEF ch
<1>3. \A j \in 1..Len(ch) : branches[ch[j]].sess \in Nat
  BY <1>2, RecordType, FieldType
<1>4. \A j \in 1..(Len(ch) - 1) : branches[ch[j + 1]].sess < branches[ch[j]].sess
  <2> TAKE j \in 1..(Len(ch) - 1)
  <2>1. j \in 1..Len(ch)
    BY <1>1
  <2>2. ch[j] \in DOMAIN branches \ {Main} /\ branches[ch[j]].parent = ch[j + 1]
    BY <1>2, <2>1
  <2>3. ParentOK(ch[j])
    BY <2>2 DEF LineageOK
  <2> QED  BY <2>2, <2>3 DEF ParentOK
<1>5. T = {}
  <2> SUFFICES ASSUME T # {} PROVE FALSE
    OBVIOUS
  <2>1. T \in SUBSET Nat
    BY <1>1
  <2>2. PICK x \in T : \A y \in T : x <= y
    <3> HIDE DEF T
    <3> QED  BY <2>1, LeastNumber
  <2> DEFINE y == x - 1
  <2>3. /\ x \in 2..Len(ch) /\ ~(branches[ch[x]].sess < branches[b].sess)
        /\ y \in 1..(Len(ch) - 1) /\ y + 1 = x /\ y \in 1..Len(ch) /\ x \in 1..Len(ch)
        /\ ~(x <= y) /\ (y # 1 => y \in 2..Len(ch))
    BY <1>1
  <2> HIDE DEF y
  <2>4. branches[ch[x]].sess < branches[ch[y]].sess
    BY <1>4, <2>3
  <2>5. y = 1 \/ branches[ch[y]].sess < branches[b].sess
    BY <2>2, <2>3
  <2>6. branches[ch[y]].sess = branches[b].sess \/ branches[ch[y]].sess < branches[b].sess
    BY <1>2, <2>5
  <2>7. branches[ch[x]].sess \in Nat /\ branches[ch[y]].sess \in Nat
    BY <1>3, <2>3
  <2> QED  BY <1>1, <2>3, <2>4, <2>6, <2>7
<1> QED  BY <1>5 DEF ch

\* FirstAnswers, as a formula that can be primed.
FirstAnswer ==
    \A ch, p : Len(ch) \in Nat /\ p \in Path =>
      \A i \in 1..Len(ch) :
        FirstDecider(ch, p, i) => ResolveAlong(ch, p) = branches[ch[i]].delta[p]

\* The same of the next state, where every operator is primed.
LEMMA FirstAnswersNext == FirstAnswer'
<1>1. FirstAnswer
  BY FirstAnswers DEF FirstAnswer
<1> QED  BY <1>1, PTL

\* What b inherits stays the same when its own record changes, but for the
\* chain and the snapshot, and nothing else does.
LEMMA InheritedFrame ==
    ASSUME TypeOK, LineageOK, NEW b \in DOMAIN branches, NEW r, Set(b, r), base' = base,
           r.chain = branches[b].chain, r.inh = branches[b].inh, NEW p \in Path
    PROVE  InheritedPath(b, p)' = InheritedPath(b, p)
<1> DEFINE ch == branches[b].chain
           tl == Tail(ch)
<1>1. ch \in Seq(Branch) /\ Len(ch) \in Nat /\ Len(ch) > 0 /\ ch[1] = b
      /\ \A i \in 1..Len(ch) : ch[i] \in DOMAIN branches
  BY RecordType, FieldType DEF LineageOK, ChainOK
<1>2. \A c \in DOMAIN branches : branches'[c] = IF c = b THEN r ELSE branches[c]
  BY DEF Set, TypeOK
<1>3. branches'[b].chain = ch /\ branches'[b].inh = branches[b].inh
  BY <1>2
<1>4. CASE Len(ch) = 1
  <2>1. InheritedPath(b, p) = (IF b = Main THEN base ELSE branches[b].inh)[p]
    BY <1>1, <1>4 DEF InheritedPath, Underlay
  <2>2. InheritedPath(b, p)' = (IF b = Main THEN base' ELSE branches'[b].inh)[p]
    BY <1>1, <1>3, <1>4 DEF InheritedPath, Underlay
  <2> QED  BY <1>3, <2>1, <2>2
<1>5. CASE Len(ch) # 1
  <2>1. InheritedPath(b, p) = ResolveAlong(tl, p)
    BY <1>5 DEF InheritedPath
  <2>2. ASSUME NEW x, x = tl PROVE InheritedPath(b, p)' = ResolveAlong(x, p)'
    BY <1>3, <1>5, <2>2 DEF InheritedPath
  <2>3. ch # <<>>
    BY <1>1
  <2>4. /\ tl \in Seq(Branch) /\ Len(tl) = Len(ch) - 1
        /\ \A i \in 1..Len(tl) : tl[i] = ch[i + 1]
    BY <1>1, <2>3, HeadTailProperties
  <2>5. ASSUME NEW i \in 1..Len(tl) PROVE branches'[tl[i]] = branches[tl[i]]
    <3>1. i + 1 \in 2..Len(ch) /\ i + 1 \in 1..Len(ch)
      BY <1>1, <2>4, <2>5
    <3>2. branches[ch[i + 1]].sess < branches[b].sess
      BY <3>1, ChainDescends
    <3>3. branches[b].sess \in Nat
      BY RecordType, FieldType
    <3>4. ch[i + 1] # b
      BY <3>2, <3>3
    <3> HIDE DEF ch
    <3> QED  BY <1>1, <1>2, <2>4, <2>5, <3>1, <3>4
  <2>6. PICK x : x = tl
    OBVIOUS
  <2> HIDE DEF tl, ch
  <2>7. \A i \in 1..Len(x) : branches'[x[i]] = branches[x[i]]
    BY <2>5, <2>6
  <2>8. Len(x) \in Nat /\ Len(x) \in 1..Len(x)
    BY <1>1, <1>5, <2>4, <2>6
  <2>9. \A i \in 1..Len(x) : FirstDecider(x, p, i)' <=> FirstDecider(x, p, i)
    <3> TAKE i \in 1..Len(x)
    <3>1. \A j \in 1..(i - 1) : j \in 1..Len(x)
      BY <2>8
    <3> QED  BY <2>7, <3>1 DEF FirstDecider
  <2>10. Underlay(x)' = Underlay(x)
    BY <2>7, <2>8 DEF Underlay
  <2>11. ResolveAlong(x, p)' = ResolveAlong(x, p)
    <3>1. CASE \E i \in 1..Len(x) : FirstDecider(x, p, i)
      <4>1. PICK i \in 1..Len(x) : FirstDecider(x, p, i)
        BY <3>1
      <4>2. ResolveAlong(x, p) = branches[x[i]].delta[p]
        BY <2>8, <4>1, FirstAnswers
      <4>3. FirstDecider(x, p, i)'
        BY <2>9, <4>1
      <4>4. ResolveAlong(x, p)' = branches'[x[i]].delta[p]
        BY <2>8, <4>3, FirstAnswersNext DEF FirstAnswer
      <4> QED  BY <2>7, <4>2, <4>4
    <3>2. CASE ~ \E i \in 1..Len(x) : FirstDecider(x, p, i)
      BY <2>9, <2>10, <3>2 DEF ResolveAlong
    <3> QED  BY <3>1, <3>2
  <2> QED  BY <2>1, <2>2, <2>6, <2>11
<1> QED  BY <1>4, <1>5

-----------------------------------------------------------------------------
(***************************************************************************)
(* revert_path_in_branch.                                                  *)
(***************************************************************************)
\* ResolveUnfolds, as a formula that can be primed.
ResolveUnfold ==
    \A b \in DOMAIN branches : \A p \in Path :
      ResolvePath(b, p) = IF Decides(branches[b], p) THEN branches[b].delta[p]
                          ELSE InheritedPath(b, p)

\* The directory that contains p is above p.
LEMMA ParentIsAbove ==
    ASSUME NEW p \in Path, ParentDir(p) \in Path
    PROVE  ParentDir(p) \in Above(p)
<1> DEFINE d == ParentDir(p)
<1>1. p \in Seq(STRING) /\ Len(p) \in Nat /\ Len(p) > 0
  BY PathType
<1>2. Len(d) = Len(p) - 1
  <2>1. 1 \in Int /\ Len(p) - 1 \in Int /\ Len(p) - 1 <= Len(p)
    BY <1>1
  <2>2. Len(SubSeq(p, 1, Len(p) - 1)) =
          IF 1 <= Len(p) - 1 THEN (Len(p) - 1) - 1 + 1 ELSE 0
    <3>1. \A i \in 1..(Len(p) - 1) : p[i] \in STRING
      BY <1>1
    <3> QED  BY <2>1, <3>1, SubSeqProperties
  <2>3. (IF 1 <= Len(p) - 1 THEN (Len(p) - 1) - 1 + 1 ELSE 0) = Len(p) - 1
    <3>1. \A n \in Nat \ {0} : (IF 1 <= n - 1 THEN (n - 1) - 1 + 1 ELSE 0) = n - 1
      OBVIOUS
    <3>2. Len(p) \in Nat \ {0}
      BY <1>1
    <3> QED  BY <3>1, <3>2
  <2> QED  BY <2>2, <2>3 DEF ParentDir
<1>3. SubSeq(p, 1, Len(d)) = d /\ Len(d) < Len(p)
  BY <1>1, <1>2 DEF ParentDir
<1> QED  BY <1>3 DEF Above

\* What revert does to the delta and the tombstones at and below the path.
LEMMA RevertClears ==
    ASSUME NEW r \in BranchRecord, IsTree(r.delta), NEW p \in Path, NEW q \in Under(p)
    PROVE  /\ ~Exists(RevertRecord(r, p).delta[q])
           /\ IsDeleted(RevertRecord(r, p), q) =>
                \E a \in Above(p) : a \in RevertRecord(r, p).tomb
<1> DEFINE n == RevertRecord(r, p)
           cut == RemoveTree(r.delta, {p})
           touched == {x \in Path : r.touch[x].made}
<1>1. q \in Path /\ r.delta \in Tree /\ r.tomb \in SUBSET Path
  BY FieldType DEF Under
<1>2. /\ n.delta = IF Exists(r.delta[p]) THEN Prune(cut, touched, {ParentDir(p)}) ELSE r.delta
      /\ n.tomb = r.tomb \ Under(p)
  BY DEF RevertRecord, BranchRecord
<1> HIDE DEF n
<1>3. ~Exists(n.delta[q])
  <2>1. CASE Exists(r.delta[p])
    <3>1. cut[q] = Missing
      BY <1>1 DEF RemoveTree
    <3>2. Prune(cut, touched, {ParentDir(p)})[q] = Missing
      <4> HIDE DEF cut, touched
      <4> QED  BY <1>1, <3>1 DEF Prune
    <3> QED  BY <1>2, <2>1, <3>2 DEF Exists, Missing
  <2>2. CASE ~Exists(r.delta[p])
    <3>1. q = p \/ p \in Above(q)
      BY <1>1, PathOrder
    <3>2. ~Exists(r.delta[q])
      BY <1>1, <2>2, <3>1 DEF IsTree, IsDir, Exists
    <3> QED  BY <1>2, <2>2, <3>2
  <2> QED  BY <2>1, <2>2
<1>4. ASSUME NEW t \in n.tomb, q \in Under(t) PROVE t \in Above(p)
  <2>1. t \in Path /\ t \notin Under(p)
    BY <1>1, <1>2
  <2>2. t = q \/ t \in Above(q)
    BY <1>1, <1>4, <2>1, PathOrder
  <2> QED  BY <1>1, <2>1, <2>2, PathOrder
<1> QED  BY <1>3, <1>4 DEF IsDeleted, n

\* And elsewhere.
LEMMA RevertLeaves ==
    ASSUME NEW r \in BranchRecord, NEW p \in Path, NEW q \in Path,
           q \notin Under(p), q \notin Above(p)
    PROVE  /\ RevertRecord(r, p).delta[q] = r.delta[q]
           /\ IsDeleted(RevertRecord(r, p), q) <=> IsDeleted(r, q)
<1> DEFINE n == RevertRecord(r, p)
           cut == RemoveTree(r.delta, {p})
           touched == {x \in Path : r.touch[x].made}
<1>1. r.delta \in Tree /\ r.tomb \in SUBSET Path
  BY FieldType
<1>2. /\ n.delta = IF Exists(r.delta[p]) THEN Prune(cut, touched, {ParentDir(p)}) ELSE r.delta
      /\ n.tomb = r.tomb \ Under(p)
  BY DEF RevertRecord, BranchRecord
<1>3. cut[q] = r.delta[q]
  BY DEF RemoveTree
<1> HIDE DEF n
<1>4. ASSUME NEW s \in {ParentDir(p)} \cap Path PROVE s \notin Under(q)
  <2>1. s \in Path /\ s \in Above(p)
    BY <1>4, ParentIsAbove
  <2>2. s \in Under(q) => s = q \/ q \in Above(s)
    BY <2>1, PathOrder
  <2> QED  BY <2>1, <2>2, PathOrder
<1>5. Prune(cut, touched, {ParentDir(p)})[q] = cut[q]
  <2> HIDE DEF cut, touched
  <2> QED  BY <1>4 DEF Prune
<1>6. ASSUME NEW t \in r.tomb, q \in Under(t) PROVE t \notin Under(p)
  BY <1>1, <1>6, PathOrder
<1> QED  BY <1>2, <1>3, <1>5, <1>6 DEF IsDeleted, n

\* What a revert restores.
LEMMA RevertRestores ==
    ASSUME IInv, TreesOK, ResolveUnfold, ResolveUnfold',
           NEW b \in DOMAIN branches, NEW p \in Path, RevertPath(b, p), NEW q \in Path
    PROVE  IF q \in Under(p)
           THEN \/ \E a \in Above(p) : a \in branches'[b].tomb
                \/ ResolvePath(b, q)' = InheritedForTouch(b, q)
                \/ ~Exists(ResolvePath(b, q)') /\ ~Exists(InheritedForTouch(b, q))
           ELSE q \notin Above(p) => ResolvePath(b, q)' = ResolvePath(b, q)
<1> DEFINE r == branches[b]
           n == RevertRecord(r, p)
<1>1. r \in BranchRecord /\ IsTree(r.delta)
  BY RecordType DEF IInv, TreesOK
<1>2. Set(b, n) /\ base' = base
  BY DEF RevertPath
<1>3. n.chain = r.chain /\ n.inh = r.inh /\ n.hide = r.hide
  BY <1>1 DEF RevertRecord, BranchRecord
<1>4. b \in DOMAIN branches' /\ branches'[b] = n
  BY <1>2 DEF Set, IInv, TypeOK
<1>5. InheritedPath(b, q)' = InheritedPath(b, q)
  <2> HIDE DEF n
  <2> QED  BY <1>2, <1>3, InheritedFrame DEF IInv
<1>6. ResolvePath(b, q) = IF Decides(r, q) THEN r.delta[q] ELSE InheritedPath(b, q)
  BY DEF ResolveUnfold
<1>7. ResolvePath(b, q)' = IF Decides(n, q) THEN n.delta[q] ELSE InheritedPath(b, q)
  <2> HIDE DEF n
  <2> QED  BY <1>4, <1>5 DEF ResolveUnfold
<1>8. IsHidden(n, q) <=> IsHidden(r, q)
  BY <1>3 DEF IsHidden
<1>9. CASE q \in Under(p)
  <2>1. /\ ~Exists(n.delta[q])
        /\ IsDeleted(n, q) => \E a \in Above(p) : a \in n.tomb
    BY <1>1, <1>9, RevertClears
  <2>2. InheritedForTouch(b, q) = IF IsHidden(r, q) THEN Missing ELSE InheritedPath(b, q)
    BY DEF InheritedForTouch
  <2>3. ~Exists(Missing)
    BY DEF Exists, Missing
  <2> HIDE DEF n, r
  <2>4. CASE IsDeleted(n, q)
    BY <1>4, <1>9, <2>1, <2>4
  <2>5. CASE ~IsDeleted(n, q) /\ IsHidden(n, q)
    BY <1>7, <1>8, <1>9, <2>1, <2>2, <2>3, <2>5 DEF Decides
  <2>6. CASE ~IsDeleted(n, q) /\ ~IsHidden(n, q)
    BY <1>7, <1>8, <1>9, <2>1, <2>2, <2>6 DEF Decides
  <2> QED  BY <2>4, <2>5, <2>6
<1>10. CASE q \notin Under(p)
  <2> SUFFICES ASSUME q \notin Above(p) PROVE ResolvePath(b, q)' = ResolvePath(b, q)
    BY <1>10
  <2>1. n.delta[q] = r.delta[q] /\ (IsDeleted(n, q) <=> IsDeleted(r, q))
    BY <1>1, <1>10, RevertLeaves
  <2> HIDE DEF n, r
  <2> QED  BY <1>6, <1>7, <1>8, <2>1 DEF Decides
<1> QED  BY <1>9, <1>10

(***************************************************************************)
(* A revert restores what the branch inherits at the path and below it,    *)
(* and changes nothing beside it (revert_path_in_branch).  It needs that   *)
(* the delta is a tree, or entries below a path that is not in the delta   *)
(* would survive, and that no branch is in its own ancestry, or the revert *)
(* would change what is inherited.                                         *)
(***************************************************************************)
THEOREM RevertRestored == Spec => RevertRestoresInherited
<1> DEFINE A == \A b \in DOMAIN branches, p \in Path : epoch' # epoch /\ RevertPath(b, p) =>
                  \A q \in Path :
                    IF q \in Under(p)
                    THEN \/ \E a \in Above(p) : a \in branches'[b].tomb
                         \/ ResolvePath(b, q)' = InheritedForTouch(b, q)
                         \/ ~Exists(ResolvePath(b, q)') /\ ~Exists(InheritedForTouch(b, q))
                    ELSE q \notin Above(p) => ResolvePath(b, q)' = ResolvePath(b, q)
<1>1. Init => IInv /\ TreesOK
  BY InitStep, TreesStart
<1>2. IInv /\ TreesOK /\ [Next]_vars => (IInv /\ TreesOK)'
  BY NextStep, TreesStep
<1>3. IInv => ResolveUnfold
  BY ResolveUnfolds DEF IInv, ResolveUnfold
<1>4. IInv /\ TreesOK /\ ResolveUnfold /\ ResolveUnfold' => A
  BY RevertRestores
<1>5. RevertRestoresInherited <=> [][A]_vars
  BY DEF RevertRestoresInherited
<1> HIDE DEF A
<1> QED  BY <1>1, <1>2, <1>3, <1>4, <1>5, PTL DEF Spec

-----------------------------------------------------------------------------
(***************************************************************************)
(* Tombstones.                                                             *)
(***************************************************************************)
\* The tombstones that branch c gains are at paths it inherits.
GainedHide(c) ==
    \A p \in branches'[c].tomb \ branches[c].tomb : Exists(InheritedForTouch(c, p))

\* The tombstones of a record a file operation makes: those of r, and perhaps
\* one at p where src exists.
TombsOf(n, r, p, src) == n.tomb \subseteq r.tomb \cup (IF Exists(src) THEN {p} ELSE {})

\* Copy-up and what is put at the copied path add no tombstone.
LEMMA CopyTombs ==
    ASSUME NEW r \in BranchRecord, NEW p \in Path, NEW src \in Entry
    PROVE  /\ EnsureDelta(r, p, src).tomb \subseteq r.tomb
           /\ \A e : [EnsureDelta(r, p, src) EXCEPT !.delta[p] = e].tomb \subseteq r.tomb
           /\ \A i : WriteLine(r, p, src, i).tomb \subseteq r.tomb
<1> DEFINE n == EnsureDelta(r, p, src)
<1>1. n.tomb \subseteq r.tomb
  BY DEF EnsureDelta, BranchRecord
<1>2. n \in BranchRecord
  BY EnsureDeltaType DEF Follows
<1> HIDE DEF n
<1>3. \A e : [n EXCEPT !.delta[p] = e].tomb = n.tomb
  BY <1>2 DEF BranchRecord
<1>4. \A i : WriteLine(r, p, src, i).tomb = n.tomb
  BY <1>2 DEF WriteLine, BranchRecord, n
<1> QED  BY <1>1, <1>3, <1>4 DEF n

\* A delete adds a tombstone only where something is inherited.
LEMMA DropTombs ==
    ASSUME NEW r \in BranchRecord, NEW p \in Path, NEW src \in Entry
    PROVE  TombsOf(DropPath(r, p, src), r, p, src)
BY DEF DropPath, BranchRecord, TombsOf

\* So does a rename, at its source.
LEMMA RenameTombs ==
    ASSUME NEW r \in BranchRecord, NEW s \in Path, NEW d \in Path,
           NEW srcS \in Entry, NEW srcD \in Entry
    PROVE  TombsOf(RenameRecord(r, s, d, srcS, srcD), r, s, srcS)
<1> DEFINE r1 == EnsureDelta(r, s, srcS)
           r2 == RenameCopied(r, s, d, srcS, srcD)
<1>1. r1 \in BranchRecord /\ r1.tomb \subseteq r.tomb
  BY EnsureDeltaType, CopyTombs DEF Follows
<1>2. r2.tomb \subseteq r1.tomb
  <2> HIDE DEF r1
  <2> QED  BY <1>1, CopyTombs DEF RenameCopied, r1
<1>3. r2 \in BranchRecord
  BY RenameCopiedType DEF Follows
<1> HIDE DEF r1, r2
<1>4. RenameRecord(r, s, d, srcS, srcD).tomb \subseteq
        r2.tomb \cup (IF Exists(srcS) THEN {s} ELSE {})
  BY <1>3 DEF RenameRecord, BranchRecord, r2
<1> QED  BY <1>1, <1>2, <1>4 DEF TombsOf

\* One branch's record is replaced.
LEMMA SetTombs ==
    ASSUME IInv, NEW b \in DOMAIN branches, NEW n, Set(b, n), NEW p \in Path,
           TombsOf(n, branches[b], p, InheritedForTouch(b, p)),
           NEW c \in DOMAIN branches
    PROVE  GainedHide(c)
<1>1. branches'[c] = IF c = b THEN n ELSE branches[c]
  BY DEF Set, IInv, TypeOK
<1> QED  BY <1>1 DEF GainedHide, TombsOf

\* Every file operation.
LEMMA FileOperationTombs ==
    ASSUME IInv, NEW b \in DOMAIN branches, NEW p \in Path, FileOperation(b, p),
           NEW c \in DOMAIN branches
    PROVE  GainedHide(c)
<1> DEFINE src == InheritedForTouch(b, p)
           r == branches[b]
<1>1. src \in Entry /\ r \in BranchRecord
  BY InheritedType, RecordType DEF IInv
<1>2. \E n : Set(b, n) /\ TombsOf(n, r, p, src)
  <2>1. ASSUME NEW n, NEW status, FileOp(b, n, status), n.tomb \subseteq r.tomb
        PROVE  \E x : Set(b, x) /\ TombsOf(x, r, p, src)
    BY <2>1 DEF FileOp, TombsOf
  <2>2. ASSUME NEW n, NEW status, FileOp(b, n, status), TombsOf(n, r, p, src)
        PROVE  \E x : Set(b, x) /\ TombsOf(x, r, p, src)
    BY <2>2 DEF FileOp
  <2>3. ASSUME NEW i \in 1..MaxLines, WriteData(b, p, i)
        PROVE  \E n : Set(b, n) /\ TombsOf(n, r, p, src)
    <3>1. FileOp(b, WriteLine(r, p, src, i), "ok")
      BY <2>3 DEF WriteData
    <3> HIDE DEF r, src
    <3> QED  BY <1>1, <2>1, <3>1, CopyTombs
  <2>4. CASE NoSpace(b, p)
    <3> DEFINE n == [r EXCEPT !.touch = RecordFirstTouch(@, p, src, TRUE)]
    <3>1. FileOp(b, n, "eio")
      BY <2>4 DEF NoSpace
    <3>2. n.tomb = r.tomb
      BY <1>1 DEF BranchRecord
    <3> HIDE DEF n, r, src
    <3> QED  BY <2>1, <3>1, <3>2
  <2>5. CASE CreateFile(b, p) \/ MakeDir(b, p) \/ MakeSymlink(b, p) \/ Truncate(b, p)
    <3>1. PICK e, status : FileOp(b, [EnsureDelta(r, p, src) EXCEPT !.delta[p] = e], status)
      BY <2>5 DEF CreateFile, MakeDir, MakeSymlink, Truncate, PlaceNew
    <3> DEFINE n == [EnsureDelta(r, p, src) EXCEPT !.delta[p] = e]
    <3>2. n.tomb \subseteq r.tomb
      BY <1>1, CopyTombs
    <3> HIDE DEF n
    <3> QED  BY <2>1, <3>1, <3>2 DEF n
  <2>6. CASE ChangeAttr(b, p)
    <3>1. FileOp(b, EnsureDelta(r, p, src), "ok")
      BY <2>6 DEF ChangeAttr
    <3> QED  BY <1>1, <2>1, <3>1, CopyTombs
  <2>7. CASE Unlink(b, p) \/ RemoveDir(b, p)
    <3>1. FileOp(b, DropPath(r, p, src), "ok")
      BY <2>7 DEF Unlink, RemoveDir
    <3> QED  BY <1>1, <2>2, <3>1, DropTombs
  <2>8. ASSUME NEW d \in Path, Rename(b, p, d)
        PROVE  \E n : Set(b, n) /\ TombsOf(n, r, p, src)
    <3> DEFINE srcD == InheritedForTouch(b, d)
    <3>1. PICK status : FileOp(b, RenameRecord(r, p, d, src, srcD), status)
      BY <2>8 DEF Rename
    <3>2. srcD \in Entry
      BY InheritedType DEF IInv
    <3> HIDE DEF srcD, src, r
    <3> QED  BY <1>1, <2>2, <3>1, <3>2, RenameTombs
  <2> QED  BY <2>3, <2>4, <2>5, <2>6, <2>7, <2>8 DEF FileOperation, PathOperation
<1> QED  BY <1>2, SetTombs

\* The commit of a child keeps a deletion as a tombstone only where the parent
\* inherits the path.
LEMMA NestedCommitTombs ==
    ASSUME IInv, NEW b \in DOMAIN branches, NestedCommit(b),
           NEW c \in DOMAIN branches \cap DOMAIN branches'
    PROVE  GainedHide(c)
<1> DEFINE m == branches[b].parent
           D == MergedTombstones(b, m)
<1>1. PICK t : branches' = [Without(b) EXCEPT ![m].delta = t, ![m].tomb = D,
                                              ![m].commits = @ + 1]
  BY DEF NestedCommit
<1>2. /\ m \in DOMAIN branches /\ m # b
      /\ branches[m] \in BranchRecord
  <2>1. m \in DOMAIN branches /\ branches[m].sess < branches[b].sess
    BY DEF NestedCommit, IInv, LineageOK, ParentOK
  <2>2. branches[b].sess \in 0..MaxEpoch
    BY RecordType, FieldType DEF IInv
  <2> QED  BY <2>1, <2>2, RecordType, SMTT(30) DEF IInv
<1>3. D \subseteq branches[m].tomb \cup {p \in D : Exists(InheritedForTouch(m, p))}
  BY DEF MergedTombstones
<1> HIDE DEF D, m
<1>4. branches'[c].tomb = IF c = m THEN D ELSE branches[c].tomb
  BY <1>1, <1>2 DEF Without, BranchRecord
<1> QED  BY <1>3, <1>4, SMTT(30) DEF GainedHide

\* Every step of the manager.
LEMMA TombstonesStep ==
    ASSUME IInv, [Next]_vars, NEW c \in DOMAIN branches \cap DOMAIN branches'
    PROVE  GainedHide(c)
<1>1. branches'[c].tomb = branches[c].tomb => GainedHide(c)
  BY DEF GainedHide
<1>2. ASSUME NEW b \in DOMAIN branches \cap Agents, NEW p \in Path, FileOperation(b, p)
      PROVE  GainedHide(c)
  BY <1>2, FileOperationTombs
<1>3. ASSUME NEW b \in DOMAIN branches, NEW p \in Path, RevertPath(b, p)
      PROVE  GainedHide(c)
  <2>1. RevertRecord(branches[b], p).tomb \subseteq branches[b].tomb
    BY RecordType DEF RevertRecord, BranchRecord, IInv
  <2>2. branches'[c] = IF c = b THEN RevertRecord(branches[b], p) ELSE branches[c]
    BY <1>3 DEF RevertPath, Set, IInv, TypeOK
  <2> QED  BY <2>1, <2>2 DEF GainedHide
<1>4. ASSUME NEW b \in DOMAIN branches, NEW frozen \in BOOLEAN, SetState(b, frozen)
      PROVE  GainedHide(c)
  <2>1. branches[b] \in BranchRecord
    BY RecordType DEF IInv
  <2> QED  BY <1>1, <1>4, <2>1 DEF SetState, Set, IInv, TypeOK, BranchRecord
<1>5. ASSUME NEW b \in DOMAIN branches, CommitToBase(b) PROVE GainedHide(c)
  <2>1. PICK t : branches' = [Without(b) EXCEPT ![Main].delta = t, ![Main].commits = @ + 1]
    BY <1>5 DEF CommitToBase
  <2>2. Main \in DOMAIN branches /\ b # Main /\ branches[Main] \in BranchRecord
    BY <1>5 DEF CommitToBase, IInv, TypeOK
  <2> QED  BY <1>1, <2>1, <2>2 DEF Without, BranchRecord
<1>6. ASSUME NEW b \in DOMAIN branches, NestedCommit(b) PROVE GainedHide(c)
  BY <1>6, NestedCommitTombs
<1>7. ASSUME NEW b \in DOMAIN branches, FailedCommit(b) PROVE GainedHide(c)
  <2> DEFINE m == branches[b].parent
  <2>1. PICK t : UNCHANGED branches \/ branches' = [branches EXCEPT ![m].delta = t]
    BY <1>7 DEF FailedCommit
  <2>2. branches[c] \in BranchRecord
    BY RecordType DEF IInv
  <2> HIDE DEF m
  <2> QED  BY <1>1, <2>1, <2>2 DEF BranchRecord
<1>8. ASSUME NEW b \in DOMAIN branches, AbortBranch(b) PROVE GainedHide(c)
  BY <1>1, <1>8 DEF AbortBranch, Without
<1>9. ASSUME NEW b \in Branch, NEW parent \in DOMAIN branches, NEW mode \in Mode,
             NEW hide \in HideSets, CreateBranch(b, parent, mode, hide)
      PROVE  GainedHide(c)
  <2>1. PICK r : branches' = [x \in DOMAIN branches \cup {b} |->
                                IF x = b THEN r ELSE branches[x]]
    BY <1>9 DEF CreateBranch
  <2>2. b \notin DOMAIN branches
    BY <1>9 DEF CreateBranch
  <2> QED  BY <1>1, <2>1, <2>2
<1>10. CASE UNCHANGED vars
  BY <1>1, <1>10 DEF vars
<1> QED  BY <1>2, <1>3, <1>4, <1>5, <1>6, <1>7, <1>8, <1>9, <1>10 DEF Next

(***************************************************************************)
(* A tombstone is added only where it hides something: by unlink, rmdir    *)
(* and rename, and by the commit of a child into its parent, for every     *)
(* depth of nesting.                                                       *)
(***************************************************************************)
THEOREM TombstonesHide == Spec => TombstonesHideSomething
<1> DEFINE A == \A b \in DOMAIN branches \cap DOMAIN branches' : GainedHide(b)
<1>1. Init => IInv
  BY InitStep
<1>2. IInv /\ [Next]_vars => IInv'
  BY NextStep
<1>3. IInv /\ [Next]_vars => A
  BY TombstonesStep
<1>4. TombstonesHideSomething <=> [][A]_vars
  BY DEF TombstonesHideSomething, GainedHide
<1> HIDE DEF A
<1> QED  BY <1>1, <1>2, <1>3, <1>4, PTL DEF Spec

-----------------------------------------------------------------------------
(***************************************************************************)
(* Hide rules.  HiddenNeverLeaks speaks of the branches a lookup visits,   *)
(* but it is not inductive: a snapshot branch is committed into a parent   *)
(* that its own lookups never visit.  What is kept is that every branch    *)
(* holds, at a path that one of its ancestors hides, only lines written    *)
(* after that ancestor was forked: in its delta, in its touch records,     *)
(* from which a merge takes lines, and in its snapshot.                    *)
(***************************************************************************)
\* The branch, its parent, and so on up to main.
Ancestors(b) ==
    {h \in DOMAIN branches :
       \A S \in SUBSET DOMAIN branches :
          b \in S /\ (\A d \in S \ {Main} : branches[d].parent \in S) => h \in S}

\* The lines of incarnations that are not older than s.
Newer(s) == {x \in Line : x > s}

FreshEntry(e, s) == e.lines \in Seq(Newer(s))

FreshAt(r, p, s) == FreshEntry(r.delta[p], s) /\ FreshEntry(r.touch[p].id, s)

HiddenFresh ==
    /\ branches[Main].hide = {}
    /\ \A b \in DOMAIN branches : \A h \in Ancestors(b), p \in Path :
         IsHidden(branches[h], p) =>
           /\ FreshAt(branches[b], p, branches[h].sess)
           /\ h # b => FreshEntry(branches[b].inh[p], branches[h].sess)

\* What has no lines.
LEMMA EmptyIsFresh ==
    ASSUME NEW s
    PROVE  /\ FreshEntry(Missing, s) /\ FreshEntry(Dir, s) /\ FreshEntry(Symlink, s)
           /\ FreshEntry(File(<<>>), s) /\ FreshEntry(NoTouch.id, s)
<1>1. <<>> \in Seq(Newer(s))
  OBVIOUS
<1> QED  BY <1>1 DEF FreshEntry, Missing, Dir, Symlink, File, NoTouch

\* A set that is closed under parents holds the ancestors of its members.
LEMMA AncestorsWithin ==
    ASSUME NEW b, NEW S \in SUBSET DOMAIN branches, b \in S,
           \A d \in S \ {Main} : branches[d].parent \in S
    PROVE  Ancestors(b) \subseteq S
BY DEF Ancestors

\* The ancestors of a branch are closed under parents.
LEMMA AncestorsClosed ==
    ASSUME LineageOK, NEW b \in DOMAIN branches
    PROVE  /\ b \in Ancestors(b)
           /\ Ancestors(b) \subseteq DOMAIN branches
           /\ \A d \in Ancestors(b) \ {Main} : branches[d].parent \in Ancestors(b)
<1>1. b \in Ancestors(b) /\ Ancestors(b) \subseteq DOMAIN branches
  BY DEF Ancestors
<1>2. ASSUME NEW d \in Ancestors(b) \ {Main} PROVE branches[d].parent \in Ancestors(b)
  <2>1. d \in DOMAIN branches \ {Main}
    BY <1>1
  <2>2. branches[d].parent \in DOMAIN branches
    BY <2>1 DEF LineageOK, ParentOK
  <2> QED  BY <1>2, <2>2 DEF Ancestors
<1> QED  BY <1>1, <1>2

\* Ancestors are older, main has none, and those of the parent are inherited.
LEMMA AncestorFacts ==
    ASSUME IInv, NEW b \in DOMAIN branches
    PROVE  /\ \A h \in Ancestors(b) : branches[h].sess <= branches[b].sess
           /\ b = Main => Ancestors(b) = {Main}
           /\ b # Main => /\ Ancestors(branches[b].parent) \subseteq Ancestors(b)
                          /\ Ancestors(b) \subseteq {b} \cup Ancestors(branches[b].parent)
<1>1. LineageOK /\ \A c \in DOMAIN branches : branches[c].sess \in Nat
  BY RecordType, FieldType DEF IInv
<1>2. \A h \in Ancestors(b) : branches[h].sess <= branches[b].sess
  <2> DEFINE S == {c \in DOMAIN branches : branches[c].sess <= branches[b].sess}
  <2>1. \A d \in S \ {Main} : branches[d].parent \in S
    <3> TAKE d \in S \ {Main}
    <3>1. d \in DOMAIN branches \ {Main} /\ branches[d].sess <= branches[b].sess
      OBVIOUS
    <3>2. /\ branches[d].parent \in DOMAIN branches
          /\ branches[branches[d].parent].sess < branches[d].sess
      BY <1>1, <3>1 DEF LineageOK, ParentOK
    <3> QED  BY <1>1, <3>1, <3>2
  <2>2. b \in S
    BY <1>1
  <2> QED  BY <2>1, <2>2, AncestorsWithin
<1>3. CASE b = Main
  <2>1. Ancestors(b) \subseteq {Main}
    BY <1>3, AncestorsWithin
  <2> QED  BY <1>1, <1>2, <1>3, <2>1, AncestorsClosed
<1>4. CASE b # Main
  <2> DEFINE m == branches[b].parent
             S == {b} \cup Ancestors(m)
  <2>1. m \in DOMAIN branches
    BY <1>1, <1>4 DEF LineageOK, ParentOK
  <2> HIDE DEF m
  <2>2. /\ b \in Ancestors(b) /\ m \in Ancestors(b) /\ m \in Ancestors(m)
        /\ Ancestors(b) \subseteq DOMAIN branches /\ Ancestors(m) \subseteq DOMAIN branches
        /\ \A d \in Ancestors(b) \ {Main} : branches[d].parent \in Ancestors(b)
        /\ \A d \in Ancestors(m) \ {Main} : branches[d].parent \in Ancestors(m)
    BY <1>1, <1>4, <2>1, AncestorsClosed DEF m
  <2>3. Ancestors(m) \subseteq Ancestors(b)
    BY <2>2, AncestorsWithin
  <2>4. \A d \in S \ {Main} : branches[d].parent \in S
    BY <2>2 DEF m
  <2>5. S \in SUBSET DOMAIN branches /\ b \in S
    BY <2>2
  <2>6. Ancestors(b) \subseteq S
    <3> HIDE DEF S
    <3> QED  BY <2>4, <2>5, AncestorsWithin
  <2> QED  BY <1>2, <1>4, <2>3, <2>6 DEF m
<1> QED  BY <1>2, <1>3, <1>4

\* A run of parents, as a lookup follows it.
Lineage(x) ==
    /\ Live(x)
    /\ \A i \in 1..(Len(x) - 1) : x[i] # Main /\ branches[x[i]].parent = x[i + 1]

\* An ancestor of the first branch of a run is on the run or above it.
LEMMA AncestorAlong ==
    ASSUME IInv, NEW x, Lineage(x), NEW i \in 1..Len(x), NEW h \in Ancestors(x[1])
    PROVE  (\E j \in 1..(i - 1) : h = x[j]) \/ h \in Ancestors(x[i])
<1> DEFINE P == {x[j] : j \in 1..(i - 1)}
           S == P \cup Ancestors(x[i])
<1>1. Len(x) \in Nat /\ \A j \in 1..Len(x) : x[j] \in DOMAIN branches
  BY DEF Lineage, Live
<1>2. /\ x[i] \in Ancestors(x[i]) /\ Ancestors(x[i]) \subseteq DOMAIN branches
      /\ \A d \in Ancestors(x[i]) \ {Main} : branches[d].parent \in Ancestors(x[i])
  BY <1>1, AncestorsClosed DEF IInv
<1>3. ASSUME NEW j \in 1..(i - 1)
      PROVE  /\ j \in 1..Len(x) /\ branches[x[j]].parent = x[j + 1]
             /\ x[j + 1] \in S
  <2>1. j \in 1..Len(x) /\ j \in 1..(Len(x) - 1)
    BY <1>1, <1>3
  <2>2. j + 1 = i \/ j + 1 \in 1..(i - 1)
    BY <1>1, <1>3
  <2>3. x[j + 1] \in S
    BY <1>2, <2>2
  <2> QED  BY <2>1, <2>3 DEF Lineage
<1>4. S \in SUBSET DOMAIN branches
  BY <1>1, <1>2, <1>3
<1>5. \A d \in S \ {Main} : branches[d].parent \in S
  <2> TAKE d \in S \ {Main}
  <2>1. CASE d \in P
    BY <1>3, <2>1
  <2>2. CASE d \in Ancestors(x[i])
    BY <1>2, <2>2
  <2> QED  BY <2>1, <2>2
<1>6. x[1] \in S
  <2>1. i = 1 \/ 1 \in 1..(i - 1)
    BY <1>1
  <2> QED  BY <1>2, <2>1
<1> HIDE DEF S
<1>7. h \in S
  BY <1>4, <1>5, <1>6, AncestorsWithin
<1> QED  BY <1>7 DEF S

\* A lookup that finds no first branch to decide finds none that does.
LEMMA NobodyDecides ==
    ASSUME NEW x, Len(x) \in Nat, NEW p, ~ \E i \in 1..Len(x) : FirstDecider(x, p, i),
           NEW j \in 1..Len(x)
    PROVE  ~Decides(branches[x[j]], p)
<1> DEFINE T == {k \in 1..Len(x) : Decides(branches[x[k]], p)}
<1> SUFFICES ASSUME Decides(branches[x[j]], p) PROVE FALSE
  OBVIOUS
<1>1. T \in SUBSET Nat /\ j \in T
  OBVIOUS
<1>2. PICK k \in T : \A y \in T : k <= y
  <2> HIDE DEF T
  <2> QED  BY <1>1, LeastNumber
<1>3. \A y \in 1..(k - 1) : y \in 1..Len(x) /\ ~(k <= y)
  OBVIOUS
<1>4. FirstDecider(x, p, k)
  BY <1>2, <1>3 DEF FirstDecider
<1> QED  BY <1>2, <1>4

\* What a lookup finds at a path that an ancestor of its first branch hides.
LEMMA FreshAlong ==
    ASSUME IInv, HiddenFresh, NEW x, Lineage(x), NEW p \in Path,
           NEW h \in Ancestors(x[1]), IsHidden(branches[h], p)
    PROVE  FreshEntry(ResolveAlong(x, p), branches[h].sess)
<1>1. /\ Len(x) \in Nat /\ Len(x) \in 1..Len(x) /\ Len(x) > 0
      /\ \A j \in 1..Len(x) : x[j] \in DOMAIN branches
  BY DEF Lineage, Live
<1>2. \A j \in 1..Len(x) : h = x[j] => Decides(branches[x[j]], p)
  BY DEF Decides
<1>3. CASE \E i \in 1..Len(x) : FirstDecider(x, p, i)
  <2>1. PICK i \in 1..Len(x) : FirstDecider(x, p, i)
    BY <1>3
  <2>2. ResolveAlong(x, p) = branches[x[i]].delta[p]
    BY <1>1, <2>1, FirstAnswers
  <2>3. ASSUME NEW j \in 1..(i - 1) PROVE h # x[j]
    <3>1. j \in 1..Len(x)
      BY <1>1, <2>3
    <3> QED  BY <1>2, <2>1, <3>1 DEF FirstDecider
  <2>4. h \in Ancestors(x[i])
    BY <2>3, AncestorAlong
  <2> QED  BY <1>1, <2>2, <2>4 DEF HiddenFresh, FreshAt
<1>4. CASE ~ \E i \in 1..Len(x) : FirstDecider(x, p, i)
  <2> DEFINE n == Len(x)
  <2>1. \A j \in 1..n : h # x[j]
    BY <1>1, <1>2, <1>4, NobodyDecides
  <2>2. h \in Ancestors(x[n]) /\ h # x[n]
    <3>1. \A j \in 1..(n - 1) : j \in 1..n
      BY <1>1
    <3> QED  BY <1>1, <2>1, <3>1, AncestorAlong
  <2>3. x[n] # Main
    BY <1>1, <2>2, AncestorFacts
  <2>4. ResolveAlong(x, p) = branches[x[n]].inh[p]
    BY <1>4, <2>3 DEF ResolveAlong, Underlay
  <2> QED  BY <1>1, <2>2, <2>4 DEF HiddenFresh
<1> QED  BY <1>3, <1>4

\* What a branch reads, and what it copies up or records at a first touch.
LEMMA ReadsAreNewer ==
    ASSUME IInv, HiddenFresh, NEW b \in DOMAIN branches, NEW p \in Path,
           NEW h \in Ancestors(b), IsHidden(branches[h], p)
    PROVE  /\ FreshEntry(ResolvePath(b, p), branches[h].sess)
           /\ FreshEntry(InheritedForTouch(b, p), branches[h].sess)
<1> DEFINE ch == branches[b].chain
           s == branches[h].sess
<1>1. /\ ch \in Seq(Branch) /\ Len(ch) \in Nat /\ Len(ch) > 0 /\ ch[1] = b
      /\ Live(ch) /\ \A i \in 1..Len(ch) : ch[i] \in DOMAIN branches
      /\ \A i \in 1..(Len(ch) - 1) : ch[i] # Main /\ branches[ch[i]].parent = ch[i + 1]
  <2>1. Live(ch)
    BY ChainLive DEF IInv
  <2>2. ch \in Seq(Branch)
    BY RecordType, FieldType DEF IInv
  <2>3. ChainOK(b)
    BY DEF IInv, LineageOK
  <2>4. /\ Len(ch) > 0 /\ ch[1] = b
        /\ \A i \in 1..(Len(ch) - 1) : ch[i] # Main /\ branches[ch[i]].parent = ch[i + 1]
    BY <2>3 DEF ChainOK
  <2>5. Len(ch) \in Nat /\ \A i \in 1..Len(ch) : ch[i] \in DOMAIN branches
    BY <2>1, <2>2 DEF Live
  <2> QED  BY <2>1, <2>2, <2>4, <2>5
<1>2. ResolvePath(b, p) = ResolveAlong(ch, p)
  BY DEF ResolvePath
<1>3. InheritedPath(b, p) = IF Len(ch) = 1 THEN Underlay(ch)[p] ELSE ResolveAlong(Tail(ch), p)
  BY DEF InheritedPath
<1>4. InheritedForTouch(b, p) =
        IF IsHidden(branches[b], p) THEN Missing ELSE InheritedPath(b, p)
  BY DEF InheritedForTouch
<1> HIDE DEF ch, s
<1>5. Lineage(ch)
  BY <1>1 DEF Lineage
<1>6. FreshEntry(ResolvePath(b, p), s)
  BY <1>1, <1>2, <1>5, FreshAlong DEF s
<1>7. CASE IsHidden(branches[b], p)
  BY <1>4, <1>6, <1>7, EmptyIsFresh DEF s
<1>8. CASE ~IsHidden(branches[b], p)
  <2>1. h # b
    BY <1>8
  <2>2. b # Main
    BY <2>1, AncestorFacts
  <2>3. h \in Ancestors(branches[b].parent)
    BY <2>1, <2>2, AncestorFacts
  <2>4. CASE Len(ch) = 1
    <3>1. InheritedPath(b, p) = branches[b].inh[p]
      BY <1>1, <1>3, <2>2, <2>4 DEF Underlay
    <3>2. FreshEntry(branches[b].inh[p], s)
      BY <2>1 DEF HiddenFresh, s
    <3> QED  BY <1>4, <1>6, <1>8, <3>1, <3>2 DEF s
  <2>5. CASE Len(ch) # 1
    <3> DEFINE tl == Tail(ch)
    <3>1. ch # <<>>
      BY <1>1
    <3>2. /\ tl \in Seq(Branch) /\ Len(tl) = Len(ch) - 1
          /\ \A i \in 1..Len(tl) : tl[i] = ch[i + 1]
      BY <1>1, <3>1, HeadTailProperties
    <3>3. Live(tl)
      BY <1>1, <2>5, TailLive
    <3> HIDE DEF tl
    <3>4. 1 \in 1..Len(tl) /\ 1 \in 1..(Len(ch) - 1)
      BY <1>1, <2>5, <3>2
    <3>5. tl[1] = branches[b].parent
      BY <1>1, <3>2, <3>4
    <3>6. ASSUME NEW i \in 1..(Len(tl) - 1)
          PROVE  tl[i] # Main /\ branches[tl[i]].parent = tl[i + 1]
      <4>1. i \in 1..Len(tl) /\ i + 1 \in 1..Len(tl) /\ i + 1 \in 1..(Len(ch) - 1)
        BY <1>1, <3>2, <3>6
      <4> QED  BY <1>1, <3>2, <4>1
    <3>7. Lineage(tl)
      BY <3>3, <3>6 DEF Lineage
    <3>8. FreshEntry(ResolveAlong(tl, p), s)
      BY <2>3, <3>5, <3>7, FreshAlong DEF s
    <3> QED  BY <1>3, <1>4, <1>6, <1>8, <2>5, <3>8 DEF s, tl
  <2> QED  BY <2>4, <2>5
<1> QED  BY <1>7, <1>8

\* The branches a lookup visits are ancestors.
LEMMA ChainIsAncestors ==
    ASSUME IInv, NEW b \in DOMAIN branches, NEW i \in DOMAIN branches[b].chain
    PROVE  branches[b].chain[i] \in Ancestors(b)
<1> DEFINE ch == branches[b].chain
           T == {j \in 1..Len(ch) : ch[j] \notin Ancestors(b)}
<1>1. /\ ch \in Seq(Branch) /\ Len(ch) \in Nat /\ Len(ch) > 0 /\ ch[1] = b
      /\ \A j \in 1..(Len(ch) - 1) : ch[j] # Main /\ branches[ch[j]].parent = ch[j + 1]
  BY RecordType, FieldType DEF IInv, LineageOK, ChainOK
<1>2. /\ b \in Ancestors(b)
      /\ \A d \in Ancestors(b) \ {Main} : branches[d].parent \in Ancestors(b)
  BY AncestorsClosed DEF IInv
<1>3. i \in 1..Len(ch)
  BY <1>1
<1> HIDE DEF ch
<1>4. T = {}
  <2> SUFFICES ASSUME T # {} PROVE FALSE
    OBVIOUS
  <2>1. T \in SUBSET Nat
    BY <1>1
  <2>2. PICK x \in T : \A y \in T : x <= y
    <3> HIDE DEF T
    <3> QED  BY <2>1, LeastNumber
  <2> DEFINE y == x - 1
  <2>3. x \in 1..Len(ch) /\ ch[x] \notin Ancestors(b)
    OBVIOUS
  <2>4. x # 1
    BY <1>1, <1>2, <2>3
  <2>5. y \in 1..(Len(ch) - 1) /\ y + 1 = x /\ y \in 1..Len(ch) /\ ~(x <= y)
    BY <1>1, <2>3, <2>4
  <2> HIDE DEF y
  <2>6. ch[y] \in Ancestors(b)
    BY <2>2, <2>5
  <2>7. ch[x] \in Ancestors(b)
    BY <1>1, <1>2, <2>5, <2>6
  <2> QED  BY <2>3, <2>7
<1> QED  BY <1>3, <1>4 DEF ch

\* So HiddenNeverLeaks follows.
LEMMA FreshNeverLeaks ==
    ASSUME IInv, HiddenFresh
    PROVE  HiddenNeverLeaks
<1> SUFFICES ASSUME NEW b \in DOMAIN branches, NEW i \in DOMAIN branches[b].chain,
                    NEW p \in Path, IsHidden(branches[branches[b].chain[i]], p),
                    NEW n \in DOMAIN ResolvePath(b, p).lines
             PROVE  ResolvePath(b, p).lines[n] > branches[branches[b].chain[i]].sess
  BY DEF HiddenNeverLeaks
<1> DEFINE h == branches[b].chain[i]
           l == ResolvePath(b, p).lines
<1>1. h \in Ancestors(b)
  BY ChainIsAncestors
<1> HIDE DEF h
<1>2. l \in Seq(Newer(branches[h].sess))
  BY <1>1, ReadsAreNewer DEF FreshEntry, h
<1> HIDE DEF l
<1>3. l[n] \in Newer(branches[h].sess)
  BY <1>2 DEF l
<1> QED  BY <1>3 DEF Newer, h, l

\* The part of a record that hide rules and snapshots depend on.
Stays(n, r) ==
    n.parent = r.parent /\ n.hide = r.hide /\ n.inh = r.inh /\ n.sess = r.sess

\* Copy-up.
LEMMA EnsureFresh ==
    ASSUME NEW r \in BranchRecord, NEW p \in Path, NEW src \in Entry, NEW q \in Path, NEW s,
           FreshAt(r, q, s), q = p => FreshEntry(src, s)
    PROVE  /\ EnsureDelta(r, p, src) \in BranchRecord
           /\ Stays(EnsureDelta(r, p, src), r) /\ FreshAt(EnsureDelta(r, p, src), q, s)
<1> DEFINE n == EnsureDelta(r, p, src)
           copy == IF IsLeaf(src) THEN [r.delta EXCEPT ![p] = src] ELSE r.delta
           touch == RecordFirstTouch(r.touch, p, src, TRUE)
<1>1. r.delta \in Tree /\ r.touch \in [Path -> TouchRecord]
  BY FieldType
<1>2. n \in BranchRecord
  BY EnsureDeltaType DEF Follows
<1>3. Stays(n, r)
  BY DEF EnsureDelta, BranchRecord, Stays
<1>4. /\ n.delta = IF Exists(r.delta[p]) THEN r.delta ELSE MkParents(copy, {p})
      /\ n.touch = IF Exists(r.delta[p]) THEN r.touch ELSE touch
  BY DEF EnsureDelta, BranchRecord
<1>5. FreshEntry(copy[q], s)
  BY <1>1 DEF FreshAt, Tree
<1> HIDE DEF copy
<1>6. MkParents(copy, {p})[q] \in {Dir, copy[q]}
  BY DEF MkParents
<1>7. FreshEntry(touch[q].id, s)
  BY <1>1 DEF RecordFirstTouch, Touch, FreshAt
<1> HIDE DEF n, touch
<1>8. FreshAt(n, q, s)
  BY <1>4, <1>5, <1>6, <1>7, EmptyIsFresh DEF FreshAt
<1> QED  BY <1>2, <1>3, <1>8 DEF n

\* Copy-up and an entry put at the copied path.
LEMMA PlaceFresh ==
    ASSUME NEW r \in BranchRecord, NEW p \in Path, NEW src \in Entry, NEW q \in Path, NEW s,
           NEW e, FreshAt(r, q, s), q = p => FreshEntry(src, s) /\ FreshEntry(e, s)
    PROVE  LET n == [EnsureDelta(r, p, src) EXCEPT !.delta[p] = e]
           IN  Stays(n, r) /\ FreshAt(n, q, s)
<1> DEFINE k == EnsureDelta(r, p, src)
           n == [k EXCEPT !.delta[p] = e]
<1>1. k \in BranchRecord /\ Stays(k, r) /\ FreshAt(k, q, s)
  BY EnsureFresh
<1> HIDE DEF k
<1>2. k.delta \in Tree
  BY <1>1, FieldType
<1>3. /\ n.delta = [k.delta EXCEPT ![p] = e] /\ n.touch = k.touch
      /\ n.parent = k.parent /\ n.hide = k.hide /\ n.inh = k.inh /\ n.sess = k.sess
  BY <1>1 DEF BranchRecord
<1> HIDE DEF n
<1>4. n.delta[q] = IF q = p THEN e ELSE k.delta[q]
  BY <1>2, <1>3 DEF Tree
<1>5. Stays(n, r) /\ FreshAt(n, q, s)
  BY <1>1, <1>3, <1>4 DEF Stays, FreshAt
<1> QED  BY <1>5 DEF n, k

\* A line written by an incarnation that is not older.
LEMMA WriteFresh ==
    ASSUME NEW r \in BranchRecord, NEW p \in Path, NEW src \in Entry, NEW q \in Path,
           NEW s \in Nat, NEW i \in Nat \ {0}, s <= r.sess,
           FreshAt(r, q, s), q = p => FreshEntry(src, s)
    PROVE  Stays(WriteLine(r, p, src, i), r) /\ FreshAt(WriteLine(r, p, src, i), q, s)
<1> DEFINE k == EnsureDelta(r, p, src)
           l == PutLine(k.delta[p].lines, i, r.sess + 1)
           e == [k.delta[p] EXCEPT !.lines = l]
           n == [k EXCEPT !.delta[p] = e]
<1>1. k \in BranchRecord /\ Stays(k, r) /\ FreshAt(k, q, s)
  BY EnsureFresh
<1>2. r.sess + 1 \in Newer(s)
  BY FieldType, LineAssumption, BoundAssumption DEF Newer
<1>3. WriteLine(r, p, src, i) = n
  BY DEF WriteLine
<1> HIDE DEF k
<1>4. k.delta \in Tree /\ k.delta[p] \in Entry
  BY <1>1, FieldType DEF Tree
<1>5. e.lines = l
  BY <1>4 DEF Entry
<1>6. q = p => FreshEntry(e, s)
  <2> SUFFICES ASSUME q = p PROVE FreshEntry(e, s)
    OBVIOUS
  <2>1. k.delta[p].lines \in Seq(Newer(s))
    BY <1>1 DEF FreshAt, FreshEntry
  <2>2. \A x \in Seq(Newer(s)) : PutLine(x, i, r.sess + 1) \in Seq(Newer(s))
    <3> TAKE x \in Seq(Newer(s))
    <3> DEFINE v == r.sess + 1
    <3> HIDE DEF v
    <3>1. CASE i <= Len(x)
      <4>1. [x EXCEPT ![i] = v] \in Seq(Newer(s))
        BY <1>2, <3>1 DEF v
      <4> QED  BY <3>1, <4>1 DEF PutLine, v
    <3>2. CASE ~(i <= Len(x))
      BY <1>2, <3>2, AppendProperties DEF PutLine
    <3> QED  BY <3>1, <3>2
  <2>3. l \in Seq(Newer(s))
    BY <2>1, <2>2
  <2> HIDE DEF l, e
  <2> QED  BY <1>5, <2>3 DEF FreshEntry
<1> HIDE DEF e
<1>7. /\ n.delta = [k.delta EXCEPT ![p] = e] /\ n.touch = k.touch
      /\ n.parent = k.parent /\ n.hide = k.hide /\ n.inh = k.inh /\ n.sess = k.sess
  BY <1>1 DEF BranchRecord
<1> HIDE DEF n
<1>8. n.delta[q] = IF q = p THEN e ELSE k.delta[q]
  BY <1>4, <1>7 DEF Tree
<1> QED  BY <1>1, <1>3, <1>6, <1>7, <1>8 DEF Stays, FreshAt

\* Delete and revert only take away, but for the touch record of a delete.
LEMMA DropFresh ==
    ASSUME NEW r \in BranchRecord, NEW p \in Path, NEW src \in Entry, NEW q \in Path, NEW s,
           FreshAt(r, q, s), q = p => FreshEntry(src, s)
    PROVE  /\ Stays(DropPath(r, p, src), r) /\ FreshAt(DropPath(r, p, src), q, s)
           /\ Stays(RevertRecord(r, p), r) /\ FreshAt(RevertRecord(r, p), q, s)
<1> DEFINE touch == RecordFirstTouch(r.touch, p, src, FALSE)
           cut == RemoveTree(r.delta, {p})
           n == DropPath(r, p, src)
           v == RevertRecord(r, p)
<1>1. r.delta \in Tree /\ r.touch \in [Path -> TouchRecord]
  BY FieldType
<1>2. cut[q] \in {Missing, r.delta[q]}
  BY DEF RemoveTree
<1>3. \A T, D : Prune(cut, T, D)[q] \in {Missing, cut[q]}
  <2> HIDE DEF cut
  <2> QED  BY DEF Prune
<1>4. FreshEntry(touch[q].id, s)
  BY <1>1 DEF RecordFirstTouch, Touch, FreshAt
<1>5. /\ \E T, D : n.delta = IF Exists(r.delta[p]) THEN Prune(cut, T, D) ELSE r.delta
      /\ n.touch = touch /\ Stays(n, r)
  BY DEF DropPath, BranchRecord, Stays
<1>6. /\ \E T, D : v.delta = IF Exists(r.delta[p]) THEN Prune(cut, T, D) ELSE r.delta
      /\ v.touch = [x \in Path |-> IF x \in Under(p) THEN NoTouch ELSE r.touch[x]]
      /\ Stays(v, r)
  BY DEF RevertRecord, BranchRecord, Stays
<1> HIDE DEF cut, touch, n, v
<1>7. n.delta[q] \in {Missing, r.delta[q]} /\ v.delta[q] \in {Missing, r.delta[q]}
  BY <1>2, <1>3, <1>5, <1>6
<1>8. v.touch[q] \in {NoTouch, r.touch[q]}
  BY <1>6
<1> QED  BY <1>4, <1>5, <1>6, <1>7, <1>8, EmptyIsFresh DEF FreshAt, n, v

\* A step that keeps the parents gives no branch new ancestors.
LEMMA AncestorsFrame ==
    ASSUME IInv, IInv',
           \A c \in DOMAIN branches \cap DOMAIN branches' :
              branches'[c].parent = branches[c].parent,
           NEW b \in DOMAIN branches \cap DOMAIN branches', NEW h \in Ancestors(b)'
    PROVE  h \in Ancestors(b) /\ h \in DOMAIN branches'
<1>1. /\ h \in DOMAIN branches'
      /\ \A S \in SUBSET DOMAIN branches' :
           b \in S /\ (\A d \in S \ {Main} : branches'[d].parent \in S) => h \in S
  BY DEF Ancestors
<1>2. \A d \in DOMAIN branches \ {Main} : branches[d].parent \in DOMAIN branches
  BY DEF IInv, LineageOK, ParentOK
<1>3. \A d \in DOMAIN branches' \ {Main} : branches'[d].parent \in DOMAIN branches'
  BY DEF IInv, LineageOK, ParentOK
<1>4. ASSUME NEW S \in SUBSET DOMAIN branches, b \in S,
             \A d \in S \ {Main} : branches[d].parent \in S
      PROVE  h \in S
  <2> DEFINE T == S \cap DOMAIN branches'
  <2>1. T \in SUBSET DOMAIN branches' /\ b \in T
    BY <1>4
  <2>2. \A d \in T \ {Main} : branches'[d].parent \in T
    BY <1>3, <1>4
  <2> HIDE DEF T
  <2>3. h \in T
    BY <1>1, <2>1, <2>2
  <2> QED  BY <2>3 DEF T
<1>5. h \in DOMAIN branches
  BY <1>2, <1>4
<1> QED  BY <1>1, <1>4, <1>5 DEF Ancestors

\* The record n may take the place of that of branch m.
FreshRecord(n, m) ==
    \A h \in Ancestors(m), p \in Path :
      IsHidden(branches[h], p) => FreshAt(n, p, branches[h].sess)

\* A step that creates no branch and changes the files of m only.
LEMMA FreshFrame ==
    ASSUME IInv, IInv', HiddenFresh, DOMAIN branches' \subseteq DOMAIN branches,
           \A c \in DOMAIN branches' : Stays(branches'[c], branches[c]),
           NEW m,
           \A c \in DOMAIN branches' \ {m} : /\ branches'[c].delta = branches[c].delta
                                             /\ branches'[c].touch = branches[c].touch,
           m \in DOMAIN branches' => FreshRecord(branches'[m], m)
    PROVE  HiddenFresh'
<1>1. branches'[Main].hide = {}
  BY DEF IInv, TypeOK, HiddenFresh, Stays
<1>2. ASSUME NEW b \in DOMAIN branches', NEW h \in Ancestors(b)', NEW p \in Path,
             IsHidden(branches'[h], p)
      PROVE  /\ FreshAt(branches'[b], p, branches'[h].sess)
             /\ h # b => FreshEntry(branches'[b].inh[p], branches'[h].sess)
  <2>1. \A c \in DOMAIN branches \cap DOMAIN branches' :
           branches'[c].parent = branches[c].parent
    BY DEF Stays
  <2>2. h \in Ancestors(b) /\ h \in DOMAIN branches'
    BY <1>2, <2>1, AncestorsFrame
  <2>3. IsHidden(branches[h], p) /\ branches'[h].sess = branches[h].sess
    BY <1>2, <2>2 DEF Stays, IsHidden
  <2>4. /\ FreshAt(branches[b], p, branches[h].sess)
        /\ h # b => FreshEntry(branches[b].inh[p], branches[h].sess)
    BY <1>2, <2>2, <2>3 DEF HiddenFresh
  <2>5. branches'[b].inh = branches[b].inh
    BY <1>2 DEF Stays
  <2>6. FreshAt(branches'[b], p, branches[h].sess)
    BY <1>2, <2>2, <2>3, <2>4 DEF FreshRecord, FreshAt
  <2> QED  BY <2>3, <2>4, <2>5, <2>6
<1>3. \A b \in DOMAIN branches' : \A h \in Ancestors(b)', p \in Path :
        IsHidden(branches'[h], p) =>
          /\ FreshAt(branches'[b], p, branches'[h].sess)
          /\ h # b => FreshEntry(branches'[b].inh[p], branches'[h].sess)
  BY <1>2
<1> QED  BY <1>1, <1>3 DEF HiddenFresh

\* One branch's record is replaced.
LEMMA FreshSet ==
    ASSUME IInv, IInv', HiddenFresh, NEW b \in DOMAIN branches, NEW n, Set(b, n),
           Stays(n, branches[b]), FreshRecord(n, b)
    PROVE  HiddenFresh'
<1>1. DOMAIN branches' = DOMAIN branches
      /\ \A c \in DOMAIN branches' : branches'[c] = IF c = b THEN n ELSE branches[c]
  BY DEF Set, IInv, TypeOK
<1>2. \A c \in DOMAIN branches' : Stays(branches'[c], branches[c])
  BY <1>1 DEF Stays
<1>3. \A c \in DOMAIN branches' \ {b} : branches'[c] = branches[c]
  BY <1>1
<1>4. FreshRecord(branches'[b], b)
  BY <1>1
<1> QED  BY <1>1, <1>2, <1>3, <1>4, FreshFrame

\* What operations keep of a record.
LEMMA RecordsStay ==
    ASSUME NEW r \in BranchRecord, NEW p \in Path, NEW src \in Entry
    PROVE  /\ Stays(EnsureDelta(r, p, src), r)
           /\ \A e : Stays([EnsureDelta(r, p, src) EXCEPT !.delta[p] = e], r)
           /\ \A i : Stays(WriteLine(r, p, src, i), r)
           /\ Stays(DropPath(r, p, src), r)
           /\ Stays(RevertRecord(r, p), r)
           /\ \A t : Stays([r EXCEPT !.touch = t], r)
<1> DEFINE k == EnsureDelta(r, p, src)
<1>1. Stays(k, r)
  BY DEF EnsureDelta, BranchRecord, Stays
<1>2. k \in BranchRecord
  BY EnsureDeltaType DEF Follows
<1> HIDE DEF k
<1>3. \A e : Stays([k EXCEPT !.delta[p] = e], r)
  BY <1>1, <1>2 DEF Stays, BranchRecord
<1>4. \A i : Stays(WriteLine(r, p, src, i), r)
  BY <1>1, <1>2 DEF Stays, BranchRecord, WriteLine, k
<1>5. /\ Stays(DropPath(r, p, src), r) /\ Stays(RevertRecord(r, p), r)
      /\ \A t : Stays([r EXCEPT !.touch = t], r)
  BY DEF DropPath, RevertRecord, BranchRecord, Stays
<1> QED  BY <1>1, <1>3, <1>4, <1>5 DEF k

\* A file operation other than a rename, or a revert.
LEMMA FileOperationFresh ==
    ASSUME IInv, IInv', HiddenFresh, NEW b \in DOMAIN branches, NEW p \in Path,
           \/ FileOperation(b, p) /\ "rename" \notin Ops
           \/ RevertPath(b, p)
    PROVE  HiddenFresh'
<1> DEFINE src == InheritedForTouch(b, p)
           r == branches[b]
           Given(q, s) == FreshAt(r, q, s) /\ (q = p => FreshEntry(src, s)) /\ s <= r.sess
<1>1. src \in Entry /\ r \in BranchRecord
  BY InheritedType, RecordType DEF IInv
<1>2. ASSUME NEW h \in Ancestors(b), NEW q \in Path, IsHidden(branches[h], q)
      PROVE  Given(q, branches[h].sess) /\ branches[h].sess \in Nat
  <2>1. h \in DOMAIN branches
    BY DEF Ancestors
  <2>2. branches[h].sess \in Nat
    BY <2>1, RecordType, FieldType DEF IInv
  <2>3. FreshAt(r, q, branches[h].sess)
    BY <1>2 DEF HiddenFresh
  <2>4. q = p => FreshEntry(src, branches[h].sess)
    BY <1>2, ReadsAreNewer
  <2>5. branches[h].sess <= r.sess
    BY AncestorFacts
  <2> QED  BY <2>2, <2>3, <2>4, <2>5
<1>3. ASSUME NEW n, Set(b, n), Stays(n, r),
             \A q \in Path : \A s \in Nat : Given(q, s) => FreshAt(n, q, s)
      PROVE  HiddenFresh'
  <2>1. FreshRecord(n, b)
    <3> HIDE DEF Given
    <3> QED  BY <1>2, <1>3 DEF FreshRecord
  <2> QED  BY <1>3, <2>1, FreshSet
<1> HIDE DEF src, r
<1>4. ASSUME NEW e, NEW status,
             FileOp(b, [EnsureDelta(r, p, src) EXCEPT !.delta[p] = e], status),
             \A s \in Nat : FreshEntry(src, s) => FreshEntry(e, s)
      PROVE  HiddenFresh'
  <2> DEFINE n == [EnsureDelta(r, p, src) EXCEPT !.delta[p] = e]
  <2>1. Stays(n, r) /\ Set(b, n)
    BY <1>1, <1>4, RecordsStay DEF FileOp
  <2>2. \A q \in Path : \A s \in Nat : Given(q, s) => FreshAt(n, q, s)
    BY <1>1, <1>4, PlaceFresh
  <2> HIDE DEF n, Given
  <2> QED  BY <1>3, <2>1, <2>2
<1>5. ASSUME NEW i \in 1..MaxLines, WriteData(b, p, i) PROVE HiddenFresh'
  <2> DEFINE n == WriteLine(r, p, src, i)
  <2>1. Set(b, n)
    BY <1>5 DEF WriteData, FileOp, r, src
  <2>2. i \in Nat \ {0}
    BY BoundAssumption
  <2>3. \A q \in Path : \A s \in Nat : Given(q, s) => FreshAt(n, q, s)
    BY <1>1, <2>2, WriteFresh
  <2>4. Stays(n, r)
    BY <1>1, RecordsStay
  <2> HIDE DEF n, Given
  <2> QED  BY <1>3, <2>1, <2>3, <2>4
<1>6. CASE NoSpace(b, p)
  <2> DEFINE t == RecordFirstTouch(r.touch, p, src, TRUE)
             n == [r EXCEPT !.touch = t]
  <2>1. Set(b, n)
    BY <1>6 DEF NoSpace, FileOp, r, src
  <2>2. r.touch \in [Path -> TouchRecord]
    BY <1>1, FieldType
  <2>3. \A q \in Path : \A s \in Nat : Given(q, s) => FreshEntry(t[q].id, s)
    BY <2>2 DEF RecordFirstTouch, Touch, FreshAt
  <2> HIDE DEF t
  <2>4. n.touch = t /\ n.delta = r.delta
    BY <1>1 DEF BranchRecord
  <2>5. Stays(n, r)
    BY <1>1, RecordsStay
  <2> HIDE DEF n
  <2>6. \A q \in Path : \A s \in Nat : Given(q, s) => FreshAt(n, q, s)
    BY <2>3, <2>4 DEF FreshAt
  <2> HIDE DEF Given
  <2> QED  BY <1>3, <2>1, <2>5, <2>6
<1>7. CASE CreateFile(b, p) \/ MakeDir(b, p) \/ MakeSymlink(b, p) \/ Truncate(b, p)
  <2>0. PICK status : \E e \in {src, Dir, Symlink, File(<<>>)} :
           FileOp(b, [EnsureDelta(r, p, src) EXCEPT !.delta[p] = e], status)
    BY <1>7 DEF CreateFile, MakeDir, MakeSymlink, Truncate, PlaceNew, src, r
  <2>1. PICK e \in {src, Dir, Symlink, File(<<>>)} :
           FileOp(b, [EnsureDelta(r, p, src) EXCEPT !.delta[p] = e], status)
    BY <2>0
  <2>2. \A s \in Nat : FreshEntry(src, s) => FreshEntry(e, s)
    BY <2>1, EmptyIsFresh
  <2> QED  BY <1>4, <2>1, <2>2
<1>8. CASE ChangeAttr(b, p)
  <2> DEFINE n == EnsureDelta(r, p, src)
  <2>1. Set(b, n)
    BY <1>8 DEF ChangeAttr, FileOp, r, src
  <2>2. \A q \in Path : \A s \in Nat : Given(q, s) => FreshAt(n, q, s)
    BY <1>1, EnsureFresh
  <2>3. Stays(n, r)
    BY <1>1, RecordsStay
  <2> HIDE DEF n, Given
  <2> QED  BY <1>3, <2>1, <2>2, <2>3
<1>9. CASE Unlink(b, p) \/ RemoveDir(b, p)
  <2> DEFINE n == DropPath(r, p, src)
  <2>1. Set(b, n)
    BY <1>9 DEF Unlink, RemoveDir, FileOp, r, src
  <2>2. \A q \in Path : \A s \in Nat : Given(q, s) => FreshAt(n, q, s)
    BY <1>1, DropFresh
  <2>3. Stays(n, r)
    BY <1>1, RecordsStay
  <2> HIDE DEF n, Given
  <2> QED  BY <1>3, <2>1, <2>2, <2>3
<1>10. CASE RevertPath(b, p)
  <2> DEFINE n == RevertRecord(r, p)
  <2>1. Set(b, n)
    BY <1>10 DEF RevertPath, r
  <2>2. \A q \in Path : \A s \in Nat : Given(q, s) => FreshAt(n, q, s)
    BY <1>1, DropFresh
  <2>3. Stays(n, r)
    BY <1>1, RecordsStay
  <2> HIDE DEF n, Given
  <2> QED  BY <1>3, <2>1, <2>2, <2>3
<1>11. ASSUME NEW d \in Path, Rename(b, p, d) PROVE "rename" \in Ops
  BY <1>11 DEF Rename, MayWrite, Issued
<1> QED  BY <1>5, <1>6, <1>7, <1>8, <1>9, <1>10, <1>11 DEF FileOperation, PathOperation

\* What a commit copies: the branch's file, or a merge of three fresh texts.
LEMMA MergeSourceFresh ==
    ASSUME IInv, HiddenFresh, NEW b \in DOMAIN branches, NEW h \in Ancestors(b),
           NEW q \in Path, IsHidden(branches[h], q)
    PROVE  FreshEntry(MergeSource(b, q), branches[h].sess)
<1> DEFINE L == Newer(branches[h].sess)
           m == MergeOf(b, q)
<1>1. /\ branches[b].touch[q].id.lines \in Seq(L)
      /\ branches[b].delta[q].lines \in Seq(L)
  BY DEF HiddenFresh, FreshAt, FreshEntry
<1>2. InheritedForTouch(b, q).lines \in Seq(L)
  BY ReadsAreNewer DEF FreshEntry
<1> HIDE DEF L
<1>3. m.text \in Seq(L)
  BY <1>1, <1>2, MergeTextType DEF MergeOf
<1>4. MergeSource(b, q) = IF q \in AutoMerges(b) THEN File(m.text) ELSE branches[b].delta[q]
  BY DEF MergeSource
<1> HIDE DEF m
<1>5. MergeSource(b, q).lines \in Seq(L)
  BY <1>1, <1>3, <1>4 DEF File
<1> QED  BY <1>5 DEF FreshEntry, L

\* The trees that a commit, finished or not, leaves in its destination.
LEMMA CommitFresh ==
    ASSUME NEW b, NEW t, NEW q \in Path, NEW s, FreshEntry(t[q], s),
           FreshEntry(MergeSource(b, q), s)
    PROVE  /\ FreshEntry(Published(b, t)[q], s)
           /\ \A T, D : FreshEntry(Prune(Published(b, t), T, D)[q], s)
           /\ \A x \in FailedTrees(b, t) : FreshEntry(x[q], s)
<1>1. \A D : RemoveTree(t, D)[q] \in {Missing, t[q]}
  BY DEF RemoveTree
<1>2. \A x, D : MkParents(x, D)[q] \in {Dir, x[q]}
  BY DEF MkParents
<1>3. \A x, D : RemoveTree(x, D)[q] \in {Missing, x[q]}
  BY DEF RemoveTree
<1>4. \A x, T, D : Prune(x, T, D)[q] \in {Missing, x[q]}
  BY DEF Prune
<1>5. Published(b, t)[q] \in {MergeSource(b, q), Dir, Missing, t[q]}
  <2> DEFINE files == DeltaFiles(branches[b])
             cleared == MkParents(RemoveTree(t, branches[b].tomb \cup files), files)
  <2>1. cleared[q] \in {Dir, Missing, t[q]}
    BY <1>1, <1>2
  <2> HIDE DEF files, cleared
  <2>2. Published(b, t)[q] = IF q \in files THEN MergeSource(b, q) ELSE cleared[q]
    BY DEF Published, files, cleared
  <2> QED  BY <2>1, <2>2
<1>6. FreshEntry(Published(b, t)[q], s)
  BY <1>5, EmptyIsFresh
<1>7. ASSUME NEW x \in HalfPublished(b, t) PROVE x[q] \in {t[q], Published(b, t)[q]}
  BY <1>7 DEF HalfPublished
<1>8. ASSUME NEW x \in RolledBack(b, t) PROVE x[q] \in {t[q], Dir, Missing}
  <2> DEFINE dels == {u \in branches[b].tomb : Exists(t[u])}
             cut == RemoveTree(t, dels)
             replaced(done) == {p \in done : IsDir(cut[p])}
             rest(done) == MkParents(RemoveTree(cut, replaced(done)), done)
             taken(done) == {u \in dels : \E p \in done : p \in Below(u) /\
                                             (ParentDir(p) # u \/ ~IsDir(t[u]))}
             inside(done) == {u \in dels : \E v \in replaced(done) : u \in Below(v)}
             after(done, lost) ==
               [y \in Path |->
                  IF /\ \E u \in dels \cup replaced(done) : y \in Under(u)
                     /\ \A u \in lost \cup inside(done) \cup taken(done) : y \notin Under(u)
                  THEN t[y] ELSE rest(done)[y]]
             nested == {u \in dels : \E v \in dels : u \in Below(v)}
             runs == SUBSET (DeltaFiles(branches[b]) \ BlockedFiles(b, t))
  <2>1. RolledBack(b, t) = UNION {{after(done, lost) : lost \in SUBSET nested} :
                                    done \in runs}
    BY DEF RolledBack
  <2>2. \A done, lost : after(done, lost)[q] \in {t[q], Dir, Missing}
    <3> TAKE done, lost
    <3>1. cut[q] \in {Missing, t[q]}
      BY <1>3
    <3> HIDE DEF cut, replaced
    <3>2. rest(done)[q] \in {Dir, Missing, t[q]}
      BY <1>2, <1>3, <3>1
    <3> HIDE DEF rest, taken, inside, dels
    <3> QED  BY <3>2
  <2> HIDE DEF after, nested, runs
  <2> QED  BY <1>8, <2>1, <2>2
<1>9. ASSUME NEW x \in FailedTrees(b, t) PROVE FreshEntry(x[q], s)
  <2>1. x = t \/ x \in RolledBack(b, t) \/ x \in HalfPublished(b, t)
    BY <1>9 DEF FailedTrees
  <2> QED  BY <1>6, <1>7, <1>8, <2>1, EmptyIsFresh
<1> QED  BY <1>4, <1>6, <1>9, EmptyIsFresh

\* The delta of the parent after a commit into it, or a failed one.
LEMMA ParentFresh ==
    ASSUME IInv, HiddenFresh, NEW b \in DOMAIN branches, b # Main,
           NEW n, n.touch = branches[branches[b].parent].touch,
           \/ n.delta \in FailedTrees(b, branches[branches[b].parent].delta)
           \/ \E T, D : n.delta = Prune(Published(b, branches[branches[b].parent].delta), T, D)
    PROVE  FreshRecord(n, branches[b].parent)
<1> DEFINE m == branches[b].parent
<1>1. m \in DOMAIN branches /\ Ancestors(m) \subseteq Ancestors(b)
  BY AncestorFacts DEF IInv, LineageOK, ParentOK
<1> HIDE DEF m
<1> SUFFICES ASSUME NEW h \in Ancestors(m), NEW q \in Path, IsHidden(branches[h], q)
             PROVE  FreshAt(n, q, branches[h].sess)
  BY DEF FreshRecord, m
<1>2. FreshEntry(MergeSource(b, q), branches[h].sess)
  BY <1>1, MergeSourceFresh
<1>3. FreshAt(branches[m], q, branches[h].sess)
  BY <1>1 DEF HiddenFresh
<1>4. FreshEntry(n.delta[q], branches[h].sess)
  BY <1>2, <1>3, CommitFresh DEF FreshAt, m
<1> QED  BY <1>3, <1>4 DEF FreshAt, m

\* Main has no ancestor that hides.
LEMMA MainFresh ==
    ASSUME IInv, HiddenFresh, NEW n
    PROVE  FreshRecord(n, Main)
<1>1. Main \in DOMAIN branches
  BY DEF IInv, TypeOK
<1>2. Ancestors(Main) = {Main}
  BY <1>1, AncestorFacts
<1> QED  BY <1>2 DEF FreshRecord, HiddenFresh, IsHidden

\* A commit, finished or not, and an abort.
LEMMA EndFresh ==
    ASSUME IInv, IInv', HiddenFresh, NEW b \in DOMAIN branches,
           CommitToBase(b) \/ NestedCommit(b) \/ FailedCommit(b) \/ AbortBranch(b)
    PROVE  HiddenFresh'
<1> DEFINE m == branches[b].parent
<1>1. /\ b # Main /\ Main \in DOMAIN branches
      /\ branches \in [DOMAIN branches -> BranchRecord]
  BY DEF CommitToBase, NestedCommit, FailedCommit, AbortBranch, IInv, TypeOK
<1>2. m \in DOMAIN branches /\ m # b
  <2>1. m \in DOMAIN branches /\ branches[m].sess < branches[b].sess
    BY <1>1 DEF IInv, LineageOK, ParentOK
  <2>2. branches[b].sess \in 0..MaxEpoch
    BY RecordType, FieldType DEF IInv
  <2> QED  BY <2>1, <2>2
<1>3. \A c \in DOMAIN branches : branches[c] \in BranchRecord /\ Stays(branches[c], branches[c])
  BY <1>1 DEF Stays
<1>4. CASE CommitToBase(b)
  <2>1. PICK t : branches' = [Without(b) EXCEPT ![Main].delta = t, ![Main].commits = @ + 1]
    BY <1>4 DEF CommitToBase
  <2>2. /\ DOMAIN branches' \subseteq DOMAIN branches
        /\ \A c \in DOMAIN branches' \ {Main} : branches'[c] = branches[c]
    BY <1>1, <2>1 DEF Without
  <2>3. Stays(branches'[Main], branches[Main])
    BY <1>1, <1>3, <2>1 DEF Without, Stays, BranchRecord
  <2>4. \A c \in DOMAIN branches' : Stays(branches'[c], branches[c])
    BY <1>3, <2>2, <2>3
  <2> QED  BY <2>2, <2>4, MainFresh, FreshFrame
<1>5. CASE NestedCommit(b)
  <2>1. PICK T, D, K : branches' = [Without(b) EXCEPT ![m].delta = Prune(Published(b, @), T, D),
                                         ![m].tomb = K, ![m].commits = @ + 1]
    BY <1>5 DEF NestedCommit
  <2> HIDE DEF m
  <2>2. /\ DOMAIN branches' \subseteq DOMAIN branches
        /\ \A c \in DOMAIN branches' \ {m} : branches'[c] = branches[c]
    BY <1>2, <2>1 DEF Without
  <2>3. /\ Stays(branches'[m], branches[m]) /\ branches'[m].touch = branches[m].touch
        /\ branches'[m].delta = Prune(Published(b, branches[m].delta), T, D)
    BY <1>2, <1>3, <2>1 DEF Without, Stays, BranchRecord
  <2>4. \A c \in DOMAIN branches' : Stays(branches'[c], branches[c])
    BY <1>3, <2>2, <2>3
  <2>5. FreshRecord(branches'[m], m)
    BY <1>1, <2>3, ParentFresh DEF m
  <2> QED  BY <2>2, <2>4, <2>5, FreshFrame, SMTT(30)
<1>6. CASE FailedCommit(b)
  <2>1. PICK t \in FailedTrees(b, Destination(b)) :
           IF m = Main THEN UNCHANGED branches
           ELSE branches' = [branches EXCEPT ![m].delta = t]
    BY <1>6 DEF FailedCommit
  <2>2. CASE m = Main
    <3>1. UNCHANGED branches
      BY <2>1, <2>2
    <3>2. \A c \in DOMAIN branches' : Stays(branches'[c], branches[c])
      BY <1>3, <3>1
    <3> QED  BY <3>1, <3>2, MainFresh, FreshFrame
  <2>3. CASE m # Main
    <3>1. /\ branches' = [branches EXCEPT ![m].delta = t]
          /\ t \in FailedTrees(b, branches[m].delta)
      BY <2>1, <2>3 DEF Destination
    <3> HIDE DEF m
    <3>2. /\ DOMAIN branches' \subseteq DOMAIN branches
          /\ \A c \in DOMAIN branches' \ {m} : branches'[c] = branches[c]
      BY <1>1, <3>1
    <3>3. /\ Stays(branches'[m], branches[m]) /\ branches'[m].touch = branches[m].touch
          /\ branches'[m].delta = t
      BY <1>1, <1>2, <1>3, <3>1 DEF Stays, BranchRecord
    <3>4. \A c \in DOMAIN branches' : Stays(branches'[c], branches[c])
      BY <1>3, <3>2, <3>3
    <3>5. FreshRecord(branches'[m], m)
      BY <1>1, <3>1, <3>3, ParentFresh DEF m
    <3> QED  BY <3>2, <3>4, <3>5, FreshFrame
  <2> QED  BY <2>2, <2>3
<1>7. CASE AbortBranch(b)
  <2>1. /\ DOMAIN branches' \subseteq DOMAIN branches
        /\ \A c \in DOMAIN branches' : branches'[c] = branches[c]
    BY <1>7 DEF AbortBranch, Without
  <2>2. \A c \in DOMAIN branches' : Stays(branches'[c], branches[c])
    BY <1>3, <2>1
  <2> QED  BY <2>1, <2>2, MainFresh, FreshFrame
<1> QED  BY <1>4, <1>5, <1>6, <1>7, SMTT(30)

\* A new branch: its snapshot is what its parent shows.
LEMMA CreateFresh ==
    ASSUME IInv, IInv', HiddenFresh, NEW b \in Branch, NEW parent \in DOMAIN branches,
           NEW mode \in Mode, NEW hide \in HideSets, CreateBranch(b, parent, mode, hide)
    PROVE  HiddenFresh'
<1> DEFINE inh == IF mode = "snapshot" THEN SnapshotVisibleTree(parent) ELSE EmptyTree
           r == NewBranch(parent, ForkChain(b, parent, mode), mode,
                          branches[parent].commits, hide, inh, epoch + 1)
<1>1. /\ b \notin DOMAIN branches
      /\ branches' = [c \in DOMAIN branches \cup {b} |-> IF c = b THEN r ELSE branches[c]]
  BY DEF CreateBranch
<1>2. /\ r.parent = parent /\ r.inh = inh /\ r.delta = EmptyTree
      /\ r.touch = [p \in Path |-> NoTouch]
  BY DEF NewBranch
<1>3. ASSUME NEW h \in Ancestors(parent), NEW p \in Path, IsHidden(branches[h], p)
      PROVE  FreshEntry(inh[p], branches[h].sess)
  <2>1. FreshEntry(ResolvePath(parent, p), branches[h].sess)
    BY <1>3, ReadsAreNewer
  <2>2. inh[p] \in {ResolvePath(parent, p), Missing}
    BY DEF SnapshotVisibleTree, EmptyTree
  <2> QED  BY <2>1, <2>2, EmptyIsFresh
<1> HIDE DEF r, inh
<1>4. /\ DOMAIN branches' = DOMAIN branches \cup {b}
      /\ \A c \in DOMAIN branches : branches'[c] = branches[c]
      /\ branches'[b] = r
  BY <1>1
<1>5. Main \in DOMAIN branches /\ b # Main /\ branches'[Main].hide = {}
  BY <1>1, <1>4 DEF IInv, TypeOK, HiddenFresh
<1>6. ASSUME NEW c \in DOMAIN branches, NEW h \in Ancestors(c)'
      PROVE  h \in Ancestors(c) /\ h \in DOMAIN branches
  <2>1. h \in Ancestors(c)
    BY <1>4, <1>6, AncestorsFrame
  <2> QED  BY <2>1 DEF Ancestors
<1>7. ASSUME NEW h \in Ancestors(b)' PROVE h = b \/ h \in Ancestors(parent)
  <2>1. /\ parent \in Ancestors(parent) /\ Ancestors(parent) \subseteq DOMAIN branches
        /\ \A d \in Ancestors(parent) \ {Main} : branches[d].parent \in Ancestors(parent)
    BY AncestorsClosed DEF IInv
  <2>2. PICK A : A = Ancestors(parent)
    OBVIOUS
  <2>3. ({b} \cup A) \in SUBSET DOMAIN branches'
    BY <1>4, <2>1, <2>2
  <2>4. \A d \in ({b} \cup A) \ {Main} : branches'[d].parent \in {b} \cup A
    BY <1>2, <1>4, <2>1, <2>2
  <2>5. \A S \in SUBSET DOMAIN branches' :
          b \in S /\ (\A d \in S \ {Main} : branches'[d].parent \in S) => h \in S
    BY <1>7 DEF Ancestors
  <2>6. h \in {b} \cup A
    BY <2>3, <2>4, <2>5
  <2> QED  BY <2>2, <2>6
<1>8. ASSUME NEW c \in DOMAIN branches', NEW h \in Ancestors(c)', NEW p \in Path,
             IsHidden(branches'[h], p)
      PROVE  /\ FreshAt(branches'[c], p, branches'[h].sess)
             /\ h # c => FreshEntry(branches'[c].inh[p], branches'[h].sess)
  <2>1. CASE c \in DOMAIN branches
    <3>1. h \in Ancestors(c) /\ branches'[h] = branches[h] /\ branches'[c] = branches[c]
      BY <1>4, <1>6, <1>8, <2>1
    <3> QED  BY <1>8, <2>1, <3>1 DEF HiddenFresh
  <2>2. CASE c \notin DOMAIN branches
    <3>1. c = b /\ branches'[c] = r
      BY <1>4, <2>2
    <3>2. FreshAt(r, p, branches'[h].sess)
      BY <1>2, EmptyIsFresh DEF FreshAt, EmptyTree
    <3>3. h # c => FreshEntry(inh[p], branches'[h].sess)
      <4> SUFFICES ASSUME h # c PROVE FreshEntry(inh[p], branches'[h].sess)
        OBVIOUS
      <4>1. h \in Ancestors(parent)
        BY <1>7, <1>8, <3>1
      <4>2. branches'[h] = branches[h]
        BY <1>4, <4>1 DEF Ancestors
      <4> QED  BY <1>3, <1>8, <4>1, <4>2
    <3> QED  BY <1>2, <3>1, <3>2, <3>3
  <2> QED  BY <2>1, <2>2
<1>9. \A c \in DOMAIN branches' : \A h \in Ancestors(c)', p \in Path :
        IsHidden(branches'[h], p) =>
          /\ FreshAt(branches'[c], p, branches'[h].sess)
          /\ h # c => FreshEntry(branches'[c].inh[p], branches'[h].sess)
  BY <1>8
<1> QED  BY <1>5, <1>9 DEF HiddenFresh

\* Every step, where programs do not rename.
LEMMA FreshStep ==
    ASSUME IInv, IInv', HiddenFresh, [Next]_vars, "rename" \notin Ops
    PROVE  HiddenFresh'
<1>1. ASSUME NEW b \in DOMAIN branches \cap Agents, NEW p \in Path, FileOperation(b, p)
      PROVE  HiddenFresh'
  BY <1>1, FileOperationFresh
<1>2. ASSUME NEW b \in DOMAIN branches, NEW p \in Path, RevertPath(b, p)
      PROVE  HiddenFresh'
  BY <1>2, FileOperationFresh
<1>3. ASSUME NEW b \in DOMAIN branches, NEW frozen \in BOOLEAN, SetState(b, frozen)
      PROVE  HiddenFresh'
  <2> DEFINE n == [branches[b] EXCEPT !.frozen = frozen]
  <2>1. branches[b] \in BranchRecord
    BY RecordType DEF IInv
  <2>2. /\ Set(b, n) /\ Stays(n, branches[b])
        /\ n.delta = branches[b].delta /\ n.touch = branches[b].touch
    BY <1>3, <2>1 DEF SetState, Stays, BranchRecord
  <2> HIDE DEF n
  <2>3. FreshRecord(n, b)
    BY <2>2 DEF FreshRecord, FreshAt, HiddenFresh
  <2> QED  BY <2>2, <2>3, FreshSet
<1>4. ASSUME NEW b \in DOMAIN branches,
             CommitToBase(b) \/ NestedCommit(b) \/ FailedCommit(b) \/ AbortBranch(b)
      PROVE  HiddenFresh'
  BY <1>4, EndFresh
<1>5. ASSUME NEW b \in Branch, NEW parent \in DOMAIN branches, NEW mode \in Mode,
             NEW hide \in HideSets, CreateBranch(b, parent, mode, hide)
      PROVE  HiddenFresh'
  BY <1>5, CreateFresh
<1>6. CASE UNCHANGED vars
  BY <1>6 DEF vars, HiddenFresh, Ancestors
<1> QED  BY <1>1, <1>2, <1>3, <1>4, <1>5, <1>6 DEF Next

\* At the start only main exists, and it hides nothing.
LEMMA FreshStart == Init => HiddenFresh
<1> SUFFICES ASSUME Init PROVE HiddenFresh
  OBVIOUS
<1>1. DOMAIN branches = {Main} /\ branches[Main].hide = {}
  BY DEF Init, NewBranch
<1>2. \A b \in DOMAIN branches : Ancestors(b) \subseteq {Main}
  BY <1>1 DEF Ancestors
<1> QED  BY <1>1, <1>2 DEF HiddenFresh, IsHidden

(***************************************************************************)
(* Branch.hide_paths: what a branch or one of its ancestors hides is never *)
(* read through it, never copied up and never merged back, for any depth   *)
(* of nesting, any mix of lazy and snapshot branches and any commits,      *)
(* failed or not, around them.  The hypothesis is the one the property     *)
(* states: a program that renames another file to the hidden path brings   *)
(* lines there that are older than the branch.                             *)
(***************************************************************************)
THEOREM HiddenStaysHidden == "rename" \notin Ops => (Spec => []HiddenNeverLeaks)
<1> SUFFICES ASSUME "rename" \notin Ops PROVE Spec => []HiddenNeverLeaks
  OBVIOUS
<1>1. Init => IInv /\ HiddenFresh
  BY InitStep, FreshStart
<1>2. IInv /\ HiddenFresh /\ [Next]_vars => (IInv /\ HiddenFresh)'
  BY NextStep, FreshStep
<1>3. IInv /\ HiddenFresh => HiddenNeverLeaks
  BY FreshNeverLeaks
<1> QED  BY <1>1, <1>2, <1>3, PTL DEF Spec

-----------------------------------------------------------------------------
(***************************************************************************)
(* One operation, one path.                                                *)
(***************************************************************************)
\* What a branch looks up is what a branch further up its chain does, when no
\* branch before that one decides: the chain goes on as that branch's own.
LEMMA ChainGoesOn ==
    ASSUME TypeOK, LineageOK, NEW b \in DOMAIN branches, NEW k \in 1..Len(branches[b].chain)
    PROVE  LET ch == branches[b].chain
               x  == branches[ch[k]].chain
           IN  /\ Len(x) = Len(ch) - k + 1
               /\ \A i \in 1..Len(x) : x[i] = ch[k + i - 1]
<1> DEFINE ch == branches[b].chain
           c == ch[k]
           x == branches[c].chain
           m == Len(ch)
           n == Len(x)
           T == {i \in 1..n : k + i - 1 <= m /\ x[i] # ch[k + i - 1]}
<1>1. /\ m \in Nat /\ m > 0
      /\ \A i \in 1..m : ch[i] \in DOMAIN branches
      /\ \A i \in 1..(m - 1) : /\ ch[i] # Main /\ branches[ch[i]].mode = "lazy"
                               /\ branches[ch[i]].parent = ch[i + 1]
      /\ branches[ch[m]].mode = LastMode(ch[m])
  BY RecordType, FieldType DEF LineageOK, ChainOK
<1>2. c \in DOMAIN branches
  BY <1>1
<1>3. /\ n \in Nat /\ n > 0 /\ x[1] = c
      /\ \A i \in 1..(n - 1) : /\ x[i] # Main /\ branches[x[i]].mode = "lazy"
                               /\ branches[x[i]].parent = x[i + 1]
      /\ branches[x[n]].mode = LastMode(x[n])
  BY <1>2, RecordType, FieldType DEF LineageOK, ChainOK
<1>4. k \in 1..m
  OBVIOUS
<1> HIDE DEF ch, x, m, n
<1>5. T = {}
  <2> SUFFICES ASSUME T # {} PROVE FALSE
    OBVIOUS
  <2>1. T \in SUBSET Nat
    BY <1>3
  <2>2. PICK i \in T : \A y \in T : i <= y
    <3> HIDE DEF T
    <3> QED  BY <2>1, LeastNumber
  <2> DEFINE j == i - 1
             l == k + i - 2
  <2>3. i \in 1..n /\ k + i - 1 <= m /\ x[i] # ch[k + i - 1]
    OBVIOUS
  <2>4. i # 1
    <3>1. k + 1 - 1 = k
      BY <1>4
    <3> QED  BY <1>3, <2>3, <3>1
  <2>5. /\ j \in 1..(n - 1) /\ j + 1 = i /\ j \in 1..n /\ ~(i <= j)
        /\ l \in 1..(m - 1) /\ l + 1 = k + i - 1 /\ k + j - 1 = l /\ l <= m
    BY <1>1, <1>3, <1>4, <2>3, <2>4
  <2> HIDE DEF j, l, T
  <2>6. x[j] = ch[l]
    <3>1. j \notin T
      BY <2>2, <2>5
    <3> QED  BY <2>5, <3>1 DEF T
  <2>7. x[i] = ch[k + i - 1]
    BY <1>1, <1>3, <2>5, <2>6
  <2> QED  BY <2>3, <2>7
<1>6. \A i \in 1..n : k + i - 1 <= m => x[i] = ch[k + i - 1]
  BY <1>5
<1> HIDE DEF T
<1>7. n = m - k + 1
  <2>1. ~(n < m - k + 1)
    <3> SUFFICES ASSUME n < m - k + 1 PROVE FALSE
      OBVIOUS
    <3> DEFINE l == k + n - 1
    <3>1. n \in 1..n /\ l <= m /\ l \in 1..(m - 1)
      BY <1>1, <1>3, <1>4
    <3> HIDE DEF l
    <3>2. x[n] = ch[l]
      BY <1>6, <3>1 DEF l
    <3> QED  BY <1>1, <1>3, <3>1, <3>2 DEF LastMode
  <2>2. ~(m - k + 1 < n)
    <3> SUFFICES ASSUME m - k + 1 < n PROVE FALSE
      OBVIOUS
    <3> DEFINE i == m - k + 1
    <3>1. i \in 1..n /\ i \in 1..(n - 1) /\ k + i - 1 = m
      BY <1>1, <1>3, <1>4
    <3> HIDE DEF i
    <3>2. x[i] = ch[m]
      BY <1>1, <1>6, <3>1
    <3> QED  BY <1>1, <1>3, <3>1, <3>2 DEF LastMode
  <2>3. /\ m \in Nat /\ n \in Nat /\ k \in 1..m
        /\ ~(n < m - k + 1) /\ ~(m - k + 1 < n)
    BY <1>1, <1>3, <1>4, <2>1, <2>2
  <2> QED  BY <2>3
<1>8. \A i \in 1..n : x[i] = ch[k + i - 1]
  <2>1. \A i \in 1..n : k + i - 1 <= m
    BY <1>1, <1>4, <1>7
  <2> QED  BY <1>6, <2>1
<1> QED  BY <1>7, <1>8 DEF ch, x, m, n

\* So the lookup goes on there.
LEMMA LookupGoesOn ==
    ASSUME TypeOK, LineageOK, NEW b \in DOMAIN branches, NEW k \in 1..Len(branches[b].chain),
           NEW p \in Path, \A j \in 1..(k - 1) : ~Decides(branches[branches[b].chain[j]], p)
    PROVE  ResolvePath(b, p) = ResolvePath(branches[b].chain[k], p)
<1> DEFINE ch == branches[b].chain
           x == branches[ch[k]].chain
           m == Len(ch)
           n == Len(x)
<1>1. m \in Nat /\ m > 0 /\ ch[k] \in DOMAIN branches
  BY RecordType, FieldType DEF LineageOK, ChainOK
<1>2. n \in Nat /\ n > 0
  BY <1>1, RecordType, FieldType DEF LineageOK, ChainOK
<1>3. n = m - k + 1 /\ \A i \in 1..n : x[i] = ch[k + i - 1]
  BY ChainGoesOn
<1>4. k \in 1..m /\ \A j \in 1..(k - 1) : ~Decides(branches[ch[j]], p)
  OBVIOUS
<1>5. ResolvePath(b, p) = ResolveAlong(ch, p) /\ ResolvePath(ch[k], p) = ResolveAlong(x, p)
  BY DEF ResolvePath
<1>6. SUFFICES ResolveAlong(ch, p) = ResolveAlong(x, p)
  BY <1>5
<1>7. PICK y, z : y = ch /\ z = x
  OBVIOUS
<1>8. Len(y) = m /\ Len(z) = n /\ \A i \in 1..n : z[i] = y[k + i - 1]
  BY <1>3, <1>7
<1> HIDE DEF ch, x, m, n
<1>9. CASE \E i \in 1..n : FirstDecider(z, p, i)
  <2>1. PICK i \in 1..n : FirstDecider(z, p, i)
    BY <1>9
  <2> DEFINE l == k + i - 1
  <2>2. l \in 1..m
    BY <1>1, <1>2, <1>3, <1>4
  <2>3. ASSUME NEW j \in 1..(l - 1) PROVE ~Decides(branches[y[j]], p)
    <3>1. CASE j < k
      <4>1. j \in 1..(k - 1)
        BY <1>4, <2>2, <2>3, <3>1
      <4> QED  BY <1>4, <1>7, <4>1
    <3>2. CASE ~(j < k)
      <4> DEFINE h == j - k + 1
      <4>1. h \in 1..(i - 1) /\ h \in 1..n /\ k + h - 1 = j
        BY <1>2, <1>4, <2>3, <3>2
      <4> HIDE DEF h
      <4>2. z[h] = y[j]
        BY <1>8, <4>1
      <4> QED  BY <2>1, <4>1, <4>2 DEF FirstDecider
    <3> QED  BY <3>1, <3>2
  <2>4. FirstDecider(y, p, l)
    BY <1>8, <2>1, <2>3 DEF FirstDecider
  <2>5. ResolveAlong(z, p) = branches[z[i]].delta[p]
    BY <1>2, <1>8, <2>1, FirstAnswers
  <2>6. ResolveAlong(y, p) = branches[y[l]].delta[p]
    <3> HIDE DEF l
    <3> QED  BY <1>1, <1>8, <2>2, <2>4, FirstAnswers
  <2> QED  BY <1>7, <1>8, <2>5, <2>6
<1>10. CASE ~ \E i \in 1..n : FirstDecider(z, p, i)
  <2>1. \A i \in 1..n : ~Decides(branches[z[i]], p)
    BY <1>2, <1>8, <1>10, NobodyDecides
  <2>2. ASSUME NEW j \in 1..m PROVE ~Decides(branches[y[j]], p)
    <3>1. CASE j < k
      <4>1. j \in 1..(k - 1)
        BY <1>1, <1>4, <2>2, <3>1
      <4> QED  BY <1>4, <1>7, <4>1
    <3>2. CASE ~(j < k)
      <4> DEFINE h == j - k + 1
      <4>1. h \in 1..n /\ k + h - 1 = j
        BY <1>1, <1>2, <1>3, <1>4, <2>2, <3>2
      <4> HIDE DEF h
      <4>2. z[h] = y[j]
        BY <1>8, <4>1
      <4> QED  BY <2>1, <4>1, <4>2
    <3> QED  BY <3>1, <3>2
  <2>3. ~ \E i \in 1..m : FirstDecider(y, p, i)
    BY <2>2 DEF FirstDecider
  <2>4. z[n] = y[m]
    <3>1. n \in 1..n /\ k + n - 1 = m
      BY <1>1, <1>2, <1>3, <1>4
    <3> QED  BY <1>8, <3>1
  <2>5. Underlay(z) = Underlay(y)
    BY <1>8, <2>4 DEF Underlay
  <2> QED  BY <1>7, <1>8, <1>10, <2>3, <2>5 DEF ResolveAlong
<1> QED  BY <1>9, <1>10

\* A lookup finds the same when every branch it visits answers the same.
LEMMA AlongFrame ==
    ASSUME NEW x, Len(x) \in Nat, Len(x) > 0, NEW p \in Path, base' = base,
           \A i \in 1..Len(x) :
              /\ Decides(branches'[x[i]], p) <=> Decides(branches[x[i]], p)
              /\ branches'[x[i]].delta[p] = branches[x[i]].delta[p]
              /\ branches'[x[i]].inh = branches[x[i]].inh
    PROVE  ResolveAlong(x, p)' = ResolveAlong(x, p)
<1>1. Len(x) \in 1..Len(x)
  OBVIOUS
<1>2. \A i \in 1..Len(x) : FirstDecider(x, p, i)' <=> FirstDecider(x, p, i)
  <2> TAKE i \in 1..Len(x)
  <2>1. \A j \in 1..(i - 1) : j \in 1..Len(x)
    OBVIOUS
  <2> QED  BY <2>1 DEF FirstDecider
<1>3. Underlay(x)' = Underlay(x)
  BY <1>1 DEF Underlay
<1>4. CASE \E i \in 1..Len(x) : FirstDecider(x, p, i)
  <2>1. PICK i \in 1..Len(x) : FirstDecider(x, p, i)
    BY <1>4
  <2>2. ResolveAlong(x, p) = branches[x[i]].delta[p]
    BY <2>1, FirstAnswers
  <2>3. FirstDecider(x, p, i)'
    BY <1>2, <2>1
  <2>4. ResolveAlong(x, p)' = branches'[x[i]].delta[p]
    BY <2>3, FirstAnswersNext DEF FirstAnswer
  <2> QED  BY <2>2, <2>4
<1>5. CASE ~ \E i \in 1..Len(x) : FirstDecider(x, p, i)
  BY <1>2, <1>3, <1>5 DEF ResolveAlong
<1> QED  BY <1>4, <1>5

\* n answers for p as r does.
AnswersAlike(n, r, p) ==
    (Decides(n, p) <=> Decides(r, p)) /\ n.delta[p] = r.delta[p]

\* n has made a directory at p where r had nothing of its own.
MadeDir(n, r, p) == ~Exists(r.delta[p]) /\ IsDir(n.delta[p])

\* The view of every branch at a path where the record of c answers alike, or
\* has made a directory where c showed one.
LEMMA ViewFrame ==
    ASSUME IInv, NEW c \in DOMAIN branches, NEW n, Set(c, n), base' = base,
           n.chain = branches[c].chain, n.inh = branches[c].inh, NEW p \in Path,
           \/ AnswersAlike(n, branches[c], p)
           \/ MadeDir(n, branches[c], p) /\ IsDir(ResolvePath(c, p)),
           NEW b \in DOMAIN branches
    PROVE  SameEntry(ResolvePath(b, p)', ResolvePath(b, p))
<1> DEFINE ch == branches[b].chain
<1>1. \A a \in DOMAIN branches : branches'[a] = IF a = c THEN n ELSE branches[a]
  BY DEF Set, IInv, TypeOK
<1>2. /\ ch \in Seq(Branch) /\ Len(ch) \in Nat /\ Len(ch) > 0
      /\ \A i \in 1..Len(ch) : ch[i] \in DOMAIN branches
  BY RecordType, FieldType DEF IInv, LineageOK, ChainOK
<1>3. branches'[b].chain = ch
  BY <1>1
<1>4. PICK x : x = ch
  OBVIOUS
<1>5. /\ Len(x) \in Nat /\ Len(x) > 0 /\ \A i \in 1..Len(x) : x[i] \in DOMAIN branches
  BY <1>2, <1>4
<1>6. ResolvePath(b, p) = ResolveAlong(x, p) /\ ResolvePath(b, p)' = ResolveAlong(x, p)'
  BY <1>3, <1>4 DEF ResolvePath
<1> HIDE DEF ch
<1>7. SUFFICES SameEntry(ResolveAlong(x, p)', ResolveAlong(x, p))
  BY <1>6
<1>8. CASE AnswersAlike(n, branches[c], p)
  <2>1. ASSUME NEW i \in 1..Len(x)
        PROVE  /\ Decides(branches'[x[i]], p) <=> Decides(branches[x[i]], p)
               /\ branches'[x[i]].delta[p] = branches[x[i]].delta[p]
               /\ branches'[x[i]].inh = branches[x[i]].inh
    BY <1>1, <1>5, <1>8, <2>1 DEF AnswersAlike
  <2> QED  BY <1>5, <2>1, AlongFrame DEF SameEntry
<1>9. CASE MadeDir(n, branches[c], p) /\ IsDir(ResolvePath(c, p))
  <2> DEFINE T == {i \in 1..Len(x) : x[i] = c \/ Decides(branches[x[i]], p)}
  <2>1. CASE T = {}
    <3>1. \A i \in 1..Len(x) : branches'[x[i]] = branches[x[i]]
      BY <1>1, <1>5, <2>1
    <3> QED  BY <1>5, <3>1, AlongFrame DEF SameEntry
  <2>2. CASE T # {}
    <3>1. T \in SUBSET Nat
      OBVIOUS
    <3>2. PICK k \in T : \A y \in T : k <= y
      <4> HIDE DEF T
      <4> QED  BY <2>2, <3>1, LeastNumber
    <3>3. k \in 1..Len(x) /\ (x[k] = c \/ Decides(branches[x[k]], p))
      OBVIOUS
    <3>4. ASSUME NEW j \in 1..(k - 1)
          PROVE  j \in 1..Len(x) /\ x[j] # c /\ ~Decides(branches[x[j]], p)
      <4>1. j \in 1..Len(x) /\ ~(k <= j)
        BY <1>5, <3>3, <3>4
      <4> QED  BY <3>2, <4>1
    <3> HIDE DEF T
    <3>5. ASSUME NEW j \in 1..(k - 1) PROVE ~Decides(branches'[x[j]], p)
      BY <1>1, <1>5, <3>4, <3>5
    <3>6. CASE x[k] = c
      <4>1. ResolveAlong(x, p) = ResolvePath(c, p)
        <5>1. k \in 1..Len(branches[b].chain)
          BY <1>4, <3>3 DEF ch
        <5>2. \A j \in 1..(k - 1) : ~Decides(branches[branches[b].chain[j]], p)
          BY <1>4, <3>4 DEF ch
        <5>3. ResolvePath(b, p) = ResolvePath(branches[b].chain[k], p)
          BY <5>1, <5>2, LookupGoesOn DEF IInv
        <5> QED  BY <1>4, <1>6, <3>6, <5>3 DEF ch
      <4>2. Decides(branches'[x[k]], p)
        BY <1>1, <1>9, <3>6 DEF MadeDir, Decides, IsDir, Exists
      <4>3. FirstDecider(x, p, k)'
        BY <3>5, <4>2 DEF FirstDecider
      <4>4. ResolveAlong(x, p)' = branches'[x[k]].delta[p]
        BY <1>5, <3>3, <4>3, FirstAnswersNext DEF FirstAnswer
      <4>5. IsDir(ResolveAlong(x, p)')
        BY <1>1, <1>9, <3>6, <4>4 DEF MadeDir
      <4> QED  BY <1>9, <4>1, <4>5 DEF SameEntry
    <3>7. CASE x[k] # c
      <4>1. branches'[x[k]] = branches[x[k]]
        BY <1>1, <1>5, <3>3, <3>7
      <4>2. FirstDecider(x, p, k)
        BY <3>3, <3>4, <3>7 DEF FirstDecider
      <4>3. FirstDecider(x, p, k)'
        BY <3>3, <3>5, <3>7, <4>1 DEF FirstDecider
      <4>4. ResolveAlong(x, p)' = branches'[x[k]].delta[p]
        BY <1>5, <3>3, <4>3, FirstAnswersNext DEF FirstAnswer
      <4>5. ResolveAlong(x, p) = branches[x[k]].delta[p]
        BY <1>5, <3>3, <4>2, FirstAnswers
      <4> QED  BY <4>1, <4>4, <4>5 DEF SameEntry
    <3> QED  BY <3>6, <3>7
  <2> QED  BY <2>1, <2>2
<1> QED  BY <1>8, <1>9

\* A record that an operation on s and d makes of r: beside these paths and
\* what is below them only directories above them are made or pruned.
Confined(n, r, s, d) ==
    /\ n.chain = r.chain /\ n.inh = r.inh /\ n.hide = r.hide
    /\ n.tomb \ {s, d} = r.tomb \ {s, d}
    /\ \A q \in Path \ (Under(s) \cup Under(d)) :
         \/ n.delta[q] = r.delta[q]
         \/ /\ q \in Above(s) \cup Above(d)
            /\ \/ MadeDir(n, r, q)
               \/ IsDir(r.delta[q]) /\ \A x \in Under(q) : ~Exists(n.delta[x])

\* Copy-up.
LEMMA CopyConfined ==
    ASSUME NEW r \in BranchRecord, NEW p \in Path, NEW src \in Entry
    PROVE  LET n == EnsureDelta(r, p, src)
           IN  /\ n.chain = r.chain /\ n.inh = r.inh /\ n.hide = r.hide
               /\ n.tomb = r.tomb \ {p}
               /\ \A q \in Path \ {p} : \/ n.delta[q] = r.delta[q]
                                        \/ q \in Above(p) /\ MadeDir(n, r, q)
<1> DEFINE n == EnsureDelta(r, p, src)
           copy == IF IsLeaf(src) THEN [r.delta EXCEPT ![p] = src] ELSE r.delta
           touch == RecordFirstTouch(r.touch, p, src, TRUE)
           m == MkParents(copy, {p})
<1>1. r.delta \in Tree
  BY FieldType
<1>2. CASE Exists(r.delta[p])
  BY <1>2 DEF EnsureDelta, BranchRecord
<1>3. CASE ~Exists(r.delta[p])
  <2>1. \A q \in Path \ {p} : copy[q] = r.delta[q]
    BY <1>1 DEF Tree
  <2>2. n = WithFiles(r, touch, m, r.tomb \ {p})
    BY <1>3 DEF EnsureDelta, WithFiles
  <2>3. /\ n.delta = m /\ n.inh = r.inh /\ n.chain = r.chain /\ n.hide = r.hide
        /\ n.tomb = r.tomb \ {p}
    <3> HIDE DEF m, touch, n
    <3> QED  BY <2>2 DEF WithFiles, BranchRecord
  <2> HIDE DEF copy
  <2>4. \A q \in Path : m[q] = IF ~Exists(copy[q]) /\ q \in Above(p) THEN Dir ELSE copy[q]
    BY DEF MkParents
  <2>5. IsDir(Dir)
    BY DEF IsDir, Dir
  <2> HIDE DEF m, n
  <2>6. \A q \in Path \ {p} : n.delta[q] = r.delta[q] \/ (q \in Above(p) /\ MadeDir(n, r, q))
    <3> TAKE q \in Path \ {p}
    <3>1. copy[q] = r.delta[q] /\ n.delta[q] = m[q]
      BY <2>1, <2>3
    <3>2. m[q] = IF ~Exists(copy[q]) /\ q \in Above(p) THEN Dir ELSE copy[q]
      BY <2>4
    <3> QED  BY <2>5, <3>1, <3>2 DEF MadeDir
  <2> QED  BY <2>3, <2>6 DEF n
<1> QED  BY <1>2, <1>3

\* Copy-up, and then another entry or other lines at the copied path.
LEMMA PutConfined ==
    ASSUME NEW r \in BranchRecord, NEW p \in Path, NEW src \in Entry
    PROVE  /\ Confined(EnsureDelta(r, p, src), r, p, p)
           /\ \A e : Confined([EnsureDelta(r, p, src) EXCEPT !.delta[p] = e], r, p, p)
           /\ \A i : Confined(WriteLine(r, p, src, i), r, p, p)
<1> DEFINE n == EnsureDelta(r, p, src)
<1>1. /\ n.chain = r.chain /\ n.inh = r.inh /\ n.hide = r.hide
      /\ n.tomb = r.tomb \ {p}
      /\ \A q \in Path \ {p} : n.delta[q] = r.delta[q] \/ (q \in Above(p) /\ MadeDir(n, r, q))
  BY CopyConfined
<1>2. n \in BranchRecord /\ n.delta \in Tree
  BY EnsureDeltaType, FieldType DEF Follows
<1>3. p \in Under(p)
  BY PathOrder
<1>4. \A i : WriteLine(r, p, src, i) =
               [n EXCEPT !.delta[p].lines = PutLine(@, i, r.sess + 1)]
  BY DEF WriteLine
<1> HIDE DEF n
<1>5. ASSUME NEW m, m.chain = n.chain, m.inh = n.inh, m.hide = n.hide, m.tomb = n.tomb,
             \A q \in Path \ {p} : m.delta[q] = n.delta[q]
      PROVE  Confined(m, r, p, p)
  <2>1. /\ m.chain = r.chain /\ m.inh = r.inh /\ m.hide = r.hide
        /\ m.tomb \ {p, p} = r.tomb \ {p, p}
    BY <1>1, <1>5
  <2>2. ASSUME NEW q \in Path \ (Under(p) \cup Under(p))
        PROVE  m.delta[q] = r.delta[q] \/ (q \in Above(p) /\ MadeDir(m, r, q))
    <3>1. q \in Path \ {p}
      BY <1>3, <2>2
    <3> QED  BY <1>1, <1>5, <3>1 DEF MadeDir
  <2> QED  BY <2>1, <2>2 DEF Confined
<1>6. Confined(n, r, p, p)
  BY <1>5
<1>7. ASSUME NEW e PROVE Confined([n EXCEPT !.delta[p] = e], r, p, p)
  <2> DEFINE m == [n EXCEPT !.delta[p] = e]
  <2>1. /\ m.chain = n.chain /\ m.inh = n.inh /\ m.hide = n.hide /\ m.tomb = n.tomb
        /\ \A q \in Path \ {p} : m.delta[q] = n.delta[q]
    BY <1>2 DEF BranchRecord, Tree
  <2> HIDE DEF m
  <2>2. Confined(m, r, p, p)
    BY <1>5, <2>1
  <2> QED  BY <2>2 DEF m
<1>8. ASSUME NEW i PROVE Confined(WriteLine(r, p, src, i), r, p, p)
  <2> DEFINE m == WriteLine(r, p, src, i)
  <2>1. /\ m.chain = n.chain /\ m.inh = n.inh /\ m.hide = n.hide /\ m.tomb = n.tomb
        /\ \A q \in Path \ {p} : m.delta[q] = n.delta[q]
    BY <1>2, <1>4 DEF BranchRecord, Tree
  <2> HIDE DEF m
  <2>2. Confined(m, r, p, p)
    BY <1>5, <2>1
  <2> QED  BY <2>2 DEF m
<1> QED  BY <1>6, <1>7, <1>8 DEF n

\* What prune_empty_delta_parents takes along.
LEMMA PruneConfined ==
    ASSUME NEW t \in Tree, IsTree(t), NEW touched, NEW p \in Path, NEW q \in Path,
           Prune(t, touched, {ParentDir(p)})[q] # t[q]
    PROVE  /\ q \in Above(p) /\ IsDir(t[q])
           /\ \A x \in Under(q) : ~Exists(Prune(t, touched, {ParentDir(p)})[x])
<1> DEFINE cand == {a \in Path : \E s \in {ParentDir(p)} \cap Path :
                                   Exists(t[s]) /\ s \in Under(a)}
           gone(a) == \A y \in Under(a) :
                        Exists(t[y]) => y \in cand \ touched /\ IsDir(t[y])
           u == Prune(t, touched, {ParentDir(p)})
<1>1. \A y \in Path : u[y] = IF y \in cand /\ gone(y) THEN Missing ELSE t[y]
  BY DEF Prune
<1>2. q \in cand /\ gone(q)
  BY <1>1
<1>3. PICK s \in {ParentDir(p)} \cap Path : Exists(t[s]) /\ s \in Under(q)
  BY <1>2
<1>4. s \in Path /\ s \in Above(p)
  BY <1>3, ParentIsAbove
<1>5. q = s \/ q \in Above(s)
  BY <1>3, <1>4, PathOrder
<1>6. q \in Above(p)
  BY <1>4, <1>5, PathOrder
<1>7. Exists(t[q])
  BY <1>3, <1>4, <1>5 DEF IsTree, IsDir, Exists
<1>8. IsDir(t[q])
  BY <1>2, <1>7, PathOrder
<1>9. ASSUME NEW x \in Under(q) PROVE ~Exists(u[x])
  <2>1. x \in Path
    BY <1>9 DEF Under
  <2>2. ~Exists(Missing)
    BY DEF Exists, Missing
  <2>3. ASSUME Exists(t[x]) PROVE x \in cand /\ gone(x)
    <3>1. \A y \in Under(x) : y \in Under(q)
      <4> TAKE y \in Under(x)
      <4>1. y \in Path
        BY DEF Under
      <4> QED  BY <1>9, <2>1, <4>1, PathOrder
    <3> QED  BY <1>2, <1>9, <2>3, <3>1
  <2> HIDE DEF cand, gone, u
  <2> QED  BY <1>1, <2>1, <2>2, <2>3
<1> QED  BY <1>6, <1>8, <1>9

\* delete_path_in_branch and rmdir_path_in_branch
LEMMA DropConfined ==
    ASSUME NEW r \in BranchRecord, IsTree(r.delta), NEW p \in Path, NEW src \in Entry
    PROVE  Confined(DropPath(r, p, src), r, p, p)
<1> DEFINE n == DropPath(r, p, src)
           touch == RecordFirstTouch(r.touch, p, src, FALSE)
           touched == {q \in Path : touch[q].made}
           cut == RemoveTree(r.delta, {p})
           t == Prune(cut, touched, {ParentDir(p)})
<1>1. /\ n.chain = r.chain /\ n.inh = r.inh /\ n.hide = r.hide
      /\ n.tomb = IF Exists(src) THEN r.tomb \cup {p} ELSE r.tomb \ {p}
      /\ n.delta = IF Exists(r.delta[p]) THEN t ELSE r.delta
  BY DEF DropPath, BranchRecord
<1>2. cut \in Tree /\ IsTree(cut) /\ \A q \in Path \ Under(p) : cut[q] = r.delta[q]
  <2>1. {p} \in SUBSET Path /\ r.delta \in Tree
    BY FieldType
  <2>2. \A q \in Path \ Under(p) : cut[q] = r.delta[q]
    BY DEF RemoveTree
  <2> QED  BY <2>1, <2>2, RemoveTreeType, RemoveIsTree
<1>3. ASSUME NEW q \in Path, t[q] # cut[q]
      PROVE  /\ q \in Above(p) /\ IsDir(cut[q])
             /\ \A x \in Under(q) : ~Exists(t[x])
  <2> HIDE DEF cut, touched
  <2> QED  BY <1>2, <1>3, PruneConfined
<1> HIDE DEF n, touched, cut, t
<1>4. n.tomb \ {p, p} = r.tomb \ {p, p}
  BY <1>1
<1>5. ASSUME NEW q \in Path \ (Under(p) \cup Under(p))
      PROVE  \/ n.delta[q] = r.delta[q]
             \/ /\ q \in Above(p)
                /\ IsDir(r.delta[q]) /\ \A x \in Under(q) : ~Exists(n.delta[x])
  <2>1. q \in Path /\ cut[q] = r.delta[q]
    BY <1>2, <1>5
  <2> QED  BY <1>1, <1>3, <2>1
<1> QED  BY <1>1, <1>4, <1>5 DEF Confined, n

\* rename: both paths copied up, the destination cleared, the source moved.
LEMMA RenameConfined ==
    ASSUME NEW r \in BranchRecord, NEW s \in Path, NEW d \in Path,
           NEW srcS \in Entry, NEW srcD \in Entry
    PROVE  Confined(RenameRecord(r, s, d, srcS, srcD), r, s, d)
<1> DEFINE r1 == EnsureDelta(r, s, srcS)
           r2 == RenameCopied(r, s, d, srcS, srcD)
           t == RenameCleared(r, s, d, srcS, srcD)
           moved == [q \in Path |->
                      IF q \in Under(s) THEN Missing
                      ELSE IF q \in Under(d)
                           THEN IF Moved(s, d, q) \in Path THEN t[Moved(s, d, q)]
                                ELSE Missing
                      ELSE t[q]]
           D == (IF Exists(srcS) THEN r2.tomb \cup {s} ELSE r2.tomb \ {s}) \ {d}
           n == RenameRecord(r, s, d, srcS, srcD)
<1>1. /\ r1 \in BranchRecord
      /\ r1.chain = r.chain /\ r1.inh = r.inh /\ r1.hide = r.hide
      /\ r1.tomb = r.tomb \ {s}
      /\ \A q \in Path \ {s} : r1.delta[q] = r.delta[q] \/ (q \in Above(s) /\ MadeDir(r1, r, q))
  BY CopyConfined, EnsureDeltaType DEF Follows
<1>2. r2 = EnsureDelta(r1, d, srcD)
  BY DEF RenameCopied
<1> HIDE DEF r1
<1>3. /\ r2 \in BranchRecord
      /\ r2.chain = r1.chain /\ r2.inh = r1.inh /\ r2.hide = r1.hide
      /\ r2.tomb = r1.tomb \ {d}
      /\ \A q \in Path \ {d} : r2.delta[q] = r1.delta[q] \/ (q \in Above(d) /\ MadeDir(r2, r1, q))
  <2> DEFINE x == EnsureDelta(r1, d, srcD)
  <2>1. r1 \in BranchRecord
    BY <1>1
  <2>2. /\ x.chain = r1.chain /\ x.inh = r1.inh /\ x.hide = r1.hide
        /\ x.tomb = r1.tomb \ {d}
        /\ \A q \in Path \ {d} : x.delta[q] = r1.delta[q] \/ (q \in Above(d) /\ MadeDir(x, r1, q))
    BY <2>1, CopyConfined
  <2>3. x \in BranchRecord
    BY <2>1, EnsureDeltaType DEF Follows
  <2> HIDE DEF r2, x
  <2> QED  BY <1>2, <2>2, <2>3 DEF x
<1>4. t \in {RemoveTree(r2.delta, {d}), r2.delta}
  BY DEF RenameCleared
<1>5. n = [r2 EXCEPT !.delta = moved, !.tomb = D] \/ n = [r2 EXCEPT !.delta = t]
  BY DEF RenameRecord, r2, t
<1> HIDE DEF r2, t, n
<1>6. \A q \in Path \ (Under(s) \cup Under(d)) : t[q] = r2.delta[q] /\ moved[q] = t[q]
  BY <1>4 DEF RemoveTree
<1> HIDE DEF moved
<1>7. /\ n.chain = r2.chain /\ n.inh = r2.inh /\ n.hide = r2.hide
      /\ n.delta \in {moved, t} /\ n.tomb \in {r2.tomb, D}
  <2> HIDE DEF D
  <2> QED  BY <1>3, <1>5 DEF BranchRecord
<1>8. n.tomb \ {s, d} = r.tomb \ {s, d}
  BY <1>1, <1>3, <1>7
<1>9. ASSUME NEW q \in Path \ (Under(s) \cup Under(d))
      PROVE  n.delta[q] = r.delta[q] \/ (q \in Above(s) \cup Above(d) /\ MadeDir(n, r, q))
  <2>1. s \in Under(s) /\ d \in Under(d)
    BY PathOrder
  <2>2. q \in Path \ {s} /\ q \in Path \ {d} /\ n.delta[q] = r2.delta[q]
    BY <1>6, <1>7, <1>9, <2>1
  <2>3. r1.delta[q] = r.delta[q] \/ (q \in Above(s) /\ MadeDir(r1, r, q))
    BY <1>1, <2>2
  <2>4. r2.delta[q] = r1.delta[q] \/ (q \in Above(d) /\ MadeDir(r2, r1, q))
    BY <1>3, <2>2
  <2>5. CASE r2.delta[q] = r1.delta[q]
    BY <2>2, <2>3, <2>5 DEF MadeDir
  <2>6. CASE q \in Above(d) /\ MadeDir(r2, r1, q)
    <3>1. ~IsDir(r1.delta[q])
      BY <2>6 DEF MadeDir, Exists, IsDir
    <3>2. r1.delta[q] = r.delta[q]
      BY <2>3, <3>1 DEF MadeDir
    <3> QED  BY <2>2, <2>6, <3>2 DEF MadeDir
  <2> QED  BY <2>4, <2>5, <2>6
<1>10. n.chain = r.chain /\ n.inh = r.inh /\ n.hide = r.hide
  BY <1>1, <1>3, <1>7
<1> QED  BY <1>8, <1>9, <1>10 DEF Confined, n

\* Every file operation is confined to its path, or to the two of a rename,
\* and the kernel has walked to them.
LEMMA FileOperationConfined ==
    ASSUME IInv, TreesOK, NEW b \in DOMAIN branches, NEW p \in Path, NEW d \in Path,
           (PathOperation(b, p) /\ d = p) \/ Rename(b, p, d)
    PROVE  /\ base' = base
           /\ \E n : /\ Set(b, n) /\ Confined(n, branches[b], p, d)
                     /\ Reachable(b, p) /\ Reachable(b, d)
<1> DEFINE src == InheritedForTouch(b, p)
           r == branches[b]
           G == /\ base' = base
                /\ \E n : /\ Set(b, n) /\ Confined(n, r, p, d)
                          /\ Reachable(b, p) /\ Reachable(b, d)
<1>1. src \in Entry /\ r \in BranchRecord /\ IsTree(r.delta)
  BY InheritedType, RecordType DEF IInv, TreesOK
<1>2. ASSUME NEW n, NEW status, FileOp(b, n, status), Confined(n, r, p, p), Reachable(b, p),
             d = p
      PROVE  G
  BY <1>2 DEF FileOp
<1> SUFFICES G
  OBVIOUS
<1> HIDE DEF G
<1>3. CASE Rename(b, p, d)
  <2> DEFINE srcD == InheritedForTouch(b, d)
             n == RenameRecord(r, p, d, src, srcD)
  <2>1. PICK status : FileOp(b, n, status)
    BY <1>3 DEF Rename
  <2>2. Reachable(b, p) /\ Reachable(b, d)
    BY <1>3 DEF Rename, Visible
  <2>3. srcD \in Entry
    BY InheritedType DEF IInv
  <2>4. Confined(n, r, p, d)
    <3> HIDE DEF srcD, src, r
    <3> QED  BY <1>1, <2>3, RenameConfined
  <2> HIDE DEF n
  <2> QED  BY <2>1, <2>2, <2>4 DEF FileOp, G
<1>4. ASSUME PathOperation(b, p), d = p PROVE G
  <2>1. ASSUME NEW i \in 1..MaxLines, WriteData(b, p, i) PROVE G
    <3>1. FileOp(b, WriteLine(r, p, src, i), "ok") /\ Reachable(b, p)
      BY <2>1 DEF WriteData, Visible
    <3> HIDE DEF r, src
    <3> QED  BY <1>1, <1>2, <1>4, <3>1, PutConfined
  <2>2. CASE NoSpace(b, p)
    <3> DEFINE n == [r EXCEPT !.touch = RecordFirstTouch(@, p, src, TRUE)]
    <3>1. FileOp(b, n, "eio") /\ Reachable(b, p)
      BY <2>2 DEF NoSpace, Visible
    <3>2. Confined(n, r, p, p)
      BY <1>1 DEF BranchRecord, Confined
    <3> HIDE DEF n, r, src
    <3> QED  BY <1>2, <1>4, <3>1, <3>2
  <2>3. CASE CreateFile(b, p) \/ MakeDir(b, p) \/ MakeSymlink(b, p) \/ Truncate(b, p)
    <3>1. PICK e, status : FileOp(b, [EnsureDelta(r, p, src) EXCEPT !.delta[p] = e], status)
      BY <2>3 DEF CreateFile, MakeDir, MakeSymlink, Truncate, PlaceNew
    <3>2. Reachable(b, p)
      BY <2>3 DEF CreateFile, MakeDir, MakeSymlink, Truncate, Visible
    <3> DEFINE n == [EnsureDelta(r, p, src) EXCEPT !.delta[p] = e]
    <3>3. Confined(n, r, p, p)
      <4> HIDE DEF r, src
      <4> QED  BY <1>1, PutConfined
    <3> HIDE DEF n
    <3> QED  BY <1>2, <1>4, <3>1, <3>2, <3>3 DEF n
  <2>4. CASE ChangeAttr(b, p)
    <3>1. FileOp(b, EnsureDelta(r, p, src), "ok") /\ Reachable(b, p)
      BY <2>4 DEF ChangeAttr, Visible
    <3> HIDE DEF r, src
    <3> QED  BY <1>1, <1>2, <1>4, <3>1, PutConfined
  <2>5. CASE Unlink(b, p) \/ RemoveDir(b, p)
    <3>1. FileOp(b, DropPath(r, p, src), "ok") /\ Reachable(b, p)
      BY <2>5 DEF Unlink, RemoveDir, Visible
    <3> HIDE DEF r, src
    <3> QED  BY <1>1, <1>2, <1>4, <3>1, DropConfined
  <2> QED  BY <1>4, <2>1, <2>2, <2>3, <2>4, <2>5 DEF PathOperation
<1> QED  BY <1>3, <1>4

\* What a confined operation leaves alone in the view of every branch.
LEMMA ConfinedView ==
    ASSUME IInv, NEW c \in DOMAIN branches, NEW s \in Path, NEW d \in Path, NEW n,
           Set(c, n), base' = base, Confined(n, branches[c], s, d),
           Reachable(c, s), Reachable(c, d),
           NEW b \in DOMAIN branches, NEW q \in Path \ (Under(s) \cup Under(d))
    PROVE  \/ SameEntry(ResolvePath(b, q)', ResolvePath(b, q))
           \/ q \in Above(s) \cup Above(d) /\ Pruned(c, q)
<1> DEFINE r == branches[c]
<1>1. r \in BranchRecord /\ r.tomb \subseteq Path
  BY RecordType, FieldType DEF IInv
<1>2. /\ n.chain = r.chain /\ n.inh = r.inh /\ n.hide = r.hide
      /\ n.tomb \ {s, d} = r.tomb \ {s, d}
      /\ \/ n.delta[q] = r.delta[q]
         \/ /\ q \in Above(s) \cup Above(d)
            /\ \/ MadeDir(n, r, q)
               \/ IsDir(r.delta[q]) /\ \A x \in Under(q) : ~Exists(n.delta[x])
  BY DEF Confined
<1>3. branches'[c] = n
  BY DEF Set, IInv, TypeOK
<1> HIDE DEF r
<1>4. IsDeleted(n, q) <=> IsDeleted(r, q)
  <2>1. \A t : q \in Under(t) => t # s /\ t # d
    OBVIOUS
  <2> QED  BY <1>2, <2>1 DEF IsDeleted
<1>5. IsHidden(n, q) <=> IsHidden(r, q)
  BY <1>2 DEF IsHidden
<1>6. CASE n.delta[q] = r.delta[q]
  <2>1. AnswersAlike(n, r, q)
    BY <1>4, <1>5, <1>6 DEF AnswersAlike, Decides
  <2> QED  BY <1>2, <2>1, ViewFrame DEF r
<1>7. CASE q \in Above(s) \cup Above(d) /\ MadeDir(n, r, q)
  <2>1. IsDir(ResolvePath(c, q))
    BY <1>7 DEF Reachable
  <2> QED  BY <1>2, <1>7, <2>1, ViewFrame DEF r
<1>8. CASE /\ q \in Above(s) \cup Above(d)
           /\ IsDir(r.delta[q]) /\ \A x \in Under(q) : ~Exists(n.delta[x])
  BY <1>3, <1>8 DEF Pruned, r
<1> QED  BY <1>2, <1>6, <1>7, <1>8

(***************************************************************************)
(* A file operation changes only the path it is about, in the view of any  *)
(* branch (ensure_delta_path_for_write_locked, prune_empty_delta_parents,  *)
(* remove_tombstone, rename).  The argument: its record changes at and     *)
(* below the path, and above it by directories that copy-up makes or the   *)
(* prune takes.  A directory that copy-up makes is one the branch already  *)
(* showed, since the kernel had walked to the path; and a branch whose     *)
(* lookup comes past this one goes on along this one's own chain, which is *)
(* what the lineage is needed for.                                         *)
(***************************************************************************)
THEOREM OneOperationConfined == Spec => OneOperationOnePath
<1> DEFINE A == \A c \in DOMAIN branches, s \in Path : ops' = ops + 1 =>
                  /\ PathOperation(c, s) => ConfinedTo(c, s, s)
                  /\ \A d \in Path : Rename(c, s, d) => ConfinedTo(c, s, d)
<1>1. Init => IInv /\ TreesOK
  BY InitStep, TreesStart
<1>2. IInv /\ TreesOK /\ [Next]_vars => (IInv /\ TreesOK)'
  BY NextStep, TreesStep
<1>3. IInv /\ TreesOK => A
  <2> SUFFICES ASSUME IInv, TreesOK PROVE A
    OBVIOUS
  <2>1. ASSUME NEW c \in DOMAIN branches, NEW s \in Path, NEW d \in Path,
               (PathOperation(c, s) /\ d = s) \/ Rename(c, s, d)
        PROVE  ConfinedTo(c, s, d)
    <3>1. base' = base
      BY <2>1, FileOperationConfined
    <3>2. PICK n : /\ Set(c, n) /\ Confined(n, branches[c], s, d)
                   /\ Reachable(c, s) /\ Reachable(c, d)
      BY <2>1, FileOperationConfined
    <3>3. ASSUME NEW b \in DOMAIN branches
          PROVE  branches'[b].tomb \ {s, d} = branches[b].tomb \ {s, d}
      BY <3>2, <3>3 DEF Set, Confined, IInv, TypeOK
    <3>4. ASSUME NEW b \in DOMAIN branches, NEW q \in Path \ (Under(s) \cup Under(d))
          PROVE  \/ SameEntry(ResolvePath(b, q)', ResolvePath(b, q))
                 \/ q \in Above(s) \cup Above(d) /\ Pruned(c, q)
      BY <3>1, <3>2, <3>4, ConfinedView
    <3> QED  BY <3>3, <3>4 DEF ConfinedTo
  <2>2. ASSUME NEW c \in DOMAIN branches, NEW s \in Path, PathOperation(c, s)
        PROVE  ConfinedTo(c, s, s)
    BY <2>1, <2>2
  <2>3. ASSUME NEW c \in DOMAIN branches, NEW s \in Path, NEW d \in Path, Rename(c, s, d)
        PROVE  ConfinedTo(c, s, d)
    BY <2>1, <2>3
  <2> QED  BY <2>2, <2>3
<1>4. OneOperationOnePath <=> [][A]_vars
  BY DEF OneOperationOnePath
<1> HIDE DEF A
<1> QED  BY <1>1, <1>2, <1>3, <1>4, PTL DEF Spec

-----------------------------------------------------------------------------
(***************************************************************************)
(* A commit publishes the view of the branch.                              *)
(*                                                                         *)
(* First for records alone: r is the branch, M its parent before and N     *)
(* after the commit, and I what the parent inherits.                       *)
(***************************************************************************)
\* What a branch with record M shows at p when it inherits I.
Shows(M, I, p) == IF Decides(M, p) THEN M.delta[p] ELSE I[p]

\* What a branch with record r shows when its parent's record is M.
ShowsOver(r, M, I, p) == IF Decides(r, p) THEN r.delta[p] ELSE Shows(M, I, p)

\* The entries a branch with record M inherits, as far as it does not hide them.
Uncovered(M, I, p) == IF IsHidden(M, p) THEN Missing ELSE I[p]

\* Where the directory above is missing, so is the entry.
NoOrphans(I) == \A p \in Path : Exists(I[p]) => \A a \in Above(p) : Exists(I[a])

\* The files and links of r are published in N, what r deleted or replaced is
\* gone, directories are made above the files, and others may be pruned.
FilesPublished(r, M, N) ==
    /\ \A f \in DeltaFiles(r) : IsLeaf(N.delta[f])
    /\ \A q \in Path \ DeltaFiles(r) :
         IF \E f \in DeltaFiles(r) : q \in Above(f) THEN IsDir(N.delta[q])
         ELSE IF \E u \in r.tomb \cup DeltaFiles(r) : q \in Under(u)
              THEN ~Exists(N.delta[q])
         ELSE \/ N.delta[q] = M.delta[q]
              \/ IsDir(M.delta[q]) /\ ~Exists(N.delta[q])

\* A tombstone of r is one of N where M inherits something; others stay.
TombsPublished(r, M, N, I) ==
    \A u \in Path \ DeltaFiles(r) :
       IF u \in r.tomb THEN u \in N.tomb \/ ~Exists(Uncovered(M, I, u))
       ELSE u \in N.tomb <=> u \in M.tomb

\* The kind of an entry.
LEMMA EntryKinds ==
    ASSUME NEW e \in Entry
    PROVE  /\ Exists(e) <=> IsDir(e) \/ IsLeaf(e)
           /\ ~(IsDir(e) /\ IsLeaf(e))
<1>1. e.kind \in Kind
  BY DEF Entry
<1> QED  BY <1>1 DEF Exists, IsDir, IsLeaf, Kind

\* What is deleted or hidden at a directory is so below it.
LEMMA DownThePath ==
    ASSUME NEW M \in BranchRecord, NEW p \in Path, NEW a \in Above(p)
    PROVE  /\ a \in Path
           /\ IsDeleted(M, a) => IsDeleted(M, p)
           /\ IsHidden(M, a) => IsHidden(M, p)
           /\ \A u \in Path : a \in Under(u) => p \in Under(u)
<1>1. a \in Path
  BY DEF Above
<1>2. ASSUME NEW u \in Path, a \in Under(u) PROVE p \in Under(u)
  BY <1>1, <1>2, PathOrder
<1>3. M.tomb \subseteq Path /\ M.hide \subseteq Path
  BY FieldType
<1> QED  BY <1>1, <1>2, <1>3 DEF IsDeleted, IsHidden

\* A view has no orphans when what it inherits has none.
LEMMA ShowsNoOrphans ==
    ASSUME NEW M \in BranchRecord, IsTree(M.delta), NEW I \in Tree, NoOrphans(I),
           NEW p \in Path, NEW a \in Above(p), Exists(Shows(M, I, p))
    PROVE  Exists(Shows(M, I, a))
<1>1. /\ a \in Path /\ (IsDeleted(M, a) => IsDeleted(M, p))
      /\ (IsHidden(M, a) => IsHidden(M, p))
  BY DownThePath
<1>2. Exists(M.delta[p]) => Exists(M.delta[a])
  BY <1>1 DEF IsTree, IsDir, Exists
<1>3. Exists(I[p]) => Exists(I[a])
  BY DEF NoOrphans
<1> QED  BY <1>1, <1>2, <1>3 DEF Shows, Decides

\* Beside what r publishes or deletes, the parent's record changes at p by a
\* directory that is pruned, and not in what it deletes.
LEMMA LeftAlone ==
    ASSUME NEW r \in BranchRecord, NEW M \in BranchRecord, NEW N \in BranchRecord,
           NEW I \in Tree,
           N.hide = M.hide, FilesPublished(r, M, N), TombsPublished(r, M, N, I),
           NEW p \in Path, ~IsDeleted(r, p),
           ~ \E f \in DeltaFiles(r) : p \in Under(f) \/ p \in Above(f)
    PROVE  /\ IsDeleted(N, p) <=> IsDeleted(M, p)
           /\ IsHidden(N, p) <=> IsHidden(M, p)
           /\ \/ N.delta[p] = M.delta[p]
              \/ IsDir(M.delta[p]) /\ ~Exists(N.delta[p])
<1>1. /\ M.tomb \subseteq Path /\ N.tomb \subseteq Path /\ r.tomb \subseteq Path
  BY FieldType
<1>2. p \notin DeltaFiles(r)
  BY PathOrder
<1>3. \A u \in r.tomb \cup DeltaFiles(r) : p \notin Under(u)
  BY DEF IsDeleted
<1>4. IsDeleted(N, p) <=> IsDeleted(M, p)
  <2>1. ASSUME NEW u \in Path, p \in Under(u) PROVE u \in N.tomb <=> u \in M.tomb
    BY <1>3, <2>1 DEF TombsPublished
  <2> QED  BY <1>1, <2>1 DEF IsDeleted
<1>5. IsHidden(N, p) <=> IsHidden(M, p)
  BY DEF IsHidden
<1>6. \/ N.delta[p] = M.delta[p]
      \/ IsDir(M.delta[p]) /\ ~Exists(N.delta[p])
  BY <1>2, <1>3 DEF FilesPublished
<1> QED  BY <1>4, <1>5, <1>6

\* No directory of r or M above p, or at p, covers a file.
NothingCovered(r, M, I, p) ==
    \A a \in Above(p) \cup {p} :
       /\ ~(IsDir(r.delta[a]) /\ IsLeaf(IF IsHidden(r, a) THEN Missing ELSE Shows(M, I, a)))
       /\ ~(IsDir(M.delta[a]) /\ IsLeaf(Uncovered(M, I, a)))

\* The records of a commit.
Committing(r, M, N, I) ==
    /\ r \in BranchRecord /\ M \in BranchRecord /\ N \in BranchRecord /\ I \in Tree
    /\ IsTree(r.delta) /\ IsTree(M.delta) /\ IsTree(N.delta) /\ NoOrphans(I)
    /\ N.hide = M.hide
    /\ FilesPublished(r, M, N) /\ TombsPublished(r, M, N, I)

\* A file of the branch's delta is shown by the parent.
LEMMA FilesShown ==
    ASSUME NEW r, NEW M, NEW N, NEW I, Committing(r, M, N, I), NEW p \in DeltaFiles(r)
    PROVE  /\ p \in Path /\ IsLeaf(r.delta[p])
           /\ ShowsOver(r, M, I, p) = r.delta[p]
           /\ \A a \in Above(p) : IsDir(ShowsOver(r, M, I, a))
           /\ Shows(N, I, p) = N.delta[p]
           /\ \A a \in Above(p) : IsDir(Shows(N, I, a))
<1>1. /\ p \in Path /\ IsLeaf(r.delta[p]) /\ IsLeaf(N.delta[p])
      /\ IsTree(r.delta) /\ IsTree(N.delta)
  BY DEF DeltaFiles, Committing, FilesPublished
<1>2. Exists(r.delta[p]) /\ Exists(N.delta[p])
  BY <1>1 DEF IsLeaf, Exists
<1>3. \A a \in Above(p) : IsDir(r.delta[a]) /\ IsDir(N.delta[a])
  BY <1>1, <1>2 DEF IsTree
<1>4. \A a \in Above(p) : Exists(r.delta[a]) /\ Exists(N.delta[a])
  BY <1>3 DEF IsDir, Exists
<1> QED  BY <1>1, <1>2, <1>3, <1>4 DEF Shows, ShowsOver, Decides

\* What the branch shows and inherits, the parent shows after the commit.
LEMMA InheritedKept ==
    ASSUME NEW r, NEW M, NEW N, NEW I, Committing(r, M, N, I),
           NEW p \in Path, p \notin DeltaFiles(r), ~IsHidden(r, p),
           NothingCovered(r, M, I, p),
           \A a \in Above(p) : IsDir(ShowsOver(r, M, I, a)), IsLeaf(ShowsOver(r, M, I, p))
    PROVE  /\ Shows(N, I, p) = ShowsOver(r, M, I, p)
           /\ \A a \in Above(p) : IsDir(Shows(N, I, a))
<1>1. /\ r \in BranchRecord /\ M \in BranchRecord /\ N \in BranchRecord /\ I \in Tree
      /\ IsTree(r.delta) /\ IsTree(M.delta) /\ IsTree(N.delta) /\ NoOrphans(I)
      /\ N.hide = M.hide
      /\ FilesPublished(r, M, N) /\ TombsPublished(r, M, N, I)
      /\ r.delta \in Tree /\ M.delta \in Tree /\ N.delta \in Tree
  BY FieldType DEF Committing
<1>2. ~IsLeaf(r.delta[p])
  BY DEF DeltaFiles
<1>3. /\ ~Decides(r, p) /\ ShowsOver(r, M, I, p) = Shows(M, I, p)
      /\ ~Exists(r.delta[p]) /\ ~IsDeleted(r, p) /\ IsLeaf(Shows(M, I, p))
  BY <1>2 DEF ShowsOver, Decides
<1>4. ASSUME NEW f \in DeltaFiles(r) PROVE p \notin Under(f) /\ p \notin Above(f)
  <2>1. f \in Path /\ IsLeaf(r.delta[f]) /\ Exists(r.delta[f])
    BY <1>4 DEF DeltaFiles, IsLeaf, Exists
  <2>2. f \notin Above(p)
    <3> SUFFICES ASSUME f \in Above(p) PROVE FALSE
      OBVIOUS
    <3>1. ShowsOver(r, M, I, f) = r.delta[f]
      BY <2>1 DEF ShowsOver, Decides
    <3> QED  BY <1>1, <2>1, <3>1, Kinds
  <2>3. p \notin Above(f)
    <3> SUFFICES ASSUME p \in Above(f) PROVE FALSE
      OBVIOUS
    <3>1. IsDir(r.delta[p])
      BY <1>1, <2>1 DEF IsTree
    <3> QED  BY <1>3, <3>1 DEF IsDir, Exists
  <2> QED  BY <2>1, <2>2, <2>3, PathOrder
<1>5. /\ IsDeleted(N, p) <=> IsDeleted(M, p)
      /\ IsHidden(N, p) <=> IsHidden(M, p)
      /\ \/ N.delta[p] = M.delta[p]
         \/ IsDir(M.delta[p]) /\ ~Exists(N.delta[p])
  BY <1>1, <1>3, <1>4, LeftAlone
<1>6. N.delta[p] = M.delta[p]
  <2> SUFFICES ASSUME IsDir(M.delta[p]) PROVE FALSE
    BY <1>5
  <2>1. Shows(M, I, p) = M.delta[p]
    BY DEF Shows, Decides, IsDir, Exists
  <2> QED  BY <1>1, <1>3, <2>1, Kinds
<1>7. Shows(N, I, p) = Shows(M, I, p)
  BY <1>5, <1>6 DEF Shows, Decides
<1>8. Exists(Shows(M, I, p))
  BY <1>3 DEF IsLeaf, Exists
<1>9. ASSUME NEW a \in Above(p) PROVE IsDir(Shows(N, I, a))
  <2>1. /\ a \in Path /\ IsDir(ShowsOver(r, M, I, a))
        /\ ~IsHidden(r, a) /\ ~IsDeleted(r, a)
        /\ (IsDeleted(M, a) => IsDeleted(M, p)) /\ (IsHidden(M, a) => IsHidden(M, p))
        /\ \A u \in Path : a \in Under(u) => p \in Under(u)
    BY <1>1, <1>3, <1>9, DownThePath
  <2>2. \A f \in DeltaFiles(r) : f \in Path /\ a \notin Under(f)
    BY <1>4, <2>1 DEF DeltaFiles
  <2>3. a \notin DeltaFiles(r)
    BY <2>1, <2>2, PathOrder
  <2>4. CASE \E f \in DeltaFiles(r) : a \in Above(f)
    <3>1. IsDir(N.delta[a])
      BY <1>1, <2>1, <2>3, <2>4 DEF FilesPublished
    <3> QED  BY <3>1 DEF Shows, Decides, IsDir, Exists
  <2>5. CASE ~ \E f \in DeltaFiles(r) : a \in Above(f)
    <3>1. /\ IsDeleted(N, a) <=> IsDeleted(M, a)
          /\ IsHidden(N, a) <=> IsHidden(M, a)
          /\ \/ N.delta[a] = M.delta[a]
             \/ IsDir(M.delta[a]) /\ ~Exists(N.delta[a])
      BY <1>1, <2>1, <2>2, <2>5, LeftAlone
    <3>2. Exists(Shows(M, I, a))
      BY <1>1, <1>8, ShowsNoOrphans
    <3>3. Shows(M, I, a) \in Entry /\ I[a] \in Entry
      BY <1>1, <2>1 DEF Shows, Tree
    <3>4. IsDir(Shows(M, I, a))
      <4>1. CASE Decides(r, a)
        <5>1. IsDir(r.delta[a])
          BY <2>1, <4>1 DEF ShowsOver
        <5>2. ~IsLeaf(Shows(M, I, a))
          BY <2>1, <5>1 DEF NothingCovered
        <5> QED  BY <3>2, <3>3, <5>2, EntryKinds
      <4>2. CASE ~Decides(r, a)
        BY <2>1, <4>2 DEF ShowsOver
      <4> QED  BY <4>1, <4>2
    <3>5. CASE N.delta[a] = M.delta[a]
      BY <3>1, <3>4, <3>5 DEF Shows, Decides
    <3>6. CASE IsDir(M.delta[a]) /\ ~Exists(N.delta[a])
      <4>1. ~Exists(N.delta[p])
        BY <1>1, <3>6 DEF IsTree, IsDir, Exists
      <4>2. ~Decides(M, p) /\ Exists(I[p])
        BY <1>6, <1>8, <4>1 DEF Shows
      <4>3. ~IsDeleted(M, a) /\ ~IsHidden(M, a) /\ Exists(I[a])
        BY <1>1, <2>1, <4>2 DEF Decides, NoOrphans
      <4>4. Shows(N, I, a) = I[a]
        BY <3>1, <3>6, <4>3 DEF Shows, Decides
      <4>5. ~IsLeaf(I[a])
        BY <3>6, <4>3 DEF NothingCovered, Uncovered
      <4> QED  BY <3>3, <4>3, <4>4, <4>5, EntryKinds
    <3> QED  BY <3>1, <3>5, <3>6
  <2> QED  BY <2>4, <2>5
<1> QED  BY <1>3, <1>7, <1>9

\* What the parent shows after the commit, and the branch did not publish, the
\* branch showed.
LEMMA NothingAdded ==
    ASSUME NEW r, NEW M, NEW N, NEW I, Committing(r, M, N, I),
           NEW p \in Path, p \notin DeltaFiles(r), ~IsHidden(r, p),
           NothingCovered(r, M, I, p),
           \A a \in Above(p) : IsDir(Shows(N, I, a)), IsLeaf(Shows(N, I, p))
    PROVE  /\ IsLeaf(ShowsOver(r, M, I, p))
           /\ \A a \in Above(p) : IsDir(ShowsOver(r, M, I, a))
<1>1. /\ r \in BranchRecord /\ M \in BranchRecord /\ N \in BranchRecord /\ I \in Tree
      /\ IsTree(r.delta) /\ IsTree(M.delta) /\ IsTree(N.delta) /\ NoOrphans(I)
      /\ N.hide = M.hide
      /\ FilesPublished(r, M, N) /\ TombsPublished(r, M, N, I)
      /\ r.delta \in Tree /\ M.delta \in Tree /\ N.delta \in Tree /\ r.tomb \subseteq Path
  BY FieldType DEF Committing
<1>2. ASSUME NEW f \in DeltaFiles(r) PROVE f \in Path /\ p \notin Under(f) /\ p \notin Above(f)
  <2>1. f \in Path /\ IsLeaf(N.delta[f])
    BY <1>1, <1>2 DEF DeltaFiles, FilesPublished
  <2>2. f \notin Above(p)
    <3> SUFFICES ASSUME f \in Above(p) PROVE FALSE
      OBVIOUS
    <3>1. Shows(N, I, f) = N.delta[f]
      BY <2>1 DEF Shows, Decides, IsLeaf, Exists
    <3> QED  BY <1>1, <2>1, <3>1, Kinds
  <2>3. p \notin Above(f)
    <3> SUFFICES ASSUME p \in Above(f) PROVE FALSE
      OBVIOUS
    <3>1. IsDir(N.delta[p])
      BY <1>1, <1>2 DEF FilesPublished
    <3>2. Shows(N, I, p) = N.delta[p]
      BY <3>1 DEF Shows, Decides, IsDir, Exists
    <3> QED  BY <1>1, <3>1, <3>2, Kinds
  <2> QED  BY <2>1, <2>2, <2>3, PathOrder
<1>3. Exists(Shows(N, I, p))
  BY DEF IsLeaf, Exists
<1>4. ~IsDeleted(r, p)
  <2> SUFFICES ASSUME NEW u \in r.tomb, p \in Under(u) PROVE FALSE
    BY DEF IsDeleted
  <2>1. u \in Path /\ u \notin DeltaFiles(r)
    BY <1>1, <1>2
  <2>2. ~Exists(N.delta[p])
    BY <1>1, <1>2 DEF FilesPublished
  <2>3. ~IsDeleted(N, p) /\ ~IsHidden(N, p) /\ Exists(I[p])
    BY <1>3, <2>2 DEF Shows, Decides
  <2>4. u \notin N.tomb
    BY <2>3 DEF IsDeleted
  <2>5. ~Exists(Uncovered(M, I, u))
    BY <1>1, <2>1, <2>4 DEF TombsPublished
  <2>6. u = p \/ u \in Above(p)
    BY <2>1, PathOrder
  <2>7. ~IsHidden(M, u)
    <3>1. ~IsHidden(M, p)
      BY <1>1, <2>3 DEF IsHidden
    <3> QED  BY <1>1, <2>6, <3>1, DownThePath
  <2>8. Exists(I[u])
    BY <1>1, <2>3, <2>6 DEF NoOrphans
  <2> QED  BY <2>5, <2>7, <2>8 DEF Uncovered
<1>5. /\ IsDeleted(N, p) <=> IsDeleted(M, p)
      /\ IsHidden(N, p) <=> IsHidden(M, p)
      /\ \/ N.delta[p] = M.delta[p]
         \/ IsDir(M.delta[p]) /\ ~Exists(N.delta[p])
  BY <1>1, <1>2, <1>4, LeftAlone
<1>6. N.delta[p] = M.delta[p]
  <2> SUFFICES ASSUME IsDir(M.delta[p]), ~Exists(N.delta[p]) PROVE FALSE
    BY <1>5
  <2>1. ~IsHidden(M, p) /\ IsLeaf(I[p])
    BY <1>3, <1>5 DEF Shows, Decides
  <2> QED  BY <2>1 DEF NothingCovered, Uncovered
<1>7. Shows(N, I, p) = Shows(M, I, p)
  BY <1>5, <1>6 DEF Shows, Decides
<1>8. ~Decides(r, p)
  <2>1. ~IsLeaf(r.delta[p])
    BY DEF DeltaFiles
  <2>2. ~IsDir(r.delta[p])
    BY <1>7 DEF NothingCovered
  <2>3. ~Exists(r.delta[p])
    BY <1>1, <2>1, <2>2, Kinds
  <2> QED  BY <1>4, <2>3 DEF Decides
<1>9. IsLeaf(ShowsOver(r, M, I, p))
  BY <1>7, <1>8 DEF ShowsOver
<1>10. ASSUME NEW a \in Above(p) PROVE IsDir(ShowsOver(r, M, I, a))
  <2>1. /\ a \in Path /\ IsDir(Shows(N, I, a)) /\ ~IsHidden(r, a) /\ ~IsDeleted(r, a)
        /\ \A u \in Path : a \in Under(u) => p \in Under(u)
    BY <1>1, <1>4, <1>10, DownThePath
  <2>2. \A f \in DeltaFiles(r) : f \in Path /\ a \notin Under(f)
    BY <1>2, <2>1
  <2>3. a \notin DeltaFiles(r)
    BY <2>1, <2>2, PathOrder
  <2>4. CASE Exists(r.delta[a])
    <3>1. IsDir(r.delta[a])
      BY <1>1, <2>1, <2>3, <2>4, Kinds DEF DeltaFiles
    <3> QED  BY <2>4, <3>1 DEF ShowsOver, Decides
  <2>5. CASE ~Exists(r.delta[a])
    <3>1. ~Decides(r, a)
      BY <2>1, <2>5 DEF Decides
    <3>2. ASSUME NEW f \in DeltaFiles(r) PROVE a \notin Above(f)
      <4> SUFFICES ASSUME a \in Above(f) PROVE FALSE
        OBVIOUS
      <4>1. f \in Path /\ Exists(r.delta[f])
        BY <3>2 DEF DeltaFiles, IsLeaf, Exists
      <4> QED  BY <1>1, <2>5, <4>1 DEF IsTree, IsDir, Exists
    <3>3. /\ IsDeleted(N, a) <=> IsDeleted(M, a)
          /\ IsHidden(N, a) <=> IsHidden(M, a)
          /\ \/ N.delta[a] = M.delta[a]
             \/ IsDir(M.delta[a]) /\ ~Exists(N.delta[a])
      BY <1>1, <2>1, <2>2, <3>2, LeftAlone
    <3>4. IsDir(Shows(M, I, a))
      BY <2>1, <3>3 DEF Shows, Decides, IsDir, Exists
    <3> QED  BY <3>1, <3>4 DEF ShowsOver
  <2> QED  BY <2>4, <2>5
<1> QED  BY <1>9, <1>10

\* After a commit the parent shows the files and links that the branch showed,
\* and no other, as far as no directory covers a file.
LEMMA RecordsPublish ==
    ASSUME NEW r, NEW M, NEW N, NEW I, Committing(r, M, N, I),
           NEW p \in Path, ~IsHidden(r, p),
           p \in DeltaFiles(r) \/ NothingCovered(r, M, I, p)
    PROVE  IF IsLeaf(ShowsOver(r, M, I, p)) /\ \A a \in Above(p) : IsDir(ShowsOver(r, M, I, a))
           THEN /\ IsLeaf(Shows(N, I, p)) /\ \A a \in Above(p) : IsDir(Shows(N, I, a))
                /\ \/ Shows(N, I, p) = ShowsOver(r, M, I, p)
                   \/ /\ p \in DeltaFiles(r) /\ ShowsOver(r, M, I, p) = r.delta[p]
                      /\ Shows(N, I, p) = N.delta[p]
           ELSE ~(IsLeaf(Shows(N, I, p)) /\ \A a \in Above(p) : IsDir(Shows(N, I, a)))
<1>1. CASE p \in DeltaFiles(r)
  <2>1. IsLeaf(N.delta[p])
    BY <1>1 DEF Committing, FilesPublished
  <2> QED  BY <1>1, <2>1, FilesShown
<1>2. CASE p \notin DeltaFiles(r)
  <2>1. NothingCovered(r, M, I, p)
    BY <1>2
  <2>2. CASE IsLeaf(ShowsOver(r, M, I, p)) /\ \A a \in Above(p) : IsDir(ShowsOver(r, M, I, a))
    <3>1. /\ Shows(N, I, p) = ShowsOver(r, M, I, p)
          /\ \A a \in Above(p) : IsDir(Shows(N, I, a))
      BY <1>2, <2>1, <2>2, InheritedKept
    <3> QED  BY <2>2, <3>1
  <2>3. CASE ~(IsLeaf(ShowsOver(r, M, I, p)) /\ \A a \in Above(p) : IsDir(ShowsOver(r, M, I, a)))
    <3>1. ~(IsLeaf(Shows(N, I, p)) /\ \A a \in Above(p) : IsDir(Shows(N, I, a)))
      BY <1>2, <2>1, <2>3, NothingAdded
    <3> QED  BY <2>3, <3>1
  <2> QED  BY <2>2, <2>3
<1> QED  BY <1>1, <1>2

\* A lookup that finds an entry finds one at every directory above it.
LEMMA AlongNoOrphans ==
    ASSUME TypeOK, TreesOK, NEW x, Live(x), NEW p \in Path, NEW a \in Above(p),
           Exists(ResolveAlong(x, p))
    PROVE  Exists(ResolveAlong(x, a))
<1>1. /\ Len(x) \in Nat /\ Len(x) \in 1..Len(x) /\ a \in Path
      /\ \A j \in 1..Len(x) : x[j] \in DOMAIN branches
  BY DEF Live, Above
<1>2. ASSUME NEW j \in 1..Len(x)
      PROVE  /\ IsDeleted(branches[x[j]], a) => Decides(branches[x[j]], p)
             /\ IsHidden(branches[x[j]], a) => Decides(branches[x[j]], p)
             /\ Exists(branches[x[j]].delta[p]) => Exists(branches[x[j]].delta[a])
  <2>1. branches[x[j]] \in BranchRecord /\ IsTree(branches[x[j]].delta)
    BY <1>1, <1>2, RecordType DEF TreesOK
  <2>2. Exists(branches[x[j]].delta[p]) => Exists(branches[x[j]].delta[a])
    BY <2>1 DEF IsTree, IsDir, Exists
  <2> QED  BY <2>1, <2>2, DownThePath DEF Decides
<1>3. ASSUME NEW i \in 1..Len(x), FirstDecider(x, p, i)
      PROVE  Exists(branches[x[i]].delta[p])
  BY <1>1, <1>3, FirstAnswers
<1>4. ASSUME ~ \E i \in 1..Len(x) : FirstDecider(x, p, i)
      PROVE  /\ Exists(Underlay(x)[a])
             /\ \A j \in 1..Len(x) : ~Decides(branches[x[j]], p)
  <2>1. Exists(Underlay(x)[p])
    BY <1>4 DEF ResolveAlong
  <2>2. IsTree(Underlay(x))
    BY <1>1 DEF Underlay, TreesOK
  <2>3. \A j \in 1..Len(x) : ~Decides(branches[x[j]], p)
    BY <1>1, <1>4, NobodyDecides
  <2> QED  BY <2>1, <2>2, <2>3 DEF IsTree, IsDir, Exists
<1>5. CASE \E j \in 1..Len(x) : FirstDecider(x, a, j)
  <2>1. PICK j \in 1..Len(x) : FirstDecider(x, a, j)
    BY <1>5
  <2>2. ResolveAlong(x, a) = branches[x[j]].delta[a]
    BY <1>1, <2>1, FirstAnswers
  <2>3. SUFFICES ASSUME ~Exists(branches[x[j]].delta[a]) PROVE FALSE
    BY <2>2
  <2>4. Decides(branches[x[j]], p) /\ ~Exists(branches[x[j]].delta[p])
    BY <1>2, <2>1, <2>3 DEF FirstDecider, Decides
  <2>5. PICK i \in 1..Len(x) : FirstDecider(x, p, i)
    BY <1>4, <2>4
  <2>6. Exists(branches[x[i]].delta[a])
    BY <1>2, <1>3, <2>5
  <2>7. ~(i < j)
    <3> SUFFICES ASSUME i < j PROVE FALSE
      OBVIOUS
    <3>1. i \in 1..(j - 1)
      BY <1>1
    <3> QED  BY <2>1, <2>6, <3>1 DEF FirstDecider, Decides
  <2>8. ~(j < i)
    <3> SUFFICES ASSUME j < i PROVE FALSE
      OBVIOUS
    <3>1. j \in 1..(i - 1)
      BY <1>1
    <3> QED  BY <2>4, <2>5, <3>1 DEF FirstDecider
  <2>9. i = j
    BY <2>7, <2>8
  <2> QED  BY <2>3, <2>6, <2>9
<1>6. CASE ~ \E j \in 1..Len(x) : FirstDecider(x, a, j)
  <2>1. ResolveAlong(x, a) = Underlay(x)[a]
    BY <1>6 DEF ResolveAlong
  <2>2. \A j \in 1..Len(x) : ~Decides(branches[x[j]], a)
    BY <1>1, <1>6, NobodyDecides
  <2>3. ~ \E i \in 1..Len(x) : FirstDecider(x, p, i)
    <3> SUFFICES ASSUME NEW i \in 1..Len(x), FirstDecider(x, p, i) PROVE FALSE
      OBVIOUS
    <3>1. Exists(branches[x[i]].delta[a])
      BY <1>2, <1>3
    <3> QED  BY <2>2, <3>1 DEF Decides
  <2> QED  BY <1>4, <2>1, <2>3
<1> QED  BY <1>5, <1>6

\* Nor is what a branch inherits without the directories above it.
LEMMA InheritedNoOrphans ==
    ASSUME TypeOK, LineageOK, TreesOK, NEW m \in DOMAIN branches, NEW p \in Path,
           NEW a \in Above(p), Exists(InheritedPath(m, p))
    PROVE  Exists(InheritedPath(m, a))
<1> DEFINE ch == branches[m].chain
<1>1. Live(ch)
  BY ChainLive
<1>2. CASE Len(ch) = 1
  <2>1. /\ InheritedPath(m, p) = Underlay(ch)[p] /\ InheritedPath(m, a) = Underlay(ch)[a]
        /\ ch[Len(ch)] \in DOMAIN branches
    BY <1>1, <1>2 DEF InheritedPath, Live
  <2>2. IsTree(Underlay(ch))
    BY <2>1 DEF Underlay, TreesOK
  <2> QED  BY <2>1, <2>2 DEF IsTree, IsDir, Exists
<1>3. CASE Len(ch) # 1
  <2>1. Live(Tail(ch))
    BY <1>1, <1>3, TailLive
  <2>2. /\ InheritedPath(m, p) = ResolveAlong(Tail(ch), p)
        /\ InheritedPath(m, a) = ResolveAlong(Tail(ch), a)
    BY <1>3 DEF InheritedPath
  <2> HIDE DEF ch
  <2> QED  BY <2>1, <2>2, AlongNoOrphans
<1> QED  BY <1>2, <1>3

\* What a lazy branch inherits is what its parent shows.
LEMMA LazyInherits ==
    ASSUME TypeOK, LineageOK, NEW b \in DOMAIN branches, b # Main,
           branches[b].mode = "lazy", NEW p \in Path
    PROVE  InheritedPath(b, p) = ResolvePath(branches[b].parent, p)
<1> DEFINE ch == branches[b].chain
           m == branches[b].parent
           x == branches[m].chain
<1>1. /\ ch \in Seq(Branch) /\ Len(ch) \in Nat /\ Len(ch) > 0 /\ ch[1] = b
      /\ \A i \in 1..(Len(ch) - 1) : branches[ch[i]].parent = ch[i + 1]
      /\ branches[ch[Len(ch)]].mode = LastMode(ch[Len(ch)])
  BY RecordType, FieldType DEF LineageOK, ChainOK
<1>2. Len(ch) # 1
  BY <1>1 DEF LastMode
<1>3. 1 \in 1..(Len(ch) - 1) /\ 2 \in 1..Len(ch)
  <2>1. \A n \in Nat : n > 0 /\ n # 1 => 1 \in 1..(n - 1) /\ 2 \in 1..n
    OBVIOUS
  <2> QED  BY <1>1, <1>2, <2>1
<1>4. ch[2] = m
  <2>1. branches[ch[1]].parent = ch[1 + 1]
    BY <1>1, <1>3
  <2> QED  BY <1>1, <2>1
<1>5. Len(x) = Len(ch) - 2 + 1 /\ \A i \in 1..Len(x) : x[i] = ch[2 + i - 1]
  BY <1>3, <1>4, ChainGoesOn
<1>6. m \in DOMAIN branches
  BY DEF LineageOK, ParentOK
<1>7. x \in Seq(Branch)
  BY <1>6, RecordType, FieldType
<1>8. InheritedPath(b, p) = ResolveAlong(Tail(ch), p)
  BY <1>2 DEF InheritedPath
<1> HIDE DEF ch, x
<1>9. /\ Tail(ch) \in Seq(Branch) /\ Len(Tail(ch)) = Len(ch) - 1
      /\ \A i \in 1..Len(Tail(ch)) : Tail(ch)[i] = ch[i + 1]
  <2>1. ch # <<>>
    BY <1>1
  <2> QED  BY <1>1, <2>1, HeadTailProperties
<1>10. Len(Tail(ch)) = Len(x)
  BY <1>1, <1>5, <1>9
<1>11. \A i \in 1..Len(x) : Tail(ch)[i] = x[i]
  <2> TAKE i \in 1..Len(x)
  <2>1. 2 + i - 1 = i + 1
    BY <1>7
  <2> QED  BY <1>5, <1>9, <1>10, <2>1
<1>12. Tail(ch) = x
  BY <1>7, <1>9, <1>10, <1>11, SeqEqual
<1> QED  BY <1>8, <1>12 DEF ResolvePath, x

\* prune_empty_delta_parents takes directories only.
LEMMA PruneTakesDirs ==
    ASSUME NEW t \in Tree, IsTree(t), NEW touched, NEW starts, NEW q \in Path
    PROVE  \/ Prune(t, touched, starts)[q] = t[q]
           \/ IsDir(t[q]) /\ ~Exists(Prune(t, touched, starts)[q])
<1> DEFINE cand == {a \in Path : \E s \in starts \cap Path : Exists(t[s]) /\ s \in Under(a)}
           gone(a) == \A x \in Under(a) : Exists(t[x]) => x \in cand \ touched /\ IsDir(t[x])
           n == Prune(t, touched, starts)
<1>1. n[q] = IF q \in cand /\ gone(q) THEN Missing ELSE t[q]
  BY DEF Prune
<1> HIDE DEF n
<1>2. SUFFICES ASSUME q \in cand, gone(q) PROVE IsDir(t[q])
  BY <1>1 DEF n, Missing, Exists
<1>3. PICK s \in starts \cap Path : Exists(t[s]) /\ s \in Under(q)
  BY <1>2
<1>4. s = q \/ q \in Above(s)
  BY <1>3, PathOrder
<1>5. Exists(t[q])
  BY <1>3, <1>4 DEF IsTree, IsDir, Exists
<1>6. q \in Under(q)
  BY PathOrder
<1> QED  BY <1>2, <1>5, <1>6

\* What is copied to the destination is a file or link.
LEMMA SourceIsLeaf ==
    ASSUME NEW b, NEW p \in DeltaFiles(branches[b])
    PROVE  IsLeaf(MergeSource(b, p))
BY DEF MergeSource, DeltaFiles, File, IsLeaf

\* What StagedMerge publishes, and what the prune may take of it.
LEMMA FilesArePublished ==
    ASSUME IInv, TreesOK, NEW b \in DOMAIN branches, NEW M, NEW N,
           M.delta \in Tree, IsTree(M.delta), ~StageFails(b, M.delta),
           N.delta \in Tree, IsTree(N.delta),
           \A q \in Path :
              \/ N.delta[q] = Published(b, M.delta)[q]
              \/ IsDir(Published(b, M.delta)[q]) /\ ~Exists(N.delta[q])
    PROVE  /\ FilesPublished(branches[b], M, N)
           /\ \A f \in DeltaFiles(branches[b]) : N.delta[f] = MergeSource(b, f)
<1> DEFINE r == branches[b]
           files == DeltaFiles(r)
           cut == RemoveTree(M.delta, r.tomb \cup files)
           pub == Published(b, M.delta)
<1>1. r \in BranchRecord /\ files \subseteq Path /\ TreeRecord(r)
  BY RecordType, TreesOfBranch DEF IInv, DeltaFiles
<1>2. pub \in Tree /\ IsTree(pub)
  BY PublishedType, PublishedIsTree, TreesOfBranch DEF IInv
<1>3. \A q \in Path : pub[q] = IF q \in files THEN MergeSource(b, q)
                               ELSE IF ~Exists(cut[q]) /\ \E f \in files : q \in Above(f)
                               THEN Dir ELSE cut[q]
  BY DEF Published, MkParents
<1>4. \A q \in Path : cut[q] = IF \E u \in r.tomb \cup files : q \in Under(u)
                               THEN Missing ELSE M.delta[q]
  BY DEF RemoveTree
<1>5. \A q \in Path : \/ N.delta[q] = pub[q]
                      \/ IsDir(pub[q]) /\ ~Exists(N.delta[q])
  OBVIOUS
<1> HIDE DEF pub, cut
<1>6. ASSUME NEW f \in files PROVE N.delta[f] = MergeSource(b, f) /\ IsLeaf(N.delta[f])
  <2>1. f \in Path /\ pub[f] = MergeSource(b, f) /\ IsLeaf(pub[f])
    BY <1>1, <1>3, <1>6, SourceIsLeaf
  <2> QED  BY <1>2, <1>5, <2>1, Kinds
<1>7. ASSUME NEW q \in Path \ files
      PROVE  IF \E f \in files : q \in Above(f) THEN IsDir(N.delta[q])
             ELSE IF \E u \in r.tomb \cup files : q \in Under(u)
                  THEN ~Exists(N.delta[q])
             ELSE \/ N.delta[q] = M.delta[q]
                  \/ IsDir(M.delta[q]) /\ ~Exists(N.delta[q])
  <2>1. CASE \E f \in files : q \in Above(f)
    <3>1. PICK f \in files : q \in Above(f)
      BY <2>1
    <3>2. f \in Path /\ Exists(N.delta[f])
      BY <1>1, <1>6, <3>1, Kinds
    <3>3. IsDir(N.delta[q])
      BY <3>1, <3>2 DEF IsTree
    <3> QED  BY <2>1, <3>3
  <2>2. CASE ~ \E f \in files : q \in Above(f)
    <3>1. pub[q] = cut[q]
      BY <1>3, <2>2
    <3>2. ~Exists(Missing) /\ ~IsDir(Missing)
      BY DEF Exists, IsDir, Missing
    <3> QED  BY <1>4, <1>5, <2>2, <3>1, <3>2
  <2> QED  BY <2>1, <2>2
<1> QED  BY <1>6, <1>7 DEF FilesPublished

\* Main keeps no files of its own when no program writes to it: commits to it
\* go to the base directory.
MainClean == /\ branches[Main].delta = EmptyTree
             /\ branches[Main].tomb = {} /\ branches[Main].hide = {}

LEMMA MainCleanStart == Init => MainClean
BY DEF Init, MainClean, NewBranch

LEMMA MainCleanStep ==
    ASSUME Main \notin Agents, IInv, MainClean, [Next]_vars
    PROVE  MainClean'
<1>1. /\ branches[Main] \in BranchRecord /\ Main \in DOMAIN branches
      /\ branches \in [DOMAIN branches -> BranchRecord]
  BY RecordType DEF IInv, TypeOK
<1>2. SUFFICES branches'[Main].delta = EmptyTree /\ branches'[Main].tomb = {}
               /\ branches'[Main].hide = {}
  BY DEF MainClean
<1>3. ASSUME NEW c \in DOMAIN branches, c # Main, NEW r, Set(c, r)
      PROVE  branches'[Main] = branches[Main]
  BY <1>1, <1>3 DEF Set
<1>4. ASSUME NEW c \in DOMAIN branches \cap Agents, NEW p \in Path, FileOperation(c, p)
      PROVE  branches'[Main] = branches[Main]
  <2>1. c # Main
    BY <1>4
  <2>2. \E r : Set(c, r)
    BY <1>4 DEF FileOperation, PathOperation,
                WriteData, NoSpace, CreateFile, MakeDir, MakeSymlink,
                Truncate, ChangeAttr, Unlink, RemoveDir, Rename, FileOp
  <2> QED  BY <1>3, <2>1, <2>2
<1>5. ASSUME NEW c \in DOMAIN branches, NEW p \in Path, RevertPath(c, p)
      PROVE  MainClean'
  <2>1. CASE c = Main
    <3>1. branches'[Main] = RevertRecord(branches[Main], p)
      BY <1>1, <1>5, <2>1 DEF RevertPath, Set
    <3>2. ~Exists(branches[Main].delta[p])
      BY DEF MainClean, EmptyTree, Exists, Missing
    <3> QED  BY <1>1, <3>1, <3>2 DEF MainClean, RevertRecord, BranchRecord
  <2>2. CASE c # Main
    BY <1>3, <1>5, <2>2 DEF RevertPath, MainClean
  <2> QED  BY <2>1, <2>2
<1>6. ASSUME NEW c \in DOMAIN branches, NEW frozen \in BOOLEAN, SetState(c, frozen)
      PROVE  branches'[Main] = branches[Main]
  BY <1>3, <1>6 DEF SetState
<1>7. ASSUME NEW c \in DOMAIN branches, CommitToBase(c)
      PROVE  MainClean'
  <2> DEFINE S == DeltaFiles(branches[c]) \cup branches[c].tomb
  <2>1. /\ c # Main
        /\ branches' = [Without(c) EXCEPT ![Main].delta = RemoveTree(@, S),
                                          ![Main].commits = @ + 1]
    BY <1>7 DEF CommitToBase
  <2>2. RemoveTree(EmptyTree, S) = EmptyTree
    BY DEF RemoveTree, EmptyTree
  <2> HIDE DEF S
  <2>3. /\ branches'[Main].delta = RemoveTree(branches[Main].delta, S)
        /\ branches'[Main].tomb = branches[Main].tomb
        /\ branches'[Main].hide = branches[Main].hide
    BY <1>1, <2>1 DEF Without, BranchRecord
  <2> QED  BY <2>2, <2>3 DEF MainClean
<1>8. ASSUME NEW c \in DOMAIN branches, NestedCommit(c)
      PROVE  branches'[Main] = branches[Main]
  <2> DEFINE m == branches[c].parent
  <2>1. /\ c # Main /\ m # Main
        /\ \E n : branches' = [Without(c) EXCEPT ![m] = n]
    <3>1. c # Main /\ m # Main
      BY <1>8 DEF NestedCommit
    <3>2. \E t, D, k : branches' = [Without(c) EXCEPT ![m].delta = t, ![m].tomb = D,
                                                     ![m].commits = k]
      BY <1>8 DEF NestedCommit
    <3> QED  BY <3>1, <3>2, ZenonT(40)
  <2> HIDE DEF m
  <2> QED  BY <1>1, <2>1 DEF Without
<1>9. ASSUME NEW c \in DOMAIN branches, FailedCommit(c)
      PROVE  branches'[Main] = branches[Main]
  BY <1>1, <1>9 DEF FailedCommit
<1>10. ASSUME NEW c \in DOMAIN branches, AbortBranch(c)
      PROVE  branches'[Main] = branches[Main]
  BY <1>1, <1>10 DEF AbortBranch, Without
<1>11. ASSUME NEW c \in Branch, NEW parent \in DOMAIN branches, NEW mode \in Mode,
              NEW hide \in HideSets, CreateBranch(c, parent, mode, hide)
      PROVE  branches'[Main] = branches[Main]
  BY <1>1, <1>11 DEF CreateBranch
<1>12. CASE UNCHANGED vars
  BY <1>12 DEF vars, MainClean
<1> QED  BY <1>4, <1>5, <1>6, <1>7, <1>8, <1>9, <1>10, <1>11, <1>12 DEF Next, MainClean

\* What a commit of b into m owes at path p.
ViewPublished(b, m, p) ==
    IF Visible(b, p) /\ IsLeaf(ResolvePath(b, p))
    THEN /\ Visible(m, p)'
         /\ \/ ResolvePath(m, p)' = ResolvePath(b, p)
            \/ p \in report'.merges
    ELSE ~(Visible(m, p)' /\ IsLeaf(ResolvePath(m, p)'))

\* The same entry, or nothing in both.
Alike(e, f) == e = f \/ (~Exists(e) /\ ~Exists(f))

\* The views of a branch and its parent, when they are those of the records.
LEMMA ViewsPublish ==
    ASSUME NEW b, NEW m, NEW r, NEW M, NEW N, NEW I, Committing(r, M, N, I),
           \A q \in Path : /\ Alike(ResolvePath(b, q), ShowsOver(r, M, I, q))
                           /\ Alike(ResolvePath(m, q)', Shows(N, I, q)),
           \A f \in DeltaFiles(r) : N.delta[f] = r.delta[f] \/ f \in report'.merges,
           NEW p \in Path, ~IsHidden(r, p),
           p \in DeltaFiles(r) \/ NothingCovered(r, M, I, p)
    PROVE  ViewPublished(b, m, p)
<1> DEFINE X == IsLeaf(ShowsOver(r, M, I, p)) /\ \A a \in Above(p) : IsDir(ShowsOver(r, M, I, a))
           Y == IsLeaf(Shows(N, I, p)) /\ \A a \in Above(p) : IsDir(Shows(N, I, a))
<1>1. IF X THEN /\ Y
                /\ \/ Shows(N, I, p) = ShowsOver(r, M, I, p)
                   \/ /\ p \in DeltaFiles(r) /\ ShowsOver(r, M, I, p) = r.delta[p]
                      /\ Shows(N, I, p) = N.delta[p]
      ELSE ~Y
  BY RecordsPublish
<1>2. \A a \in Above(p) : a \in Path
  BY DEF Above
<1>3. ASSUME NEW e, NEW f, Alike(e, f)
      PROVE  (IsLeaf(e) <=> IsLeaf(f)) /\ (IsDir(e) <=> IsDir(f)) /\ (IsLeaf(e) => e = f)
  BY <1>3 DEF Alike, IsLeaf, IsDir, Exists
<1>4. \A q \in Path : /\ IsLeaf(ResolvePath(b, q)) <=> IsLeaf(ShowsOver(r, M, I, q))
                      /\ IsDir(ResolvePath(b, q)) <=> IsDir(ShowsOver(r, M, I, q))
                      /\ IsLeaf(ResolvePath(b, q)) => ResolvePath(b, q) = ShowsOver(r, M, I, q)
  BY <1>3
<1>5. \A q \in Path : /\ IsLeaf(ResolvePath(m, q)') <=> IsLeaf(Shows(N, I, q))
                      /\ IsDir(ResolvePath(m, q)') <=> IsDir(Shows(N, I, q))
                      /\ IsLeaf(ResolvePath(m, q)') => ResolvePath(m, q)' = Shows(N, I, q)
  BY <1>3
<1>6. X <=> Visible(b, p) /\ IsLeaf(ResolvePath(b, p))
  BY <1>2, <1>4 DEF Visible, Reachable, IsLeaf, Exists
<1>7. Y <=> Visible(m, p)' /\ IsLeaf(ResolvePath(m, p)')
  BY <1>2, <1>5 DEF Visible, Reachable, IsLeaf, Exists
<1>8. CASE X
  <2>1. Y /\ Visible(m, p)'
    BY <1>1, <1>7, <1>8
  <2>2. ResolvePath(b, p) = ShowsOver(r, M, I, p) /\ ResolvePath(m, p)' = Shows(N, I, p)
    BY <1>4, <1>5, <1>8, <2>1
  <2>3. Shows(N, I, p) = ShowsOver(r, M, I, p) \/ p \in report'.merges
    BY <1>1, <1>8
  <2> QED  BY <1>6, <1>8, <2>1, <2>2, <2>3 DEF ViewPublished
<1>9. CASE ~X
  BY <1>1, <1>6, <1>7, <1>9 DEF ViewPublished
<1> QED  BY <1>8, <1>9

\* A file that is not merged is published as it is in the delta.
LEMMA PublishedAsIs ==
    ASSUME NEW b, NEW f, report' = CommitReport(b)
    PROVE  MergeSource(b, f) = branches[b].delta[f] \/ f \in report'.merges
BY DEF CommitReport, MergeSource

\* A branch's parent is another branch of the table, and older.
LEMMA ParentElsewhere ==
    ASSUME IInv, NEW b \in DOMAIN branches, b # Main
    PROVE  /\ branches[b].parent \in DOMAIN branches /\ branches[b].parent # b
           /\ branches[branches[b].parent].sess < branches[b].sess
<1>1. branches[b].parent \in DOMAIN branches /\ branches[branches[b].parent].sess < branches[b].sess
  BY DEF IInv, LineageOK, ParentOK
<1>2. branches[b].sess \in 0..MaxEpoch
  BY RecordType, FieldType DEF IInv
<1> QED  BY <1>1, <1>2

\* What the parent inherits is not changed by the commit of a child.
LEMMA InheritedKeptByCommit ==
    ASSUME IInv, NEW b \in DOMAIN branches, b # Main, NEW m, m = branches[b].parent,
           m # Main, NEW n, n.chain = branches[m].chain, n.inh = branches[m].inh,
           branches' = [c \in DOMAIN branches \ {b} |-> IF c = m THEN n ELSE branches[c]],
           base' = base, NEW p \in Path
    PROVE  InheritedPath(m, p)' = InheritedPath(m, p)
<1> DEFINE ch == branches[m].chain
           tl == Tail(ch)
<1>1. m \in DOMAIN branches /\ m # b /\ branches[m].sess < branches[b].sess
  BY ParentElsewhere
<1>2. ch \in Seq(Branch) /\ Len(ch) \in Nat /\ Len(ch) > 0 /\ ch[1] = m
      /\ \A i \in 1..Len(ch) : ch[i] \in DOMAIN branches
  BY <1>1, RecordType, FieldType DEF IInv, LineageOK, ChainOK
<1>3. branches'[m].chain = ch /\ branches'[m].inh = branches[m].inh
  BY <1>1
<1>4. CASE Len(ch) = 1
  <2>1. InheritedPath(m, p) = (IF m = Main THEN base ELSE branches[m].inh)[p]
    BY <1>2, <1>4, SMTT(30) DEF InheritedPath, Underlay
  <2>2. InheritedPath(m, p)' = (IF m = Main THEN base' ELSE branches'[m].inh)[p]
    BY <1>2, <1>3, <1>4 DEF InheritedPath, Underlay
  <2> QED  BY <1>3, <2>1, <2>2
<1>5. CASE Len(ch) # 1
  <2>1. InheritedPath(m, p) = ResolveAlong(tl, p)
    BY <1>5 DEF InheritedPath
  <2>2. ASSUME NEW x, x = tl PROVE InheritedPath(m, p)' = ResolveAlong(x, p)'
    BY <1>3, <1>5, <2>2 DEF InheritedPath
  <2>3. ch # <<>>
    BY <1>2
  <2>4. /\ tl \in Seq(Branch) /\ Len(tl) = Len(ch) - 1
        /\ \A i \in 1..Len(tl) : tl[i] = ch[i + 1]
    BY <1>2, <2>3, HeadTailProperties
  <2>5. ASSUME NEW i \in 1..Len(tl) PROVE branches'[tl[i]] = branches[tl[i]]
    <3>1. i + 1 \in 2..Len(ch) /\ i + 1 \in 1..Len(ch)
      BY <1>2, <2>4, <2>5
    <3>2. branches[ch[i + 1]].sess < branches[m].sess
      BY <1>1, <3>1, ChainDescends DEF IInv
    <3>3. branches[b].sess \in Nat /\ branches[m].sess \in Nat /\ branches[ch[i + 1]].sess \in Nat
      BY <1>1, <1>2, <3>1, RecordType, FieldType DEF IInv
    <3>4. ch[i + 1] # m /\ ch[i + 1] # b
      BY <1>1, <3>2, <3>3
    <3> HIDE DEF ch
    <3> QED  BY <1>2, <2>4, <2>5, <3>1, <3>4
  <2>6. PICK x : x = tl
    OBVIOUS
  <2> HIDE DEF tl, ch
  <2>7. \A i \in 1..Len(x) : branches'[x[i]] = branches[x[i]]
    BY <2>5, <2>6
  <2>8. Len(x) \in Nat /\ Len(x) > 0
    BY <1>2, <1>5, <2>4, <2>6
  <2>9. ResolveAlong(x, p)' = ResolveAlong(x, p)
    BY <2>7, <2>8, AlongFrame
  <2> QED  BY <2>1, <2>2, <2>6, <2>9
<1> QED  BY <1>4, <1>5

\* The parent's record after the commit of b into it.
Received(b, m) ==
    [branches[m] EXCEPT
        !.delta = Prune(Published(b, branches[m].delta),
                        {q \in Path : branches[m].touch[q].made},
                        {ParentDir(p) : p \in {q \in branches[b].tomb :
                                                 Exists(branches[m].delta[q])}}),
        !.tomb = MergedTombstones(b, m),
        !.commits = @ + 1]

\* A commit into a parent branch, as a step of the table.
LEMMA NestedReceived ==
    ASSUME IInv, NEW b \in DOMAIN branches, NestedCommit(b), NEW m, m = branches[b].parent
    PROVE  branches' = [c \in DOMAIN branches \ {b} |->
                          IF c = m THEN Received(b, m) ELSE branches[c]]
<1> DEFINE starts == {ParentDir(p) :
                        p \in {q \in branches[b].tomb : Exists(branches[m].delta[q])}}
           touched == {q \in Path : branches[m].touch[q].made}
           D == MergedTombstones(b, m)
<1>1. m \in DOMAIN branches /\ m # b
  BY ParentElsewhere DEF NestedCommit
<1>2. branches \in [DOMAIN branches -> BranchRecord]
  BY SMTT(30) DEF IInv, TypeOK
<1>3. branches' = [Without(b) EXCEPT ![m].delta = Prune(Published(b, @), touched, starts),
                                     ![m].tomb = D, ![m].commits = @ + 1]
  BY DEF NestedCommit
<1>4. Received(b, m) = [branches[m] EXCEPT
                          !.delta = Prune(Published(b, branches[m].delta), touched, starts),
                          !.tomb = D, !.commits = @ + 1]
  BY DEF Received
<1> HIDE DEF touched, starts, D
<1>5. Without(b) = [c \in DOMAIN branches \ {b} |-> branches[c]]
  BY DEF Without
<1> QED  BY <1>1, <1>2, <1>3, <1>4, <1>5, ZenonT(40)

\* The records of that commit.
LEMMA NestedRecords ==
    ASSUME IInv, TreesOK, NEW b \in DOMAIN branches, NestedCommit(b),
           NEW m, m = branches[b].parent, NEW I, I = [q \in Path |-> InheritedPath(m, q)]
    PROVE  /\ Committing(branches[b], branches[m], Received(b, m), I)
           /\ \A f \in DeltaFiles(branches[b]) : Received(b, m).delta[f] = MergeSource(b, f)
           /\ Received(b, m).chain = branches[m].chain
           /\ Received(b, m).inh = branches[m].inh
<1> DEFINE r == branches[b]
           M == branches[m]
           N == Received(b, m)
           starts == {ParentDir(p) : p \in {q \in r.tomb : Exists(M.delta[q])}}
           touched == {q \in Path : M.touch[q].made}
           pub == Published(b, M.delta)
           t == Prune(pub, touched, starts)
           D == MergedTombstones(b, m)
<1>1. b # Main /\ m # Main /\ ~StageFails(b, M.delta)
  BY DEF NestedCommit
<1>2. m \in DOMAIN branches
  BY <1>1, ParentElsewhere
<1>3. /\ r \in BranchRecord /\ M \in BranchRecord /\ M.delta \in Tree
      /\ IsTree(r.delta) /\ IsTree(M.delta) /\ M.tomb \subseteq Path /\ r.tomb \subseteq Path
  BY <1>2, RecordType, FieldType DEF IInv, TreesOK
<1>4. pub \in Tree /\ IsTree(pub)
  BY <1>1, <1>3, PublishedType, PublishedIsTree, TreesOfBranch DEF IInv
<1>5. N = [M EXCEPT !.delta = t, !.tomb = D, !.commits = @ + 1]
  BY DEF Received
<1>6. D = ((M.tomb \ r.tomb) \cup {p \in r.tomb : Exists(InheritedForTouch(m, p))})
            \ DeltaFiles(r)
  BY DEF MergedTombstones
<1>7. /\ t \in Tree /\ IsTree(t)
      /\ \A q \in Path : t[q] = pub[q] \/ (IsDir(pub[q]) /\ ~Exists(t[q]))
  <2> HIDE DEF pub, touched, starts
  <2> QED  BY <1>4, PruneType, PruneIsTree, PruneTakesDirs
<1> HIDE DEF N, t, D, touched, starts
<1>8. D \in SUBSET Path
  BY <1>3, <1>6
<1>9. N \in BranchRecord
  BY <1>3, <1>5, <1>7, <1>8, CommittedInto
<1>10. /\ N.delta = t /\ N.tomb = D /\ N.hide = M.hide
       /\ N.chain = M.chain /\ N.inh = M.inh
  BY <1>3, <1>5 DEF BranchRecord
<1>11. /\ FilesPublished(r, M, N)
       /\ \A f \in DeltaFiles(r) : N.delta[f] = MergeSource(b, f)
  <2>1. PICK x, y : x = M /\ y = N
    OBVIOUS
  <2>2. /\ x.delta \in Tree /\ IsTree(x.delta) /\ ~StageFails(b, x.delta)
        /\ y.delta \in Tree /\ IsTree(y.delta)
        /\ \A q \in Path : \/ y.delta[q] = Published(b, x.delta)[q]
                           \/ IsDir(Published(b, x.delta)[q]) /\ ~Exists(y.delta[q])
    BY <1>1, <1>3, <1>7, <1>10, <2>1
  <2>3. /\ FilesPublished(branches[b], x, y)
        /\ \A f \in DeltaFiles(branches[b]) : y.delta[f] = MergeSource(b, f)
    BY <2>2, FilesArePublished
  <2> QED  BY <2>1, <2>3
<1>12. I \in Tree /\ NoOrphans(I)
  <2>1. \A q \in Path : InheritedPath(m, q) \in Entry
    BY <1>2, InheritedType DEF IInv
  <2>2. \A q \in Path : I[q] = InheritedPath(m, q)
    OBVIOUS
  <2>3. I \in Tree
    <3>1. [q \in Path |-> InheritedPath(m, q)] \in Tree
      BY <2>1 DEF Tree
    <3> QED  BY <3>1
  <2>4. ASSUME NEW q \in Path, Exists(I[q]), NEW a \in Above(q) PROVE Exists(I[a])
    <3>1. a \in Path
      BY DEF Above
    <3> QED  BY <1>2, <2>2, <2>4, <3>1, InheritedNoOrphans DEF IInv
  <2> QED  BY <2>3, <2>4 DEF NoOrphans
<1>13. TombsPublished(r, M, N, I)
  <2>1. \A u \in Path : InheritedForTouch(m, u) = Uncovered(M, I, u)
    BY DEF InheritedForTouch, Uncovered
  <2> HIDE DEF r, M
  <2>2. ASSUME NEW u \in Path, u \notin DeltaFiles(r)
        PROVE  IF u \in r.tomb THEN u \in N.tomb \/ ~Exists(Uncovered(M, I, u))
               ELSE u \in N.tomb <=> u \in M.tomb
    BY <1>6, <1>10, <2>1, <2>2
  <2> QED  BY <2>2 DEF TombsPublished
<1>14. Committing(r, M, N, I)
  BY <1>3, <1>7, <1>9, <1>10, <1>11, <1>12, <1>13 DEF Committing
<1> QED  BY <1>10, <1>11, <1>14, SMTT(30) DEF N

\* A commit into a parent branch publishes the view of the branch.
LEMMA NestedPublishes ==
    ASSUME IInv, TreesOK, ResolveUnfold, ResolveUnfold',
           NEW b \in DOMAIN branches, NestedCommit(b), branches[b].mode = "lazy",
           NEW m, m = branches[b].parent,
           NEW p \in Path, ~IsHidden(branches[b], p),
           \/ p \in DeltaFiles(branches[b])
           \/ \A a \in Above(p) \cup {p} : ~Covers(b, a) /\ ~Covers(m, a)
    PROVE  ViewPublished(b, m, p)
<1>1. PICK r, M, N, I : /\ r = branches[b] /\ M = branches[m] /\ N = Received(b, m)
                        /\ I = [q \in Path |-> InheritedPath(m, q)]
  OBVIOUS
<1>2. b # Main /\ m # Main /\ base' = base /\ report' = CommitReport(b)
  BY DEF NestedCommit
<1>3. m \in DOMAIN branches /\ m # b
  BY <1>2, ParentElsewhere
<1>4. /\ Committing(r, M, N, I) /\ N.chain = M.chain /\ N.inh = M.inh
      /\ \A f \in DeltaFiles(r) : N.delta[f] = MergeSource(b, f)
  BY <1>1, NestedRecords
<1>5. branches' = [c \in DOMAIN branches \ {b} |-> IF c = m THEN N ELSE branches[c]]
  BY <1>1, NestedReceived
<1>6. \A q \in Path : I[q] = InheritedPath(m, q)
  BY <1>1
<1>7. ASSUME NEW q \in Path
      PROVE  /\ ResolvePath(m, q) = Shows(M, I, q)
             /\ ResolvePath(b, q) = ShowsOver(r, M, I, q)
             /\ InheritedPath(b, q) = Shows(M, I, q)
  <2>1. ResolvePath(m, q) = Shows(M, I, q)
    BY <1>1, <1>3, <1>6, <1>7 DEF ResolveUnfold, Shows
  <2>2. InheritedPath(b, q) = ResolvePath(m, q)
    BY <1>2, <1>7, LazyInherits DEF IInv
  <2>3. ResolvePath(b, q) = IF Decides(r, q) THEN r.delta[q] ELSE InheritedPath(b, q)
    BY <1>1, <1>7 DEF ResolveUnfold
  <2> QED  BY <2>1, <2>2, <2>3 DEF ShowsOver
<1>8. ASSUME NEW q \in Path PROVE ResolvePath(m, q)' = Shows(N, I, q)
  <2>1. InheritedPath(m, q)' = I[q]
    BY <1>1, <1>2, <1>4, <1>5, <1>6, <1>8, InheritedKeptByCommit
  <2>2. m \in DOMAIN branches' /\ branches'[m] = N
    BY <1>3, <1>5
  <2>3. ResolvePath(m, q)' = IF Decides(N, q) THEN N.delta[q] ELSE InheritedPath(m, q)'
    BY <1>8, <2>2 DEF ResolveUnfold
  <2> QED  BY <2>1, <2>3 DEF Shows
<1>9. \A f \in DeltaFiles(r) : N.delta[f] = r.delta[f] \/ f \in report'.merges
  BY <1>1, <1>2, <1>4, PublishedAsIs
<1>10. p \in DeltaFiles(r) \/ NothingCovered(r, M, I, p)
  <2> SUFFICES ASSUME \A a \in Above(p) \cup {p} : ~Covers(b, a) /\ ~Covers(m, a)
               PROVE  NothingCovered(r, M, I, p)
    BY <1>1
  <2> SUFFICES ASSUME NEW a \in Above(p) \cup {p}
               PROVE  /\ ~(IsDir(r.delta[a]) /\
                             IsLeaf(IF IsHidden(r, a) THEN Missing ELSE Shows(M, I, a)))
                      /\ ~(IsDir(M.delta[a]) /\ IsLeaf(Uncovered(M, I, a)))
    BY DEF NothingCovered
  <2>1. a \in Path /\ ~Covers(b, a) /\ ~Covers(m, a)
    BY DEF Above
  <2>2. InheritedForTouch(b, a) = IF IsHidden(r, a) THEN Missing ELSE Shows(M, I, a)
    BY <1>1, <1>7, <2>1 DEF InheritedForTouch
  <2>3. InheritedForTouch(m, a) = Uncovered(M, I, a)
    BY <1>1, <1>6, <2>1 DEF InheritedForTouch, Uncovered
  <2> QED  BY <1>1, <2>1, <2>2, <2>3 DEF Covers
<1>11. \A q \in Path : /\ Alike(ResolvePath(b, q), ShowsOver(r, M, I, q))
                       /\ Alike(ResolvePath(m, q)', Shows(N, I, q))
  BY <1>7, <1>8 DEF Alike
<1> QED  BY <1>1, <1>4, <1>9, <1>10, <1>11, ViewsPublish

\* Main shows the base directory.
MainShows == \A p \in Path : ResolvePath(Main, p) = base[p]

LEMMA MainShowsBase == IInv /\ MainClean => MainShows
<1> SUFFICES ASSUME IInv, MainClean, NEW p \in Path PROVE ResolvePath(Main, p) = base[p]
  BY DEF MainShows
<1> DEFINE ch == branches[Main].chain
<1>1. Main \in DOMAIN branches
  BY DEF IInv, TypeOK
<1>2. /\ Len(ch) \in Nat /\ Len(ch) > 0 /\ ch[1] = Main
      /\ \A i \in 1..(Len(ch) - 1) : ch[i] # Main
  BY <1>1, RecordType, FieldType DEF IInv, LineageOK, ChainOK
<1>3. Len(ch) = 1
  <2>1. \A n \in Nat : n > 0 /\ n # 1 => 1 \in 1..(n - 1)
    OBVIOUS
  <2> QED  BY <1>2, <2>1
<1>4. InheritedPath(Main, p) = base[p]
  BY <1>2, <1>3 DEF InheritedPath, Underlay
<1>5. ~Decides(branches[Main], p)
  BY DEF MainClean, Decides, EmptyTree, Exists, Missing, IsDeleted, IsHidden
<1> QED  BY <1>1, <1>4, <1>5, ResolveUnfolds DEF IInv

\* The records of a commit to the base directory, as if main kept it.
LEMMA BaseRecords ==
    ASSUME IInv, TreesOK, MainClean, IInv', TreesOK', MainClean',
           NEW b \in DOMAIN branches, CommitToBase(b), NEW M, NEW N,
           M = [branches[Main] EXCEPT !.delta = base],
           N = [branches'[Main] EXCEPT !.delta = base']
    PROVE  /\ Committing(branches[b], M, N, EmptyTree)
           /\ \A f \in DeltaFiles(branches[b]) : N.delta[f] = MergeSource(b, f)
           /\ M.delta = base /\ M.tomb = {} /\ M.hide = {}
           /\ N.delta = base' /\ N.tomb = {} /\ N.hide = {}
<1>1. base' = Published(b, base) /\ ~StageFails(b, base)
  BY DEF CommitToBase
<1>2. /\ branches[Main] \in BranchRecord /\ branches'[Main] \in BranchRecord
      /\ branches[b] \in BranchRecord
      /\ base \in Tree /\ base' \in Tree
  BY DEF IInv, TypeOK
<1>3. IsTree(base) /\ IsTree(base') /\ IsTree(branches[b].delta)
  BY DEF TreesOK
<1>4. /\ M.delta = base /\ M.tomb = {} /\ M.hide = {}
      /\ N.delta = base' /\ N.tomb = {} /\ N.hide = {}
  BY <1>2 DEF MainClean, BranchRecord
<1>5. M \in BranchRecord /\ N \in BranchRecord
  BY <1>2 DEF BranchRecord
<1>6. /\ FilesPublished(branches[b], M, N)
      /\ \A f \in DeltaFiles(branches[b]) : N.delta[f] = MergeSource(b, f)
  <2>1. \A q \in Path : N.delta[q] = Published(b, M.delta)[q]
    BY <1>1, <1>4
  <2>2. /\ M.delta \in Tree /\ IsTree(M.delta) /\ ~StageFails(b, M.delta)
        /\ N.delta \in Tree /\ IsTree(N.delta)
    BY <1>1, <1>2, <1>3, <1>4
  <2>3. \A q \in Path : \/ N.delta[q] = Published(b, M.delta)[q]
                        \/ IsDir(Published(b, M.delta)[q]) /\ ~Exists(N.delta[q])
    BY <2>1
  <2> QED  BY ONLY IInv, TreesOK, b \in DOMAIN branches, <2>2, <2>3, FilesArePublished
<1>7. \A p \in Path : ~Exists(EmptyTree[p]) /\ ~Exists(Missing)
  BY DEF EmptyTree, Exists, Missing
<1>8. EmptyTree \in Tree /\ NoOrphans(EmptyTree)
  BY <1>7, EntryType DEF EmptyTree, Tree, NoOrphans
<1>9. TombsPublished(branches[b], M, N, EmptyTree)
  BY <1>4, <1>7 DEF TombsPublished, Uncovered
<1> QED  BY <1>2, <1>3, <1>4, <1>5, <1>6, <1>8, <1>9 DEF Committing

\* A commit to the base directory publishes the view of the branch.
LEMMA BasePublishes ==
    ASSUME IInv, TreesOK, MainClean, IInv', TreesOK', MainClean',
           ResolveUnfold, MainShows, MainShows',
           NEW b \in DOMAIN branches, CommitToBase(b), branches[b].mode = "lazy",
           NEW p \in Path, ~IsHidden(branches[b], p),
           \/ p \in DeltaFiles(branches[b])
           \/ \A a \in Above(p) \cup {p} : ~Covers(b, a) /\ ~Covers(Main, a)
    PROVE  ViewPublished(b, Main, p)
<1>1. PICK r, M, N : /\ r = branches[b]
                     /\ M = [branches[Main] EXCEPT !.delta = base]
                     /\ N = [branches'[Main] EXCEPT !.delta = base']
  OBVIOUS
<1>2. b # Main /\ branches[b].parent = Main /\ report' = CommitReport(b)
  BY DEF CommitToBase
<1>3. /\ Committing(r, M, N, EmptyTree)
      /\ \A f \in DeltaFiles(r) : N.delta[f] = MergeSource(b, f)
      /\ M.delta = base /\ M.tomb = {} /\ M.hide = {}
      /\ N.delta = base' /\ N.tomb = {} /\ N.hide = {}
  BY <1>1, BaseRecords
<1>4. \A q \in Path : ~Exists(EmptyTree[q]) /\ ~IsLeaf(EmptyTree[q])
  BY DEF EmptyTree, Exists, IsLeaf, Missing
<1>5. ASSUME NEW q \in Path
      PROVE  /\ Alike(Shows(M, EmptyTree, q), base[q])
             /\ Alike(Shows(N, EmptyTree, q), base'[q])
             /\ ~IsHidden(M, q)
  BY <1>3, <1>4 DEF Shows, Decides, IsDeleted, IsHidden, Alike
<1>6. ASSUME NEW q \in Path
      PROVE  /\ InheritedPath(b, q) = base[q]
             /\ Alike(ResolvePath(b, q), ShowsOver(r, M, EmptyTree, q))
             /\ Alike(ResolvePath(Main, q)', Shows(N, EmptyTree, q))
  <2>1. InheritedPath(b, q) = base[q]
    BY <1>2, LazyInherits DEF IInv, MainShows
  <2>2. ResolvePath(b, q) = IF Decides(r, q) THEN r.delta[q] ELSE base[q]
    BY <1>1, <2>1 DEF ResolveUnfold
  <2>3. ResolvePath(Main, q)' = base'[q]
    BY DEF MainShows
  <2> QED  BY <1>5, <2>1, <2>2, <2>3 DEF ShowsOver, Alike
<1>7. \A f \in DeltaFiles(r) : N.delta[f] = r.delta[f] \/ f \in report'.merges
  BY <1>1, <1>2, <1>3, PublishedAsIs
<1>8. p \in DeltaFiles(r) \/ NothingCovered(r, M, EmptyTree, p)
  <2> SUFFICES ASSUME \A a \in Above(p) \cup {p} : ~Covers(b, a)
               PROVE  NothingCovered(r, M, EmptyTree, p)
    BY <1>1
  <2> SUFFICES ASSUME NEW a \in Above(p) \cup {p}
               PROVE  /\ ~(IsDir(r.delta[a]) /\
                             IsLeaf(IF IsHidden(r, a) THEN Missing
                                    ELSE Shows(M, EmptyTree, a)))
                      /\ ~(IsDir(M.delta[a]) /\ IsLeaf(Uncovered(M, EmptyTree, a)))
    BY DEF NothingCovered
  <2>1. a \in Path /\ ~Covers(b, a)
    BY DEF Above
  <2>2. InheritedForTouch(b, a) = IF IsHidden(r, a) THEN Missing ELSE base[a]
    BY <1>1, <1>6, <2>1 DEF InheritedForTouch
  <2>3. IsLeaf(Shows(M, EmptyTree, a)) => IsLeaf(base[a])
    BY <1>5, <2>1 DEF Alike, IsLeaf, Exists
  <2>4. ~IsLeaf(Uncovered(M, EmptyTree, a))
    BY <1>4, <2>1 DEF Uncovered, IsLeaf, Missing
  <2> QED  BY <1>1, <2>1, <2>2, <2>3, <2>4 DEF Covers
<1> QED  BY <1>1, <1>3, <1>6, <1>7, <1>8, ViewsPublish

\* Only a commit takes its branch out of the table and reports it.
LEMMA OnlyCommits ==
    ASSUME [Next]_vars, NEW b, Commits(b)
    PROVE  CommitToBase(b) \/ NestedCommit(b)
<1>1. b \in DOMAIN branches /\ b \notin DOMAIN branches' /\ report'.status = "committed"
  BY DEF Commits
<1>2. ASSUME NEW c \in DOMAIN branches, NEW q \in Path, FileOperation(c, q) PROVE FALSE
  <2>1. \E r : Set(c, r)
    BY <1>2 DEF FileOperation, PathOperation,
                WriteData, NoSpace, CreateFile, MakeDir, MakeSymlink,
                Truncate, ChangeAttr, Unlink, RemoveDir, Rename, FileOp
  <2> QED  BY <1>1, <2>1 DEF Set
<1>3. ASSUME NEW c \in DOMAIN branches, NEW q \in Path, RevertPath(c, q) PROVE FALSE
  BY <1>1, <1>3 DEF RevertPath, Set
<1>4. ASSUME NEW c \in DOMAIN branches, NEW frozen, SetState(c, frozen) PROVE FALSE
  BY <1>1, <1>4 DEF SetState, Set
<1>5. ASSUME NEW c \in DOMAIN branches, CommitToBase(c) PROVE c = b
  BY <1>1, <1>5, SMTT(30) DEF CommitToBase, Without
<1>6. ASSUME NEW c \in DOMAIN branches, NestedCommit(c) PROVE c = b
  BY <1>1, <1>6 DEF NestedCommit, Without
<1>7. ASSUME NEW c \in DOMAIN branches, FailedCommit(c) \/ AbortBranch(c) PROVE FALSE
  BY <1>1, <1>7 DEF FailedCommit, AbortBranch, Ended
<1>8. ASSUME NEW c, NEW parent, NEW mode, NEW hide, CreateBranch(c, parent, mode, hide)
      PROVE  FALSE
  BY <1>1, <1>8 DEF CreateBranch
<1>9. CASE UNCHANGED vars
  BY <1>1, <1>9 DEF vars
<1> QED  BY <1>2, <1>3, <1>4, <1>5, <1>6, <1>7, <1>8, <1>9 DEF Next

(***************************************************************************)
(* The commit of a lazy branch publishes its view: the parent, or the base *)
(* directory, then shows the files and links that the branch showed,       *)
(* merged where the report says so, and no other (commit_with_report,      *)
(* StagedMerge, the parent's tombstones and prune_empty_delta_parents).    *)
(* It is stated of systems in which no program writes to main itself, so   *)
(* that the base directory is what main shows.  The argument: StagedMerge  *)
(* puts the branch's files over what the parent has, a tombstone of the    *)
(* branch is handed on exactly where the parent would otherwise show what  *)
(* it inherits, and the parent inherits the same before and after, because *)
(* neither branch is further up its own chain.  That a deleted directory   *)
(* takes what is below it along needs that the deltas are trees, and that  *)
(* no lookup finds an entry without the directories above it.              *)
(***************************************************************************)
THEOREM CommitPublishes == Main \notin Agents => (Spec => CommitPublishesView)
<1> SUFFICES ASSUME Main \notin Agents PROVE Spec => CommitPublishesView
  OBVIOUS
<1> DEFINE Asked(b, m, p) ==
             /\ Commits(b) /\ m = branches[b].parent
             /\ branches[b].mode = "lazy" /\ ~IsHidden(branches[b], p)
             /\ \/ p \in DeltaFiles(branches[b])
                \/ \A a \in Above(p) \cup {p} : ~Covers(b, a) /\ ~Covers(m, a)
           A == \A b \in Branch, m \in Branch, p \in Path :
                  Asked(b, m, p) => ViewPublished(b, m, p)
           J == IInv /\ TreesOK /\ MainClean
           K == ResolveUnfold /\ MainShows
<1>1. Init => J
  BY InitStep, TreesStart, MainCleanStart
<1>2. J /\ [Next]_vars => J'
  BY NextStep, TreesStep, MainCleanStep
<1>3. J => K
  <2>1. IInv => ResolveUnfold
    BY ResolveUnfolds DEF IInv, ResolveUnfold
  <2> QED  BY <2>1, MainShowsBase
<1>4. J /\ K /\ J' /\ K' /\ [Next]_vars => A
  <2> SUFFICES ASSUME J, K, J', K', [Next]_vars,
                      NEW b \in Branch, NEW m \in Branch, NEW p \in Path, Asked(b, m, p)
               PROVE  ViewPublished(b, m, p)
    OBVIOUS
  <2>1. b \in DOMAIN branches /\ b \notin DOMAIN branches' /\ report'.status = "committed"
    BY DEF Commits
  <2>2. CommitToBase(b) \/ NestedCommit(b)
    BY OnlyCommits
  <2>3. CASE CommitToBase(b)
    <3>1. m = Main
      BY <2>3 DEF CommitToBase
    <3> QED  BY <2>1, <2>3, <3>1, BasePublishes
  <2>4. CASE NestedCommit(b)
    BY <2>1, <2>4, NestedPublishes
  <2> QED  BY <2>2, <2>3, <2>4
<1>5. CommitPublishesView <=> [][A]_vars
  BY DEF CommitPublishesView, ViewPublished
<1> HIDE DEF A, J, K
<1> QED  BY <1>1, <1>2, <1>3, <1>4, <1>5, PTL DEF Spec

-----------------------------------------------------------------------------
(***************************************************************************)
(* No overwrite goes unreported.                                           *)
(***************************************************************************)
\* n is a record that a step may leave in place of r, where V is what the
\* branch inherits: what it touches for the first time is recorded as in V.
Recorded(n, r, V) ==
    /\ n.parent = r.parent /\ n.chain = r.chain /\ n.forkver = r.forkver
    /\ n.commits = r.commits /\ n.hide = r.hide /\ n.inh = r.inh
    /\ \A q \in Path : n.touch[q].made => \/ n.touch[q] = r.touch[q]
                                          \/ n.touch[q].id = V[q]

LEMMA RecordedTwice ==
    ASSUME NEW n, NEW k, NEW r, NEW V, Recorded(n, k, V), Recorded(k, r, V)
    PROVE  Recorded(n, r, V)
BY DEF Recorded

\* Copy-up, and what is put at the copied path; deletes and reverts.
LEMMA CopyRecorded ==
    ASSUME NEW r \in BranchRecord, NEW p \in Path, NEW src \in Entry, NEW V, src = V[p]
    PROVE  /\ Recorded(EnsureDelta(r, p, src), r, V)
           /\ \A e : Recorded([EnsureDelta(r, p, src) EXCEPT !.delta[p] = e], r, V)
           /\ \A i : Recorded(WriteLine(r, p, src, i), r, V)
           /\ Recorded(DropPath(r, p, src), r, V)
           /\ Recorded(RevertRecord(r, p), r, V)
           /\ Recorded([r EXCEPT !.touch = RecordFirstTouch(@, p, src, TRUE)], r, V)
<1> DEFINE k == EnsureDelta(r, p, src)
           t == RecordFirstTouch(r.touch, p, src, TRUE)
           u == RecordFirstTouch(r.touch, p, src, FALSE)
<1>a. r.touch \in [Path -> TouchRecord]
  BY FieldType
<1>t. \A q \in Path : t[q] = r.touch[q] \/ t[q].id = V[q]
  BY <1>a DEF RecordFirstTouch, Touch
<1>u. \A q \in Path : u[q] = r.touch[q] \/ u[q].id = V[q]
  BY <1>a DEF RecordFirstTouch, Touch
<1>1. \A q \in Path : /\ (t[q] = r.touch[q] \/ t[q].id = V[q])
                      /\ (u[q] = r.touch[q] \/ u[q].id = V[q])
  <2> HIDE DEF t, u
  <2> QED  BY <1>t, <1>u
<1>2. /\ k.parent = r.parent /\ k.chain = r.chain /\ k.forkver = r.forkver
      /\ k.commits = r.commits /\ k.hide = r.hide /\ k.inh = r.inh
      /\ k.touch = r.touch \/ k.touch = t
  BY DEF EnsureDelta, BranchRecord
<1>3. Recorded(DropPath(r, p, src), r, V)
  <2> DEFINE n == DropPath(r, p, src)
  <2>1. /\ n.parent = r.parent /\ n.chain = r.chain /\ n.forkver = r.forkver
        /\ n.commits = r.commits /\ n.hide = r.hide /\ n.inh = r.inh
        /\ n.touch = u
    BY DEF DropPath, BranchRecord
  <2> HIDE DEF n, u
  <2> QED  BY <1>1, <2>1 DEF Recorded, n
<1>4. Recorded(RevertRecord(r, p), r, V)
  <2> DEFINE n == RevertRecord(r, p)
  <2>1. /\ n.parent = r.parent /\ n.chain = r.chain /\ n.forkver = r.forkver
        /\ n.commits = r.commits /\ n.hide = r.hide /\ n.inh = r.inh
        /\ n.touch = [q \in Path |-> IF q \in Under(p) THEN NoTouch ELSE r.touch[q]]
    BY DEF RevertRecord, BranchRecord
  <2>2. ~NoTouch.made
    BY DEF NoTouch
  <2> HIDE DEF n
  <2> QED  BY <2>1, <2>2 DEF Recorded, n
<1>5. Recorded([r EXCEPT !.touch = t], r, V)
  <2> HIDE DEF t
  <2> QED  BY <1>1 DEF Recorded, BranchRecord
<1>6. k \in BranchRecord
  BY EnsureDeltaType DEF Follows
<1> HIDE DEF k, t
<1>7. Recorded(k, r, V)
  BY <1>1, <1>2 DEF Recorded
<1>8. \A e : Recorded([k EXCEPT !.delta[p] = e], k, V)
  BY <1>6 DEF Recorded, BranchRecord
<1>9. \A i : Recorded(WriteLine(r, p, src, i), k, V)
  BY <1>6 DEF Recorded, BranchRecord, WriteLine, k
<1> QED  BY <1>3, <1>4, <1>5, <1>7, <1>8, <1>9, RecordedTwice DEF k, t

\* Rename copies both of its paths up.
LEMMA RenameRecorded ==
    ASSUME NEW r \in BranchRecord, NEW s \in Path, NEW d \in Path,
           NEW srcS \in Entry, NEW srcD \in Entry, NEW V, srcS = V[s], srcD = V[d]
    PROVE  Recorded(RenameRecord(r, s, d, srcS, srcD), r, V)
<1> DEFINE r1 == EnsureDelta(r, s, srcS)
           r2 == RenameCopied(r, s, d, srcS, srcD)
           n == RenameRecord(r, s, d, srcS, srcD)
<1>1. r1 \in BranchRecord /\ Recorded(r1, r, V)
  BY EnsureDeltaType, CopyRecorded DEF Follows
<1>2. Recorded(r2, r1, V)
  <2> HIDE DEF r1
  <2> QED  BY <1>1, CopyRecorded DEF RenameCopied, r1
<1>3. r2 \in BranchRecord
  BY RenameCopiedType DEF Follows
<1> HIDE DEF r1, r2
<1>4. /\ n.parent = r2.parent /\ n.chain = r2.chain /\ n.forkver = r2.forkver
      /\ n.commits = r2.commits /\ n.hide = r2.hide /\ n.inh = r2.inh
      /\ n.touch = r2.touch
  BY <1>3 DEF RenameRecord, BranchRecord, r2
<1> HIDE DEF n
<1>5. Recorded(n, r2, V)
  BY <1>4 DEF Recorded
<1> QED  BY <1>1, <1>2, <1>5, RecordedTwice DEF n

\* Every file operation, and a revert.
LEMMA FileOperationRecorded ==
    ASSUME IInv, NEW b \in DOMAIN branches, NEW p \in Path,
           FileOperation(b, p) \/ RevertPath(b, p),
           NEW V, V = [q \in Path |-> InheritedForTouch(b, q)]
    PROVE  base' = base /\ \E n : Set(b, n) /\ Recorded(n, branches[b], V)
<1> DEFINE src == InheritedForTouch(b, p)
           r == branches[b]
           G == base' = base /\ \E n : Set(b, n) /\ Recorded(n, r, V)
<1>1. src \in Entry /\ r \in BranchRecord
  BY InheritedType, RecordType DEF IInv
<1>2. src = V[p]
  OBVIOUS
<1>3. ASSUME NEW n, NEW status, FileOp(b, n, status), Recorded(n, r, V) PROVE G
  BY <1>3 DEF FileOp
<1> SUFFICES G
  OBVIOUS
<1> HIDE DEF G
<1>4. ASSUME NEW i \in 1..MaxLines, WriteData(b, p, i) PROVE G
  <2>1. FileOp(b, WriteLine(r, p, src, i), "ok")
    BY <1>4 DEF WriteData
  <2> HIDE DEF r, src
  <2> QED  BY <1>1, <1>2, <1>3, <2>1, CopyRecorded
<1>5. CASE NoSpace(b, p)
  <2> DEFINE n == [r EXCEPT !.touch = RecordFirstTouch(@, p, src, TRUE)]
  <2>1. FileOp(b, n, "eio")
    BY <1>5 DEF NoSpace
  <2>2. Recorded(n, r, V)
    <3> HIDE DEF r, src
    <3> QED  BY <1>1, <1>2, CopyRecorded
  <2> HIDE DEF n, r, src
  <2> QED  BY <1>3, <2>1, <2>2
<1>6. CASE CreateFile(b, p) \/ MakeDir(b, p) \/ MakeSymlink(b, p) \/ Truncate(b, p)
  <2>1. PICK e, status : FileOp(b, [EnsureDelta(r, p, src) EXCEPT !.delta[p] = e], status)
    BY <1>6 DEF CreateFile, MakeDir, MakeSymlink, Truncate, PlaceNew
  <2> DEFINE n == [EnsureDelta(r, p, src) EXCEPT !.delta[p] = e]
  <2>2. Recorded(n, r, V)
    <3> HIDE DEF r, src
    <3> QED  BY <1>1, <1>2, CopyRecorded
  <2> HIDE DEF n
  <2> QED  BY <1>3, <2>1, <2>2 DEF n
<1>7. CASE ChangeAttr(b, p)
  <2>1. FileOp(b, EnsureDelta(r, p, src), "ok")
    BY <1>7 DEF ChangeAttr
  <2> HIDE DEF r, src
  <2> QED  BY <1>1, <1>2, <1>3, <2>1, CopyRecorded
<1>8. CASE Unlink(b, p) \/ RemoveDir(b, p)
  <2>1. FileOp(b, DropPath(r, p, src), "ok")
    BY <1>8 DEF Unlink, RemoveDir
  <2> HIDE DEF r, src
  <2> QED  BY <1>1, <1>2, <1>3, <2>1, CopyRecorded
<1>9. ASSUME NEW d \in Path, Rename(b, p, d) PROVE G
  <2> DEFINE srcD == InheritedForTouch(b, d)
  <2>1. PICK status : FileOp(b, RenameRecord(r, p, d, src, srcD), status)
    BY <1>9 DEF Rename
  <2>2. srcD \in Entry /\ srcD = V[d]
    BY InheritedType DEF IInv
  <2> HIDE DEF srcD, src, r
  <2> QED  BY <1>1, <1>2, <1>3, <2>1, <2>2, RenameRecorded
<1>10. CASE RevertPath(b, p)
  <2>1. base' = base /\ Set(b, RevertRecord(r, p))
    BY <1>10 DEF RevertPath
  <2>2. Recorded(RevertRecord(r, p), r, V)
    <3> HIDE DEF r, src
    <3> QED  BY <1>1, <1>2, CopyRecorded
  <2> HIDE DEF r
  <2> QED  BY <2>1, <2>2 DEF G
<1> QED  BY <1>4, <1>5, <1>6, <1>7, <1>8, <1>9, <1>10 DEF FileOperation, PathOperation

\* What a branch inherits when its lookups end at it or at its parent.
ShortLookup ==
    \A b \in DOMAIN branches \ {Main} : \A p \in Path :
      Len(branches[b].chain) <= 2 =>
        InheritedPath(b, p) =
          IF Len(branches[b].chain) = 1 THEN branches[b].inh[p]
          ELSE IF Decides(branches[branches[b].parent], p)
               THEN branches[branches[b].parent].delta[p]
          ELSE IF branches[b].parent = Main THEN base[p]
               ELSE branches[branches[b].parent].inh[p]

LEMMA ShortLookups == IInv => ShortLookup
<1> SUFFICES ASSUME IInv, NEW b \in DOMAIN branches \ {Main}, NEW p \in Path,
                    Len(branches[b].chain) <= 2
             PROVE  InheritedPath(b, p) =
                      IF Len(branches[b].chain) = 1 THEN branches[b].inh[p]
                      ELSE IF Decides(branches[branches[b].parent], p)
                           THEN branches[branches[b].parent].delta[p]
                      ELSE IF branches[b].parent = Main THEN base[p]
                           ELSE branches[branches[b].parent].inh[p]
  BY DEF ShortLookup
<1> DEFINE ch == branches[b].chain
           m == branches[b].parent
           tl == Tail(ch)
<1>1. /\ ch \in Seq(Branch) /\ Len(ch) \in Nat /\ Len(ch) > 0 /\ ch[1] = b
      /\ \A i \in 1..(Len(ch) - 1) : branches[ch[i]].parent = ch[i + 1]
  BY RecordType, FieldType DEF IInv, LineageOK, ChainOK
<1>2. CASE Len(ch) = 1
  <2>1. InheritedPath(b, p) = Underlay(ch)[p] /\ ch[Len(ch)] = b
    BY <1>1, <1>2 DEF InheritedPath
  <2> QED  BY <1>2, <2>1 DEF Underlay
<1>3. CASE Len(ch) # 1
  <2>1. Len(ch) = 2
    <3>1. \A n \in Nat : n > 0 /\ n <= 2 /\ n # 1 => n = 2
      OBVIOUS
    <3>2. Len(ch) <= 2
      OBVIOUS
    <3> HIDE DEF ch
    <3> QED  BY <1>1, <1>3, <3>1, <3>2
  <2>2. InheritedPath(b, p) = ResolveAlong(tl, p)
    BY <1>3 DEF InheritedPath
  <2>3. 1 \in 1..(Len(ch) - 1)
    BY <2>1
  <2>4. ch[2] = m
    <3>1. branches[ch[1]].parent = ch[1 + 1]
      BY <1>1, <2>3
    <3> QED  BY <1>1, <3>1
  <2>5. ch # <<>>
    BY <1>1
  <2>6. /\ Len(tl) = Len(ch) - 1
        /\ \A i \in 1..Len(tl) : tl[i] = ch[i + 1]
    BY <1>1, <2>5, HeadTailProperties
  <2> HIDE DEF tl, ch
  <2>7. Len(tl) = 1 /\ tl[1] = m
    BY <2>1, <2>4, <2>6
  <2>8. CASE Decides(branches[m], p)
    <3>1. FirstDecider(tl, p, 1)
      <4>1. 1..(1 - 1) = {}
        OBVIOUS
      <4> QED  BY <2>7, <2>8, <4>1 DEF FirstDecider
    <3>2. 1 \in 1..Len(tl) /\ Len(tl) \in Nat
      BY <2>7
    <3>3. PICK x : x = tl
      OBVIOUS
    <3>4. ResolveAlong(x, p) = branches[x[1]].delta[p]
      BY <3>1, <3>2, <3>3, FirstAnswers
    <3> QED  BY <1>3, <2>2, <2>7, <2>8, <3>3, <3>4 DEF ch
  <2>9. CASE ~Decides(branches[m], p)
    <3>1. ~ \E i \in 1..Len(tl) : FirstDecider(tl, p, i)
      BY <2>7, <2>9 DEF FirstDecider
    <3>2. ResolveAlong(tl, p) = (IF m = Main THEN base ELSE branches[m].inh)[p]
      BY <2>7, <3>1 DEF ResolveAlong, Underlay
    <3> QED  BY <1>3, <2>2, <2>9, <3>2 DEF ch
  <2> QED  BY <2>8, <2>9
<1> QED  BY <1>2, <1>3

\* What a branch with record r inherits, where M is its parent's record and U
\* what lies beneath the parent: hide rules first.
ShortView(r, M, U, p) ==
    IF IsHidden(r, p) THEN Missing
    ELSE IF Len(r.chain) = 1 THEN r.inh[p]
    ELSE IF Decides(M, p) THEN M.delta[p] ELSE U[p]

\* As long as nothing is committed into the parent, what the branch has
\* touched is what it inherits.
SeenRecord(r, M, U) ==
    Len(r.chain) <= 2 /\ M.commits = r.forkver =>
      \A p \in Path : r.touch[p].made => r.touch[p].id = ShortView(r, M, U, p)

Beneath(m) == IF m = Main THEN base ELSE branches[m].inh

Seen(b) == SeenRecord(branches[b], branches[branches[b].parent],
                      Beneath(branches[b].parent))

SeenInv == \A b \in DOMAIN branches \ {Main} : Seen(b)

LEMMA SeenFrame ==
    ASSUME NEW r, NEW n, NEW M, NEW N, NEW U, NEW W, NEW V,
           SeenRecord(r, M, U), n.chain = r.chain, n.forkver = r.forkver,
           n.hide = r.hide, n.inh = r.inh,
           \A q \in Path : n.touch[q].made => \/ n.touch[q] = r.touch[q]
                                              \/ n.touch[q].id = V[q],
           Len(r.chain) <= 2 => \A q \in Path : V[q] = ShortView(r, M, U, q),
           \/ N.commits # r.forkver
           \/ /\ N.commits = M.commits /\ N.delta = M.delta /\ N.tomb = M.tomb
              /\ N.hide = M.hide /\ W = U
    PROVE  SeenRecord(n, N, W)
<1> SUFFICES ASSUME Len(n.chain) <= 2, N.commits = n.forkver,
                    NEW p \in Path, n.touch[p].made
             PROVE  n.touch[p].id = ShortView(n, N, W, p)
  BY DEF SeenRecord
<1>1. /\ N.commits = M.commits /\ N.delta = M.delta /\ N.tomb = M.tomb
      /\ N.hide = M.hide /\ W = U
  OBVIOUS
<1>2. ShortView(n, N, W, p) = ShortView(r, M, U, p)
  BY <1>1 DEF ShortView, IsHidden, Decides, IsDeleted
<1>3. n.touch[p] = r.touch[p] \/ n.touch[p].id = V[p]
  OBVIOUS
<1>4. CASE n.touch[p] = r.touch[p]
  BY <1>1, <1>2, <1>4 DEF SeenRecord
<1>5. CASE n.touch[p].id = V[p]
  BY <1>2, <1>5
<1> QED  BY <1>3, <1>4, <1>5

\* What a step may do to a branch that stays in the table.
Counted(n, r) ==
    /\ n.parent = r.parent /\ n.chain = r.chain /\ n.forkver = r.forkver
    /\ n.hide = r.hide /\ n.inh = r.inh /\ n.touch = r.touch
    /\ n.commits = r.commits + 1

Kept(c) == \/ Recorded(branches'[c], branches[c],
                       [q \in Path |-> InheritedForTouch(c, q)])
           \/ Counted(branches'[c], branches[c])

LEMMA SameIsRecorded ==
    ASSUME NEW n, NEW r, NEW V, n = r PROVE Recorded(n, r, V)
BY DEF Recorded

LEMMA SetKeeps ==
    ASSUME NEW b \in DOMAIN branches, NEW n, Set(b, n),
           Recorded(n, branches[b], [q \in Path |-> InheritedForTouch(b, q)]),
           NEW c \in DOMAIN branches
    PROVE  Kept(c)
<1>1. branches'[c] = IF c = b THEN n ELSE branches[c]
  BY DEF Set
<1>2. CASE c = b
  BY <1>1, <1>2 DEF Kept
<1>3. CASE c # b
  BY <1>1, <1>3, SameIsRecorded DEF Kept
<1> QED  BY <1>2, <1>3

LEMMA StepKeeps ==
    ASSUME IInv, [Next]_vars, NEW c \in DOMAIN branches \cap DOMAIN branches'
    PROVE  Kept(c)
<1>1. branches'[c] = branches[c] => Kept(c)
  BY SameIsRecorded DEF Kept
<1>r. \A x \in DOMAIN branches : branches[x] \in BranchRecord
  BY DEF IInv, TypeOK
<1>2. ASSUME NEW b \in DOMAIN branches, NEW p \in Path,
             FileOperation(b, p) \/ RevertPath(b, p)
      PROVE  Kept(c)
  <2>1. PICK V : V = [q \in Path |-> InheritedForTouch(b, q)]
    OBVIOUS
  <2>2. PICK n : Set(b, n) /\ Recorded(n, branches[b], V)
    BY <1>2, <2>1, FileOperationRecorded
  <2> QED  BY <2>1, <2>2, SetKeeps
<1>4. ASSUME NEW b \in DOMAIN branches, NEW frozen \in BOOLEAN, SetState(b, frozen)
      PROVE  Kept(c)
  <2> DEFINE n == [branches[b] EXCEPT !.frozen = frozen]
             V == [q \in Path |-> InheritedForTouch(b, q)]
  <2>1. Set(b, n)
    BY <1>4 DEF SetState
  <2> HIDE DEF V
  <2>2. Recorded(n, branches[b], V)
    BY <1>r DEF Recorded, BranchRecord
  <2> HIDE DEF n
  <2> QED  BY <2>1, <2>2, SetKeeps DEF V
<1>5. ASSUME NEW b \in DOMAIN branches, CommitToBase(b) PROVE Kept(c)
  <2>1. PICK t : branches' = [Without(b) EXCEPT ![Main].delta = t, ![Main].commits = @ + 1]
    BY <1>5 DEF CommitToBase
  <2>2. Main \in DOMAIN branches /\ b # Main /\ branches[Main] \in BranchRecord
    BY <1>5 DEF CommitToBase, IInv, TypeOK
  <2>3. CASE c = Main
    <3>1. Counted(branches'[c], branches[c])
      BY <2>1, <2>2, <2>3 DEF Without, BranchRecord, Counted
    <3> QED  BY <3>1 DEF Kept
  <2>4. CASE c # Main
    <3>1. branches'[c] = branches[c]
      BY <2>1, <2>2, <2>4 DEF Without
    <3> QED  BY <1>1, <3>1
  <2> QED  BY <2>3, <2>4
<1>6. ASSUME NEW b \in DOMAIN branches, NestedCommit(b) PROVE Kept(c)
  <2>1. PICK m : m = branches[b].parent
    OBVIOUS
  <2>2. branches' = [x \in DOMAIN branches \ {b} |->
                       IF x = m THEN Received(b, m) ELSE branches[x]]
    BY <1>6, <2>1, NestedReceived
  <2>3. CASE c = m
    <3>1. branches'[c] = Received(b, c)
      BY <2>2, <2>3
    <3>2. Counted(Received(b, c), branches[c])
      BY <1>r DEF Received, BranchRecord, Counted
    <3> QED  BY <3>1, <3>2 DEF Kept
  <2>4. CASE c # m
    BY <1>1, <2>2, <2>4
  <2> QED  BY <2>3, <2>4
<1>7. ASSUME NEW b \in DOMAIN branches, FailedCommit(b) PROVE Kept(c)
  <2> DEFINE m == branches[b].parent
             V == [q \in Path |-> InheritedForTouch(c, q)]
  <2>1. PICK t : UNCHANGED branches \/ branches' = [branches EXCEPT ![m].delta = t]
    BY <1>7 DEF FailedCommit
  <2>2. branches[c] \in BranchRecord
    BY RecordType DEF IInv
  <2> HIDE DEF m, V
  <2>3. CASE branches' = [branches EXCEPT ![m].delta = t]
    <3>1. Recorded(branches'[c], branches[c], V)
      BY <2>2, <2>3 DEF BranchRecord, Recorded
    <3> QED  BY <3>1 DEF Kept, V
  <2> QED  BY <1>1, <2>1, <2>3
<1>8. ASSUME NEW b \in DOMAIN branches, AbortBranch(b) PROVE Kept(c)
  BY <1>1, <1>8 DEF AbortBranch, Without
<1>9. ASSUME NEW b \in Branch, NEW parent \in DOMAIN branches, NEW mode \in Mode,
             NEW hide \in HideSets, CreateBranch(b, parent, mode, hide)
      PROVE  Kept(c)
  <2>1. PICK r : branches' = [x \in DOMAIN branches \cup {b} |->
                                IF x = b THEN r ELSE branches[x]]
    BY <1>9 DEF CreateBranch
  <2>2. b \notin DOMAIN branches
    BY <1>9 DEF CreateBranch
  <2> QED  BY <1>1, <2>1, <2>2
<1>10. CASE UNCHANGED vars
  BY <1>1, <1>10 DEF vars
<1> QED  BY <1>2, <1>4, <1>5, <1>6, <1>7, <1>8, <1>9, <1>10 DEF Next

\* A branch that enters the table has touched nothing.
LEMMA NewHasNoTouch ==
    ASSUME IInv, [Next]_vars, NEW c \in DOMAIN branches' \ DOMAIN branches
    PROVE  \A p \in Path : ~branches'[c].touch[p].made
<1>1. ASSUME NEW b \in DOMAIN branches, NEW r, Set(b, r) PROVE FALSE
  BY <1>1 DEF Set
<1>2. ASSUME NEW b \in DOMAIN branches, NEW p \in Path, FileOperation(b, p) PROVE FALSE
  <2>1. \E r : Set(b, r)
    BY <1>2 DEF FileOperation, PathOperation,
                WriteData, NoSpace, CreateFile, MakeDir, MakeSymlink,
                Truncate, ChangeAttr, Unlink, RemoveDir, Rename, FileOp
  <2> QED  BY <1>1, <2>1
<1>3. ASSUME NEW b \in DOMAIN branches, NEW p \in Path, RevertPath(b, p) PROVE FALSE
  BY <1>1, <1>3 DEF RevertPath
<1>4. ASSUME NEW b \in DOMAIN branches, NEW frozen, SetState(b, frozen) PROVE FALSE
  BY <1>1, <1>4, SMTT(30) DEF SetState
<1>5. ASSUME NEW b \in DOMAIN branches,
             CommitToBase(b) \/ NestedCommit(b) \/ FailedCommit(b) \/ AbortBranch(b)
      PROVE  FALSE
  BY <1>5 DEF CommitToBase, NestedCommit, FailedCommit, AbortBranch, Without
<1>6. ASSUME NEW b \in Branch, NEW parent \in DOMAIN branches, NEW mode \in Mode,
             NEW hide \in HideSets, CreateBranch(b, parent, mode, hide)
      PROVE  \A p \in Path : ~branches'[c].touch[p].made
  <2>1. PICK ch, inh :
          branches' = [x \in DOMAIN branches \cup {b} |->
                         IF x = b THEN NewBranch(parent, ch, mode, branches[parent].commits,
                                                 hide, inh, epoch + 1)
                         ELSE branches[x]]
    BY <1>6 DEF CreateBranch
  <2>2. c = b
    BY <2>1
  <2>3. branches'[c] = NewBranch(parent, ch, mode, branches[parent].commits,
                                 hide, inh, epoch + 1)
    BY <2>1, <2>2
  <2> QED  BY <2>3 DEF NewBranch, NoTouch
<1>7. CASE UNCHANGED vars
  BY <1>7 DEF vars
<1> QED  BY <1>2, <1>3, <1>4, <1>5, <1>6, <1>7 DEF Next

LEMMA SeenStep ==
    ASSUME IInv, IInv', SeenInv, ShortLookup, [Next]_vars, [ParentsChangeByCommit]_vars
    PROVE  SeenInv'
<1> SUFFICES ASSUME NEW b \in DOMAIN branches' \ {Main} PROVE Seen(b)'
  BY DEF SeenInv
<1>1. CASE b \notin DOMAIN branches
  <2>1. \A p \in Path : ~branches'[b].touch[p].made
    BY <1>1, NewHasNoTouch
  <2> QED  BY <2>1 DEF Seen, SeenRecord
<1>2. CASE b \in DOMAIN branches
  <2>1. PICK m : m = branches[b].parent
    OBVIOUS
  <2>2. m \in DOMAIN branches
    BY <1>2, <2>1 DEF IInv, LineageOK, ParentOK
  <2>3. Kept(b)
    BY <1>2, StepKeeps
  <2>4. branches'[b].parent = m
    BY <2>1, <2>3 DEF Kept, Recorded, Counted
  <2>5. m \in DOMAIN branches'
    BY <2>4 DEF IInv, LineageOK, ParentOK
  <2>6. Kept(m)
    BY <2>2, <2>5, StepKeeps
  <2> DEFINE r == branches[b]
             n == branches'[b]
             V == [q \in Path |-> InheritedForTouch(b, q)]
  <2>7. /\ SeenRecord(r, branches[m], Beneath(m))
    BY <1>2, <2>1 DEF SeenInv, Seen
  <2>8. /\ n.chain = r.chain /\ n.forkver = r.forkver /\ n.hide = r.hide /\ n.inh = r.inh
        /\ \A q \in Path : n.touch[q].made => \/ n.touch[q] = r.touch[q]
                                              \/ n.touch[q].id = V[q]
    <3> HIDE DEF V
    <3> QED  BY <2>3 DEF Kept, Recorded, Counted, V
  <2>9. Len(r.chain) <= 2 => \A q \in Path : V[q] = ShortView(r, branches[m], Beneath(m), q)
    BY <1>2, <2>1 DEF ShortLookup, ShortView, Beneath, InheritedForTouch
  <2>10. \/ branches'[m].commits # r.forkver
         \/ /\ branches'[m].commits = branches[m].commits
            /\ branches'[m].delta = branches[m].delta /\ branches'[m].tomb = branches[m].tomb
            /\ branches'[m].hide = branches[m].hide /\ Beneath(m)' = Beneath(m)
    <3>1. CASE branches'[m].commits = branches[m].commits
      <4>1. ~IsLeafBranch(m)
        BY <1>2, <2>1 DEF IsLeafBranch
      <4>2. /\ branches'[m].delta = branches[m].delta /\ branches'[m].tomb = branches[m].tomb
            /\ m = Main => base' = base
        BY <2>2, <2>5, <3>1, <4>1 DEF ParentsChangeByCommit, vars
      <4>3. branches'[m].hide = branches[m].hide /\ branches'[m].inh = branches[m].inh
        BY <2>6 DEF Kept, Recorded, Counted
      <4> QED  BY <3>1, <4>2, <4>3 DEF Beneath
    <3>2. CASE branches'[m].commits # branches[m].commits
      <4>1. branches'[m].commits = branches[m].commits + 1
        BY <2>6, <3>2 DEF Kept, Recorded, Counted
      <4>2. r.forkver <= branches[m].commits
        BY <1>2, <2>1 DEF IInv, LineageOK, ParentOK
      <4>3. r.forkver \in Nat /\ branches[m].commits \in Nat
        BY <1>2, <2>2, RecordType, FieldType DEF IInv
      <4>4. \A x, y \in Nat : x <= y => y + 1 # x
        OBVIOUS
      <4> QED  BY <4>1, <4>2, <4>3, <4>4
    <3> QED  BY <3>1, <3>2
  <2>11. PICK M, N, U, W : /\ M = branches[m] /\ N = branches'[m]
                           /\ U = Beneath(m) /\ W = Beneath(m)'
    OBVIOUS
  <2> HIDE DEF n, r, V
  <2>12. SeenRecord(n, N, W)
    BY <2>7, <2>8, <2>9, <2>10, <2>11, SeenFrame
  <2> QED  BY <2>4, <2>11, <2>12 DEF Seen, n, Beneath
<1> QED  BY <1>1, <1>2

\* A commit reports what it replaces of what the session has not seen.
LEMMA CommitReports ==
    ASSUME IInv, SeenInv, ShortLookup, [Next]_vars, NEW b \in Branch, NEW p \in Path,
           Commits(b), Len(branches[b].chain) <= 2, ReplacesUnseen(b, p)
    PROVE  p \in report'.conflicts \cup report'.merges
<1>1. b \in DOMAIN branches
  BY DEF Commits
<1>2. CommitToBase(b) \/ NestedCommit(b)
  BY OnlyCommits, SMTT(30)
<1>3. b # Main /\ report' = CommitReport(b)
  BY <1>2 DEF CommitToBase, NestedCommit
<1>4. ParentChanged(b)
  <2> SUFFICES ASSUME ~ParentChanged(b) PROVE FALSE
    OBVIOUS
  <2>1. branches[b].touch[p].id =
          ShortView(branches[b], branches[branches[b].parent], Beneath(branches[b].parent), p)
    BY <1>1, <1>3 DEF SeenInv, Seen, SeenRecord, ParentChanged, ReplacesUnseen
  <2>2. ShortView(branches[b], branches[branches[b].parent], Beneath(branches[b].parent), p)
          = InheritedForTouch(b, p)
    BY <1>1, <1>3 DEF ShortLookup, ShortView, Beneath, InheritedForTouch
  <2> QED  BY <2>1, <2>2 DEF ReplacesUnseen
<1>5. ChangedSinceTouch(b, p)
  BY <1>4 DEF ChangedSinceTouch, ReplacesUnseen
<1>6. p \in Conflicts(b) \cup AutoMerges(b)
  BY <1>5 DEF ReplacesUnseen, Conflicts
<1> QED  BY <1>3, <1>6 DEF CommitReport

(***************************************************************************)
(* No commit replaces or deletes a version its session had not seen        *)
(* without a merge or a conflict record (record_first_touch,               *)
(* parent_version_at_fork, commit_count and the two loops of               *)
(* commit_with_report), when the branch's lookups end at its parent.  The  *)
(* hypothesis leaves out what commit_count does not count: programs that   *)
(* write to a branch with children or revert a path of it, and failed      *)
(* commits that leave something in their destination.  The argument: as    *)
(* long as the parent's count is the one of the fork, the parent and what  *)
(* lies beneath it have not changed, so every touch record is what the     *)
(* branch inherits still (SeenInv); once the count differs, the commit     *)
(* compares every path it publishes with its record.                       *)
(***************************************************************************)
THEOREM NothingOverwritten ==
    Spec /\ [][ParentsChangeByCommit]_vars => NoSilentOverwrite
<1> DEFINE A == \A b \in Branch, p \in Path :
                  Commits(b) /\ Len(branches[b].chain) <= 2 /\ ReplacesUnseen(b, p)
                  => p \in report'.conflicts \cup report'.merges
           J == IInv /\ SeenInv
<1>1. Init => J
  <2>1. Init => SeenInv
    BY DEF Init, SeenInv
  <2> QED  BY <2>1, InitStep
<1>2. J => ShortLookup
  BY ShortLookups
<1>3. J /\ ShortLookup /\ [Next]_vars /\ [ParentsChangeByCommit]_vars => J'
  <2> SUFFICES ASSUME IInv, SeenInv, ShortLookup, [Next]_vars, [ParentsChangeByCommit]_vars
               PROVE  IInv' /\ SeenInv'
    OBVIOUS
  <2>1. IInv'
    BY NextStep
  <2> QED  BY <2>1, SeenStep
<1>4. J /\ ShortLookup /\ [Next]_vars => A
  BY CommitReports
<1>5. NoSilentOverwrite <=> [][A]_vars
  BY DEF NoSilentOverwrite
<1> HIDE DEF A, J
<1> QED  BY <1>1, <1>2, <1>3, <1>4, <1>5, PTL DEF Spec

=============================================================================
