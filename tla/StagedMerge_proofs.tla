------------------------- MODULE StagedMerge_proofs -------------------------
(***************************************************************************)
(* The staged merge for any paths, sessions, edits and faults: its types,  *)
(* what it never destroys, what it never publishes, and that it implements *)
(* AtomicMerge.                                                            *)
(***************************************************************************)
EXTENDS StagedMerge, TLAPS

\* What the merge under way is to make of p.
New(p) ==
    IF branch.files[p] # Missing THEN branch.files[p]
    ELSE IF p \in branch.tombs THEN Missing ELSE before.tree[p]

\* The merge may move the entry at p aside.
MayMove(p) == p \in branch.tombs \/ (branch.files[p] # Missing /\ before.tree[p] = Dir)

\* The entry at p is where it was, or aside and listed.
Apart(p) ==
    IF p \in deletes
    THEN dest[p] = Missing /\ trash[p] = before.tree[p] /\ MayMove(p)
    ELSE dest[p] = before.tree[p]

\* What a merge that is cut short leaves at p.
Between(p) ==
    \/ dest[p] = before.tree[p]
    \/ dest[p] = New(p)
    \/ dest[p] = Missing /\ MayMove(p)

\* Trash that is still listed is the old entry.
TrashKept(p) == p \in deletes => trash[p] = before.tree[p]

\* How far the merge is with p, in every phase.
Deleting(p) ==
    /\ Apart(p) /\ p \notin copies
    /\ p \in todo => p \in branch.tombs
    /\ p \in branch.tombs => p \in todo \/ dest[p] = Missing

Copying(p) ==
    /\ Apart(p)
    /\ p \in branch.tombs => dest[p] = Missing
    /\ p \in todo \/ p \in copies <=> branch.files[p] # Missing
    /\ p \in copies => tmp[p] = branch.files[p] /\ p \notin todo

Publishing(p) ==
    /\ TrashKept(p) /\ Between(p)
    /\ p \in copies => tmp[p] = branch.files[p] /\ branch.files[p] # Missing
    /\ p \notin copies => dest[p] = New(p)

Dropping(p) ==
    IF faults = before.faults THEN Apart(p) ELSE TrashKept(p) /\ Between(p)

Progress ==
    \A p \in Path \ astray :
        /\ phase = "deleting" => Deleting(p)
        /\ phase = "copying" => Copying(p)
        /\ phase = "publishing" => Publishing(p)
        /\ phase = "discarding" => TrashKept(p)
        /\ phase \in {"discarding", "counting", "removing"} => dest[p] = New(p)
        /\ phase = "dropping" => Dropping(p)

\* Only temp siblings are ever torn, and what is written through one.
Untorn ==
    /\ \A p \in Path : branch.files[p] # Torn
    /\ \A p \in Path \ astray : Torn \notin {dest[p], trash[p], before.tree[p]}

\* A temp link that no merge lists was left by a fault, and only such a link
\* leads astray.
Stale ==
    /\ \A p \in Path : IsLink(tmp[p]) => p \in copies \/ faults > 0
    /\ astray # {} \/ phase = "down" => faults > 0
    /\ phase \notin Staging \union {"publishing", "dropping"} => copies = {}
    /\ before.astray \subseteq astray
    /\ phase \in Running /\ astray # before.astray => before.faults > 0

\* The counters and the branch while a merge is under way.
Counted ==
    /\ meta <= count /\ before.faults <= faults
    /\ phase \in Running => branch.alive
    /\ phase \in Running \ {"dropping"} => faults = before.faults
    /\ phase \in Running \ {"removing"} => meta = before.count
    /\ phase = "removing" => before.count < meta

IInv == TypeOK /\ Untorn /\ Stale /\ Counted /\ Progress

----------------------------------------------------------------------------
(* Entries and branches                                                    *)

\* The kinds of entries are told apart, and a torn copy is neither what a
\* branch holds nor what the destination had.
LEMMA Entries ==
    /\ {Missing, Dir, Torn} \subseteq Atomic!Entry
    /\ Missing # Dir /\ Torn # Missing /\ Torn # Dir
    /\ ~IsLink(Missing) /\ ~IsLink(Dir) /\ ~IsLink(Torn)
    /\ \A n \in 0..(MaxEdits + 1) :
          /\ File(n) \in Atomic!Entry /\ File(n) \notin {Missing, Dir, Torn}
          /\ Link(n) \in Atomic!Entry /\ Link(n) \notin {Missing, Dir, Torn}
<1>1. MaxEdits \in Nat
  BY BoundAssumption
<1>2. \A n \in Version : File(n) \in Atomic!Entry /\ Link(n) \in Atomic!Entry
  BY DEF File, Link, Atomic!Entry
<1>3. Missing \in Atomic!Entry /\ Dir \in Atomic!Entry
  BY DEF Missing, Dir, Atomic!Entry
<1>4. Torn \in Atomic!Entry
  BY <1>1, <1>2 DEF Torn, Version
<1>5. Missing # Dir /\ Torn # Missing /\ Torn # Dir
  BY DEF Missing, Dir, Torn, File, Atomic!Missing, Atomic!Dir, Atomic!File
<1>6. ASSUME NEW n \in 0..(MaxEdits + 1)
      PROVE  /\ File(n) \in Atomic!Entry /\ File(n) \notin {Missing, Dir, Torn}
             /\ Link(n) \in Atomic!Entry /\ Link(n) \notin {Missing, Dir, Torn}
  <2>1. n \in Version /\ n # MaxEdits + 2
    BY <1>1 DEF Version
  <2> QED BY <2>1, <1>2 DEF Missing, Dir, Torn, File, Link,
             Atomic!Missing, Atomic!Dir, Atomic!File, Atomic!Link
<1>7. ~IsLink(Missing) /\ ~IsLink(Dir) /\ ~IsLink(Torn)
  BY DEF IsLink, Missing, Dir, Torn, File, Atomic!Missing, Atomic!Dir, Atomic!File
<1> QED BY <1>3, <1>4, <1>5, <1>6, <1>7

\* What a branch on disk is made of.
LEMMA BranchFields ==
    Atomic!Branches =
        [alive : BOOLEAN, files : [Path -> Atomic!Entry \ {Dir}], tombs : SUBSET Path]
  BY DEF Atomic!Branches, Dir

----------------------------------------------------------------------------
(* The invariant, action by action                                         *)

\* The initial states.
LEMMA InitInv == Init => IInv
<1> SUFFICES ASSUME Init PROVE IInv
  OBVIOUS
<1>0. PICK w \in SUBSET Files0, l \in SUBSET Files0, d \in SUBSET Tombs0 :
          branch = [alive |-> TRUE,
                    files |-> [p \in Path |-> IF p \in w THEN File(1)
                                              ELSE IF p \in l THEN Link(1) ELSE Missing],
                    tombs |-> d]
  BY DEF Init
<1>1. /\ File(0) \in Atomic!Entry /\ File(0) \notin {Missing, Dir, Torn}
      /\ File(1) \in Atomic!Entry /\ File(1) \notin {Missing, Dir, Torn}
      /\ Link(0) \in Atomic!Entry /\ Link(0) \notin {Missing, Dir, Torn}
      /\ Link(1) \in Atomic!Entry /\ Link(1) \notin {Missing, Dir, Torn}
  BY Entries, BoundAssumption
<1>2. branch \in Atomic!Branches
  BY <1>0, <1>1, Entries, BranchFields, PathAssumption
<1>3. dest \in [Path -> Atomic!Entry] /\ Empty \in [Path -> Atomic!Entry \ {Dir}]
  BY <1>1, Entries DEF Init, Empty
<1>4. TypeOK
  BY <1>2, <1>3, BoundAssumption DEF Init, TypeOK, Phase
<1>5. Untorn
  BY <1>0, <1>1, Entries DEF Init, Untorn, Empty
<1>6. Stale
  BY Entries DEF Init, Stale, Empty, Running
<1>7. Counted /\ Progress
  BY DEF Init, Counted, Progress, Running, Phase
<1> QED BY <1>4, <1>5, <1>6, <1>7 DEF IInv

\* A commit begins with empty lists.
LEMMA BeginInv == ASSUME IInv, Begin PROVE IInv'
<1>1. TypeOK'
  <2>1. branch.tombs \subseteq Path /\ commits' \in 0..MaxCommits
    BY BranchFields, BoundAssumption DEF IInv, TypeOK, Begin
  <2> QED BY <2>1 DEF IInv, TypeOK, Begin, disk, files, Phase
<1>2. Untorn'
  BY DEF IInv, Untorn, TypeOK, Begin, disk, files
<1>3. Counted'
  BY DEF IInv, Counted, TypeOK, Begin, disk, files, Phase, Running
<1>4. Progress'
  BY DEF IInv, Progress, TypeOK, Begin, disk, files, Deleting, Apart
<1>5. Stale'
  BY DEF IInv, Stale, TypeOK, Begin, disk, files, Staging, Running, Phase
<1> QED BY <1>1, <1>2, <1>3, <1>4, <1>5 DEF IInv

\* A deleted entry is moved to its trash sibling.
LEMMA StageDeleteInv == ASSUME IInv, NEW q \in Path, StageDelete(q) PROVE IInv'
<1> USE DEF StageDelete, Aside, Set, counts, bounds
<1>1. TypeOK'
  BY Entries DEF IInv, TypeOK
<1>2. Untorn'
  BY Entries DEF IInv, Untorn, TypeOK
<1>3. Counted'
  BY DEF IInv, Counted, TypeOK
<1>4. Progress'
  BY Entries DEF IInv, Progress, TypeOK, Deleting, Apart, MayMove
<1>5. Stale'
  BY Entries DEF IInv, Stale, TypeOK, Counted, Staging, Running, Phase
<1> QED BY <1>1, <1>2, <1>3, <1>4, <1>5 DEF IInv

\* All deletions are staged; the copies are next.
LEMMA DeletesStagedInv == ASSUME IInv, DeletesStaged PROVE IInv'
<1> USE DEF DeletesStaged, disk, files, bounds
<1>1. TypeOK'
  BY DEF IInv, TypeOK, Phase, Atomic!Copied
<1>2. Untorn'
  BY DEF IInv, Untorn
<1>3. Counted'
  BY DEF IInv, Counted, Running, Phase
<1>4. Progress'
  BY DEF IInv, Progress, TypeOK, Deleting, Copying, Apart, MayMove, Atomic!Copied, Missing
<1>5. Stale'
  BY Entries DEF IInv, Stale, TypeOK, Counted, Staging, Running, Phase
<1> QED BY <1>1, <1>2, <1>3, <1>4, <1>5 DEF IInv

\* A directory in the place of a file is moved to its trash sibling.
LEMMA StageDirAsideInv == ASSUME IInv, NEW q \in Path, StageDirAside(q) PROVE IInv'
<1> USE DEF StageDirAside, Aside, Set, counts, bounds
<1>1. TypeOK'
  BY Entries DEF IInv, TypeOK
<1>2. Untorn'
  BY Entries DEF IInv, Untorn, TypeOK
<1>3. Counted'
  BY DEF IInv, Counted, TypeOK
<1>4. Progress'
  BY Entries DEF IInv, Progress, TypeOK, Copying, Apart, MayMove
<1>5. Stale'
  BY Entries DEF IInv, Stale, TypeOK, Counted, Staging, Running, Phase
<1> QED BY <1>1, <1>2, <1>3, <1>4, <1>5 DEF IInv

\* copy_entry, whole or cut short, changes its own temp, and paths that go
\* astray.
LEMMA CopyKeeps ==
    ASSUME IInv, NEW q \in Path, phase = "copying", q \in todo,
           CopyEntry(q) \/ CopyEntryCut(q)
    PROVE  /\ dest' \in [Path -> Atomic!Entry] /\ tmp' \in [Path -> Atomic!Entry \ {Dir}]
           /\ astray \subseteq astray' /\ astray' \subseteq Path
           /\ astray' # astray => faults > 0
           /\ \A p \in Path \ astray' : dest'[p] = dest[p]
           /\ \A p \in Path \ {q} : tmp'[p] = tmp[p]
           /\ CopyEntry(q) /\ q \notin astray' => tmp'[q] = branch.files[q]
           /\ CopyEntryCut(q) => (IsLink(tmp'[q]) => IsLink(tmp[q]))
<1> USE DEF Set
<1>1. /\ dest \in [Path -> Atomic!Entry] /\ tmp \in [Path -> Atomic!Entry \ {Dir}]
      /\ branch.files[q] \in Atomic!Entry \ {Dir} /\ astray \subseteq Path
      /\ Torn \in Atomic!Entry \ {Dir} /\ Missing \in Atomic!Entry \ {Dir}
  BY BranchFields, Entries DEF IInv, TypeOK
<1>2. IsLink(tmp[q]) => faults > 0
  BY DEF IInv, Stale, Progress, Copying
<1>3. ~IsLink(Missing) /\ ~IsLink(Torn)
  BY Entries
<1>4. ASSUME NEW e \in Atomic!Entry \ {Dir}, WriteThrough(q, e), faults > 0
      PROVE  /\ dest' \in [Path -> Atomic!Entry] /\ tmp' = tmp
             /\ astray \subseteq astray' /\ astray' \subseteq Path /\ q \in astray'
             /\ \A p \in Path \ astray' : dest'[p] = dest[p]
  BY <1>1, <1>4 DEF WriteThrough
<1>5. CASE CopyEntry(q)
  <2>1. CASE IsLink(tmp[q]) /\ ~IsLink(branch.files[q])
    <3>1. WriteThrough(q, branch.files[q])
      BY <1>5, <2>1 DEF CopyEntry
    <3>2. ASSUME CopyEntryCut(q) PROVE IsLink(tmp'[q]) => IsLink(tmp[q])
      BY <2>1
    <3> QED BY <1>1, <1>2, <1>4, <2>1, <3>1, <3>2
  <2>2. CASE ~(IsLink(tmp[q]) /\ ~IsLink(branch.files[q]))
    <3>1. tmp' = Set(tmp, q, branch.files[q]) /\ UNCHANGED <<dest, astray>>
      BY <1>5, <2>2 DEF CopyEntry
    <3>2. ASSUME CopyEntryCut(q) PROVE IsLink(tmp'[q]) => IsLink(tmp[q])
      BY <1>1, <1>3, <2>2, <3>1, <3>2 DEF CopyEntryCut
    <3> QED BY <1>1, <3>1, <3>2
  <2> QED BY <2>1, <2>2
<1>6. CASE CopyEntryCut(q) /\ ~CopyEntry(q)
  <2>1. CASE UNCHANGED <<tmp, dest, astray>>
    BY <1>1, <1>6, <2>1
  <2>2. CASE IsLink(tmp[q]) /\ WriteThrough(q, Torn)
    BY <1>1, <1>2, <1>4, <1>6, <2>2
  <2>3. CASE (tmp' = Set(tmp, q, Missing) \/ tmp' = Set(tmp, q, Torn)) /\ UNCHANGED <<dest, astray>>
    BY <1>1, <1>3, <1>6, <2>3
  <2> QED BY <1>6, <2>1, <2>2, <2>3 DEF CopyEntryCut
<1> QED BY <1>5, <1>6

\* A file is copied to its temp sibling.
LEMMA StageCopyInv == ASSUME IInv, NEW q \in Path, StageCopy(q) PROVE IInv'
<1> USE DEF StageCopy, counts, bounds
<1>0. /\ dest' \in [Path -> Atomic!Entry] /\ tmp' \in [Path -> Atomic!Entry \ {Dir}]
      /\ astray \subseteq astray' /\ astray' \subseteq Path
      /\ astray' # astray => faults > 0
      /\ \A p \in Path \ astray' : dest'[p] = dest[p]
      /\ \A p \in Path \ {q} : tmp'[p] = tmp[p]
      /\ q \notin astray' => tmp'[q] = branch.files[q]
  BY CopyKeeps
<1>1. TypeOK'
  BY <1>0 DEF IInv, TypeOK
<1>2. Untorn'
  BY <1>0 DEF IInv, Untorn
<1>3. Stale'
  BY <1>0 DEF IInv, Stale, Counted, Staging, Running, Phase
<1>4. Counted'
  BY DEF IInv, Counted
<1>5. Progress'
  BY <1>0 DEF IInv, Progress, TypeOK, Copying, Apart, MayMove
<1> QED BY <1>1, <1>2, <1>3, <1>4, <1>5 DEF IInv

\* Every copy is staged and publishing begins.
LEMMA CopiesStagedInv == ASSUME IInv, CopiesStaged PROVE IInv'
<1> USE DEF CopiesStaged, disk, files, memory, bounds
<1>1. TypeOK'
  BY DEF IInv, TypeOK, Phase
<1>2. Untorn'
  BY DEF IInv, Untorn
<1>3. Counted'
  BY DEF IInv, Counted, Running, Phase
<1>4. Progress'
  BY DEF IInv, Progress, Copying, Publishing, Apart, MayMove, TrashKept, Between, New
<1>5. Stale'
  BY Entries DEF IInv, Stale, TypeOK, Counted, Staging, Running, Phase
<1> QED BY <1>1, <1>2, <1>3, <1>4, <1>5 DEF IInv

\* A copy is renamed into its place.
LEMMA PublishCopyInv == ASSUME IInv, NEW q \in Path, PublishCopy(q) PROVE IInv'
<1> USE DEF PublishCopy, Set, counts, bounds
<1>1. TypeOK'
  BY Entries DEF IInv, TypeOK
<1>2. Untorn'
  BY DEF IInv, Untorn, TypeOK, Progress, Publishing
<1>3. Counted'
  BY DEF IInv, Counted
<1>4. Progress'
  BY DEF IInv, Progress, TypeOK, Publishing, MayMove, TrashKept, Between, New
<1>5. Stale'
  BY Entries DEF IInv, Stale, TypeOK, Counted, Staging, Running, Phase
<1> QED BY <1>1, <1>2, <1>3, <1>4, <1>5 DEF IInv

\* All copies are in place; the trash is next.
LEMMA CopiesPublishedInv == ASSUME IInv, CopiesPublished PROVE IInv'
<1> USE DEF CopiesPublished, disk, files, memory, bounds
<1>1. TypeOK'
  BY DEF IInv, TypeOK, Phase
<1>2. Untorn'
  BY DEF IInv, Untorn
<1>3. Counted'
  BY DEF IInv, Counted, Running, Phase
<1>4. Progress'
  BY DEF IInv, Progress, Publishing, TrashKept, New
<1>5. Stale'
  BY Entries DEF IInv, Stale, TypeOK, Counted, Staging, Running, Phase
<1> QED BY <1>1, <1>2, <1>3, <1>4, <1>5 DEF IInv

\* A trash sibling is removed.
LEMMA DiscardTrashInv == ASSUME IInv, NEW q \in Path, DiscardTrash(q) PROVE IInv'
<1> USE DEF DiscardTrash, Set, counts, bounds
<1>1. TypeOK'
  BY Entries DEF IInv, TypeOK
<1>2. Untorn'
  BY Entries DEF IInv, Untorn, TypeOK
<1>3. Counted'
  BY DEF IInv, Counted
<1>4. Progress'
  BY DEF IInv, Progress, TypeOK, TrashKept, New
<1>5. Stale'
  BY Entries DEF IInv, Stale, TypeOK, Counted, Staging, Running, Phase
<1> QED BY <1>1, <1>2, <1>3, <1>4, <1>5 DEF IInv

\* The trash is gone; the commit counter is next.
LEMMA TrashDiscardedInv == ASSUME IInv, TrashDiscarded PROVE IInv'
<1> USE DEF TrashDiscarded, disk, files, memory, bounds
<1>1. TypeOK'
  BY DEF IInv, TypeOK, Phase
<1>2. Untorn'
  BY DEF IInv, Untorn
<1>3. Counted'
  BY DEF IInv, Counted, Running, Phase
<1>4. Progress'
  BY DEF IInv, Progress, New
<1>5. Stale'
  BY Entries DEF IInv, Stale, TypeOK, Counted, Staging, Running, Phase
<1> QED BY <1>1, <1>2, <1>3, <1>4, <1>5 DEF IInv

\* The commit counter is written.
LEMMA CountCommitInv == ASSUME IInv, CountCommit PROVE IInv'
<1> USE DEF CountCommit, files, memory, bounds
<1>1. TypeOK'
  BY DEF IInv, TypeOK, Phase
<1>2. Untorn'
  BY DEF IInv, Untorn
<1>3. Counted'
  BY DEF IInv, TypeOK, Counted, Running, Phase
<1>4. Progress'
  BY DEF IInv, Progress, New
<1>5. Stale'
  BY Entries DEF IInv, Stale, TypeOK, Counted, Staging, Running, Phase
<1> QED BY <1>1, <1>2, <1>3, <1>4, <1>5 DEF IInv

\* The branch is gone from the table; its files are those it had.
LEMMA RemoveBranchInv == ASSUME IInv, RemoveBranch PROVE IInv'
<1> USE DEF RemoveBranch, files, counts, memory, bounds
<1>0. branch' \in Atomic!Branches /\ branch'.files = branch.files
  <2>1. branch \in [alive : BOOLEAN, files : [Path -> Atomic!Entry \ {Dir}], tombs : SUBSET Path]
    BY BranchFields DEF IInv, TypeOK
  <2>2. branch' = [branch EXCEPT !.alive = FALSE]
    OBVIOUS
  <2> QED BY <2>1, <2>2, BranchFields
<1>1. TypeOK'
  BY <1>0 DEF IInv, TypeOK, Phase
<1>2. Untorn'
  BY <1>0 DEF IInv, Untorn
<1>3. Counted' /\ Progress'
  BY DEF IInv, Counted, Progress, Running, Phase
<1>4. Stale'
  BY Entries DEF IInv, Stale, TypeOK, Counted, Staging, Running, Phase
<1> QED BY <1>1, <1>2, <1>3, <1>4 DEF IInv

----------------------------------------------------------------------------
(* Errors, the rollback, the session and crashes                           *)

\* A copy fails and leaves a torn temp sibling.
LEMMA CopyFailsInv == ASSUME IInv, NEW q \in Path, CopyFails(q) PROVE IInv'
<1> USE DEF CopyFails, counts, memory, bounds
<1>0. /\ dest' \in [Path -> Atomic!Entry] /\ tmp' \in [Path -> Atomic!Entry \ {Dir}]
      /\ astray \subseteq astray' /\ astray' \subseteq Path
      /\ astray' # astray => faults > 0
      /\ \A p \in Path \ astray' : dest'[p] = dest[p]
      /\ \A p \in Path : IsLink(tmp'[p]) => IsLink(tmp[p])
  <2>1. /\ dest' \in [Path -> Atomic!Entry] /\ tmp' \in [Path -> Atomic!Entry \ {Dir}]
        /\ astray \subseteq astray' /\ astray' \subseteq Path
        /\ astray' # astray => faults > 0
        /\ \A p \in Path \ astray' : dest'[p] = dest[p]
        /\ \A p \in Path \ {q} : tmp'[p] = tmp[p]
        /\ IsLink(tmp'[q]) => IsLink(tmp[q])
    BY CopyKeeps
  <2> QED BY <2>1
<1>1. TypeOK'
  BY <1>0 DEF IInv, TypeOK, Phase
<1>2. Untorn'
  BY <1>0 DEF IInv, Untorn
<1>3. Stale'
  BY <1>0 DEF IInv, Stale, Counted, Staging, Running, Phase
<1>4. Counted'
  BY DEF IInv, Counted, Running, Phase
<1>5. Progress'
  BY <1>0 DEF IInv, Progress, Counted, Running, Phase, Copying, Dropping, Apart, MayMove
<1> QED BY <1>1, <1>2, <1>3, <1>4, <1>5 DEF IInv

\* The move to a trash sibling fails, after an older sibling was removed.
LEMMA AsideFailsInv == ASSUME IInv, NEW q \in Path, AsideFails(q) PROVE IInv'
<1> USE DEF AsideFails, Set, counts, memory, bounds, Staging
<1>1. TypeOK'
  BY Entries DEF IInv, TypeOK, Phase
<1>2. Untorn'
  BY Entries DEF IInv, TypeOK, Untorn
<1>3. Counted'
  BY DEF IInv, Counted, Running, Phase
<1>4. Progress'
  BY DEF IInv, TypeOK, Progress, Counted, Running, Phase, Deleting, Copying, Dropping, Apart, MayMove
<1>5. Stale'
  BY Entries DEF IInv, Stale, TypeOK, Counted, Staging, Running, Phase
<1> QED BY <1>1, <1>2, <1>3, <1>4, <1>5 DEF IInv

\* A rename or a removal fails after publishing began.
LEMMA PublishFailsInv == ASSUME IInv, PublishFails PROVE IInv'
<1> USE DEF PublishFails, LateFault, disk, files, memory
<1>1. TypeOK'
  BY BoundAssumption DEF IInv, TypeOK, Phase
<1>2. Untorn'
  BY DEF IInv, Untorn
<1>3. Counted'
  BY DEF IInv, TypeOK, Counted, Running, Phase
<1>4. faults' # before'.faults
  BY DEF IInv, TypeOK, Counted, Running, Phase
<1>5. Progress'
  BY <1>4 DEF IInv, Progress, Publishing, Dropping, TrashKept, Between, New, MayMove
<1>6. Stale'
  BY Entries DEF IInv, Stale, TypeOK, Counted, Staging, Running, Phase
<1> QED BY <1>1, <1>2, <1>3, <1>5, <1>6 DEF IInv

\* A step of the rollback may fail, which is a late fault.
LEMMA MoreFaults ==
    ASSUME IInv, LateFault \/ UNCHANGED faults
    PROVE  /\ faults' \in 0..MaxFaults /\ faults <= faults'
           /\ faults' # faults => faults' > 0 /\ faults' > before.faults
  BY BoundAssumption DEF IInv, TypeOK, Counted, LateFault

\* Drop removes a staged copy.
LEMMA DropCopyInv == ASSUME IInv, NEW q \in Path, DropCopy(q) PROVE IInv'
<1> USE DEF DropCopy, Set, counts
<1>1. /\ faults' \in 0..MaxFaults /\ faults <= faults'
      /\ faults' # faults => faults' > 0 /\ faults' > before.faults
  BY MoreFaults
<1>2. /\ \/ tmp' = Set(tmp, q, Missing) /\ faults' = faults
         \/ tmp' = tmp /\ faults' > faults
      /\ tmp' \in [Path -> Atomic!Entry \ {Dir}]
  BY Entries DEF IInv, TypeOK, LateFault
<1>3. TypeOK'
  BY <1>1, <1>2 DEF IInv, TypeOK
<1>4. Untorn'
  BY DEF IInv, Untorn
<1>5. Stale'
  BY <1>1, <1>2, Entries DEF IInv, Stale, TypeOK, Counted, Staging, Running, Phase
<1>6. Counted'
  BY <1>1 DEF IInv, Counted, TypeOK
<1>7. Progress'
  BY <1>1 DEF IInv, Progress, TypeOK, Dropping, Apart, TrashKept, Between, New, MayMove
<1> QED BY <1>3, <1>4, <1>5, <1>6, <1>7 DEF IInv

\* An entry that comes back is the one that was moved aside.
LEMMA DropTrashInv == ASSUME IInv, NEW q \in Path, DropTrash(q) PROVE IInv'
<1> USE DEF DropTrash, Restore, Set, counts
<1>1. /\ faults' \in 0..MaxFaults /\ faults <= faults'
      /\ faults' # faults => faults' > 0 /\ faults' > before.faults
  BY MoreFaults
<1>2. \/ dest' = Set(dest, q, trash[q]) /\ trash' = Set(trash, q, Missing)
         /\ faults' = faults
      \/ dest' = dest /\ trash' = trash /\ faults' = faults
         /\ trash[q] = Dir /\ dest[q] # Missing
      \/ dest' = dest /\ trash' = trash /\ faults' > faults
  BY DEF IInv, TypeOK, LateFault
<1>3. TypeOK'
  BY <1>1, <1>2, Entries DEF IInv, TypeOK
<1>4. Untorn'
  BY <1>2, Entries DEF IInv, TypeOK, Untorn
<1>5. Stale'
  BY <1>1, Entries DEF IInv, Stale, TypeOK, Counted, Staging, Running, Phase
<1>6. Counted'
  BY <1>1 DEF IInv, Counted, TypeOK
<1>7. Progress'
  BY <1>1, <1>2 DEF IInv, TypeOK, Progress, Dropping, Apart, TrashKept, Between, New, MayMove
<1> QED BY <1>3, <1>4, <1>5, <1>6, <1>7 DEF IInv

\* Drop has undone everything.
LEMMA DroppedInv == ASSUME IInv, Dropped PROVE IInv'
<1> USE DEF Dropped, disk, files, bounds
<1>1. TypeOK'
  BY DEF IInv, TypeOK, Phase
<1>2. Untorn'
  BY DEF IInv, Untorn
<1>3. Counted' /\ Progress'
  BY DEF IInv, Counted, Progress, Running, Phase
<1>4. Stale'
  BY Entries DEF IInv, Stale, TypeOK, Counted, Staging, Running, Phase
<1> QED BY <1>1, <1>2, <1>3, <1>4 DEF IInv

\* The commit counter cannot be written.
LEMMA CountFailsInv == ASSUME IInv, CountFails PROVE IInv'
<1> USE DEF CountFails, LateFault, disk, files, memory
<1>1. TypeOK'
  BY BoundAssumption DEF IInv, TypeOK, Phase
<1>2. Untorn'
  BY DEF IInv, Untorn
<1>3. Counted' /\ Progress'
  BY DEF IInv, TypeOK, Counted, Progress, Running, Phase
<1>4. Stale'
  BY Entries DEF IInv, Stale, TypeOK, Counted, Staging, Running, Phase
<1> QED BY <1>1, <1>2, <1>3, <1>4 DEF IInv

\* What is left of a branch is a branch, and not torn.
LEMMA HalfRemoveKeeps ==
    ASSUME IInv, HalfRemove
    PROVE  /\ branch' \in Atomic!Branches /\ Atomic!Remains(branch, branch')
           /\ \A p \in Path : branch'.files[p] # Torn
<1>1. PICK c \in Atomic!Branches : Atomic!Remains(branch, c) /\ branch' = c
  BY DEF HalfRemove
<1>2. \A p \in Path : c.files[p] \in {branch.files[p], Missing}
  BY <1>1 DEF Atomic!Remains, Missing
<1> QED BY <1>1, <1>2, Entries DEF IInv, Untorn

\* The branch directory cannot be removed, or only in part.
LEMMA RemoveFailsInv == ASSUME IInv, RemoveFails PROVE IInv'
<1> USE DEF RemoveFails, LateFault, files, counts, memory
<1>1. TypeOK'
  BY HalfRemoveKeeps, BoundAssumption DEF IInv, TypeOK, Phase
<1>2. Untorn'
  BY HalfRemoveKeeps DEF IInv, Untorn
<1>3. Counted' /\ Progress'
  BY DEF IInv, TypeOK, Counted, Progress, Running, Phase
<1>4. Stale'
  BY Entries DEF IInv, Stale, TypeOK, Counted, Staging, Running, Phase
<1> QED BY <1>1, <1>2, <1>3, <1>4 DEF IInv

\* The branch is written to between two attempts.
LEMMA EditInv == ASSUME IInv, NEW q \in Path, Edit(q) PROVE IInv'
<1> USE DEF Edit, files, counts, memory
<1>1. /\ File(edits + 2) \in Atomic!Entry /\ File(edits + 2) \notin {Missing, Dir, Torn}
      /\ Link(edits + 2) \in Atomic!Entry /\ Link(edits + 2) \notin {Missing, Dir, Torn}
  <2>1. edits \in Nat /\ MaxEdits \in Nat /\ edits < MaxEdits
    BY BoundAssumption DEF IInv, TypeOK
  <2>2. edits + 2 \in 0..(MaxEdits + 1)
    BY <2>1
  <2> QED BY <2>2, Entries
<1>2. branch' \in Atomic!Branches /\ \A p \in Path : branch'.files[p] # Torn
  <2>1. branch \in [alive : BOOLEAN, files : [Path -> Atomic!Entry \ {Dir}], tombs : SUBSET Path]
    BY BranchFields DEF IInv, TypeOK
  <2>2. \A p \in Path : branch.files[p] # Torn
    BY DEF IInv, Untorn
  <2>3. PICK e \in {File(edits + 2), Link(edits + 2), Missing}, S \in SUBSET Path :
            branch' = [branch EXCEPT !.files[q] = e, !.tombs = S]
    BY <2>1
  <2> QED BY <1>1, <2>1, <2>2, <2>3, Entries, BranchFields
<1>3. TypeOK'
  BY <1>2, BoundAssumption DEF IInv, TypeOK
<1>4. Untorn'
  BY <1>2 DEF IInv, Untorn
<1>5. Counted' /\ Progress'
  BY DEF IInv, Counted, Progress, Running, Phase
<1>6. Stale'
  BY Entries DEF IInv, Stale, TypeOK, Counted, Staging, Running, Phase
<1> QED BY <1>3, <1>4, <1>5, <1>6 DEF IInv

\* The branch is aborted.
LEMMA AbortInv == ASSUME IInv, Abort PROVE IInv'
<1> USE DEF Abort, files, counts, memory, bounds
<1>0. branch' \in Atomic!Branches /\ branch'.files = branch.files
  <2>1. branch \in [alive : BOOLEAN, files : [Path -> Atomic!Entry \ {Dir}], tombs : SUBSET Path]
    BY BranchFields DEF IInv, TypeOK
  <2>2. branch' = [branch EXCEPT !.alive = FALSE]
    OBVIOUS
  <2> QED BY <2>1, <2>2, BranchFields
<1>1. TypeOK'
  BY <1>0 DEF IInv, TypeOK, Phase
<1>2. Untorn'
  BY <1>0 DEF IInv, Untorn
<1>3. Counted' /\ Progress'
  BY DEF IInv, Counted, Progress, Running, Phase
<1>4. Stale'
  BY Entries DEF IInv, Stale, TypeOK, Counted, Staging, Running, Phase
<1> QED BY <1>1, <1>2, <1>3, <1>4 DEF IInv

\* What a crash leaves of the copy that was being made.
LEMMA CrashKeeps ==
    ASSUME IInv, Crash
    PROVE  /\ dest' \in [Path -> Atomic!Entry] /\ tmp' \in [Path -> Atomic!Entry \ {Dir}]
           /\ astray \subseteq astray' /\ astray' \subseteq Path
           /\ astray' # astray => phase = "copying" /\ faults > 0
           /\ phase # "copying" => dest' = dest
           /\ \A p \in Path \ astray' : dest'[p] = dest[p]
<1>1. CASE phase = "copying" /\ \E q \in todo : CopyEntryCut(q)
  <2>1. PICK q \in todo : CopyEntryCut(q)
    BY <1>1
  <2>2. q \in Path
    BY DEF IInv, TypeOK
  <2> QED BY <1>1, <2>1, <2>2, CopyKeeps
<1>2. CASE UNCHANGED <<tmp, dest, astray>>
  BY <1>2 DEF IInv, TypeOK
<1> QED BY <1>1, <1>2 DEF Crash

\* A crash: the lists are lost and the disk stays as it was.
LEMMA CrashInv == ASSUME IInv, Crash PROVE IInv'
<1> USE DEF Crash, LateFault
<1>1. /\ dest' \in [Path -> Atomic!Entry] /\ tmp' \in [Path -> Atomic!Entry \ {Dir}]
      /\ astray \subseteq astray' /\ astray' \subseteq Path
      /\ \A p \in Path \ astray' : dest'[p] = dest[p]
  BY CrashKeeps
<1>2. branch' \in Atomic!Branches /\ \A p \in Path : branch'.files[p] # Torn
  BY HalfRemoveKeeps DEF IInv, TypeOK, Untorn
<1>3. TypeOK'
  BY <1>1, <1>2, BoundAssumption DEF IInv, TypeOK, Phase
<1>4. Untorn'
  BY <1>1, <1>2 DEF IInv, Untorn
<1>5. Stale'
  BY <1>1 DEF IInv, Stale, TypeOK, Staging, Running
<1>6. Counted' /\ Progress'
  BY DEF IInv, TypeOK, Counted, Progress, Running, Phase
<1> QED BY <1>3, <1>4, <1>5, <1>6 DEF IInv

\* The daemon starts again.
LEMMA RestartInv == ASSUME IInv, Restart PROVE IInv'
<1> USE DEF Restart, disk, files, bounds
<1>1. TypeOK'
  BY DEF IInv, TypeOK, Phase
<1>2. Untorn'
  BY DEF IInv, Untorn
<1>3. Counted' /\ Progress'
  BY DEF IInv, TypeOK, Counted, Progress, Running, Phase
<1>4. Stale'
  BY Entries DEF IInv, Stale, TypeOK, Counted, Staging, Running, Phase
<1> QED BY <1>1, <1>2, <1>3, <1>4 DEF IInv

\* A stuttering step.
LEMMA StutterInv == ASSUME IInv, UNCHANGED vars PROVE IInv'
<1> USE DEF vars, disk, files, memory, bounds
<1>1. TypeOK' /\ Untorn' /\ Stale' /\ Counted'
  BY DEF IInv, TypeOK, Untorn, Stale, Counted
<1>2. Progress'
  BY DEF IInv, Progress, Deleting, Copying, Publishing, Dropping, Apart, TrashKept,
         Between, New, MayMove
<1> QED BY <1>1, <1>2 DEF IInv

\* Every step keeps the invariant: one lemma for each action.
LEMMA StepInv == ASSUME IInv, [Next]_vars PROVE IInv'
<1>1. CASE MergeStep
  BY <1>1, BeginInv, DeletesStagedInv, CopiesStagedInv, CopiesPublishedInv, TrashDiscardedInv,
     CountCommitInv, RemoveBranchInv, DroppedInv, StageDeleteInv, StageDirAsideInv,
     StageCopyInv, PublishCopyInv, DiscardTrashInv, DropCopyInv, DropTrashInv DEF MergeStep
<1>2. CASE Failure
  BY <1>2, PublishFailsInv, CountFailsInv, RemoveFailsInv, CopyFailsInv, AsideFailsInv DEF Failure
<1>3. CASE Abort \/ Crash \/ Restart \/ \E p \in Path : Edit(p)
  BY <1>3, AbortInv, CrashInv, RestartInv, EditInv
<1> QED BY <1>1, <1>2, <1>3, StutterInv DEF Next

\* The invariant holds in every behaviour.
LEMMA Inductive == Spec => []IInv
<1>1. Init => IInv
  BY InitInv
<1>2. IInv /\ [Next]_vars => IInv'
  BY StepInv
<1> QED BY <1>1, <1>2, PTL DEF Spec

\* Files on disk, lists in memory and counters are what StagedMerge and
\* Branch declare, in every phase, after every error and crash.
THEOREM TypeCorrect == Spec => []TypeOK
<1>1. IInv => TypeOK
  BY DEF IInv
<1> QED BY <1>1, Inductive, PTL

\* Until publishing begins every entry of the destination is at its place or
\* in its own trash: what stage_delete and stage_copy have moved, Drop can put
\* back.  Except what copy_entry writes through a temp link of a crashed commit.
THEOREM NothingDestroyed == Spec => []NothingDestroyedEarly
<1>1. IInv => NothingDestroyedEarly
  BY DEF IInv, Progress, Deleting, Copying, Apart, NothingDestroyedEarly, Staging
<1> QED BY <1>1, Inductive, PTL

\* StagedMerge::commit never renames a copy into place that was cut short,
\* whatever temps earlier attempts have left, and what it tears by writing
\* through a temp that is a link is named in astray.
THEOREM NeverTorn == Spec => []NoTornFile
<1>1. IInv => NoTornFile
  BY DEF IInv, Untorn, NoTornFile
<1> QED BY <1>1, Inductive, PTL

----------------------------------------------------------------------------
(* The refinement                                                          *)

\* What AtomicMerge calls tree, count, faults and astray.
Tree   == IF phase \in {"idle", "down"} THEN dest ELSE before.tree
Count  == IF phase \in {"idle", "down"} THEN meta ELSE before.count
Faults == IF phase \in {"idle", "down"} THEN faults ELSE before.faults
Astray == IF phase \in {"idle", "down"} THEN astray ELSE before.astray

\* What a merge is to make of p is what AtomicMerge says.
LEMMA MergedIsNew ==
    ASSUME NEW p \in Path
    PROVE  New(p) = Atomic!Merged(before.tree, branch)[p]
  BY DEF New, Atomic!Merged, Atomic!Copied, Missing

\* A merge that is cut short has done to every path what Interrupt allows.
LEMMA BetweenIsInterrupted ==
    ASSUME IInv, NEW p \in Path, Between(p)
    PROVE  \/ dest[p] \in {before.tree[p], Atomic!Merged(before.tree, branch)[p]}
           \/ p \in Atomic!MovedAway(before.tree, branch) /\ dest[p] = Missing
<1>1. New(p) = Atomic!Merged(before.tree, branch)[p]
  BY MergedIsNew
<1>2. MayMove(p) => p \in Atomic!MovedAway(before.tree, branch)
  BY DEF MayMove, Atomic!MovedAway, Atomic!Copied, Missing, Dir
<1> QED BY <1>1, <1>2 DEF Between

\* In every phase but the last each path is old, new or moved away.
LEMMA AlwaysBetween ==
    ASSUME IInv, phase \in Running
    PROVE  \A p \in Path \ astray : Between(p)
  BY DEF IInv, Progress, Running, Phase, Deleting, Copying, Publishing, Dropping, Apart, Between

\* What the paths that go astray in a merge are to AtomicMerge, when it ends.
LEMMA EndsStraying ==
    ASSUME IInv, phase \in Running, phase' \in {"idle", "down"},
           dest' \in [Path -> Atomic!Entry], astray \subseteq astray', astray' \subseteq Path,
           astray' # astray => faults > 0 /\ phase = "copying"
    PROVE  /\ Atomic!Straying
           /\ Astray' = astray' /\ Tree' = dest'
<1>1. Tree' = dest' /\ Astray' = astray' /\ Astray = before.astray /\ Faults = before.faults
  BY DEF Tree, Astray, Faults, Running
<1>2. before.astray \subseteq astray'
  BY DEF IInv, Stale
<1>3. astray' # before.astray => before.faults > 0
  BY DEF IInv, Stale, Counted, Running, Phase
<1> QED BY <1>1, <1>2, <1>3 DEF Atomic!Straying, Tree, Astray, Faults

\* The end of a merge that was cut short before the counter was advanced.
LEMMA EndsInterrupted ==
    ASSUME IInv, phase \in Running \ {"removing"}, phase' \in {"idle", "down"},
           dest' \in [Path -> Atomic!Entry], astray \subseteq astray', astray' \subseteq Path,
           astray' # astray => faults > 0 /\ phase = "copying",
           \A p \in Path \ astray' : dest'[p] = dest[p],
           meta' = meta, branch' = branch, faults' \in Nat, before.faults < faults'
    PROVE  Atomic!Interrupt
<1>1. Tree = before.tree /\ Count = before.count /\ Faults = before.faults
         /\ Tree' = dest' /\ Count' = meta /\ Faults' = faults' /\ Astray' = astray'
  BY DEF Tree, Count, Faults, Astray, Running
<1>2. branch.alive /\ meta = before.count
  BY DEF IInv, Counted
<1>3. ASSUME NEW p \in Path \ astray'
      PROVE  \/ dest'[p] \in {before.tree[p], Atomic!Merged(before.tree, branch)[p]}
             \/ p \in Atomic!MovedAway(before.tree, branch) /\ dest'[p] = Missing
  <2>1. p \in Path /\ Between(p) /\ dest'[p] = dest[p]
    BY AlwaysBetween
  <2> QED BY <2>1, BetweenIsInterrupted
<1>4. Atomic!Straying
  BY EndsStraying
<1> QED BY <1>1, <1>2, <1>3, <1>4 DEF Atomic!Interrupt, Tree, Count, Faults, Astray, Missing

\* A merge that is done is the one AtomicMerge asks for.
LEMMA EndsMerged ==
    ASSUME IInv, phase = "removing", phase' \in {"idle", "down"}, dest' = dest,
           astray' = astray
    PROVE  Atomic!Becomes(Atomic!Merged(Tree, branch))
<1>1. phase \in Running /\ dest' \in [Path -> Atomic!Entry] /\ astray' \subseteq Path
  BY DEF Running, Phase, IInv, TypeOK
<1>2. Atomic!Straying /\ Tree' = dest /\ Astray' = astray /\ Tree = before.tree
  BY <1>1, EndsStraying DEF Tree
<1>3. \A p \in Path \ astray : dest[p] = Atomic!Merged(before.tree, branch)[p]
  BY MergedIsNew DEF IInv, Progress
<1> QED BY <1>2, <1>3 DEF Atomic!Becomes, Tree, Astray

\* The end of a merge that was cut short after the counter was advanced.
LEMMA EndsHalfRemoved ==
    ASSUME IInv, phase = "removing", phase' \in {"idle", "down"},
           dest' = dest, astray' = astray, meta' = meta, faults' \in Nat,
           before.faults < faults',
           branch' \in Atomic!Branches, Atomic!Remains(branch, branch')
    PROVE  Atomic!HalfRemoved
<1>1. Count = before.count /\ Faults = before.faults /\ Count' = meta /\ Faults' = faults'
  BY DEF Count, Faults
<1>2. branch.alive /\ before.count < meta
  BY DEF IInv, Counted, Running, Phase
<1>3. Atomic!Becomes(Atomic!Merged(Tree, branch))
  BY EndsMerged
<1> QED BY <1>1, <1>2, <1>3 DEF Atomic!HalfRemoved, Tree, Count, Faults

\* A branch that is left alone is all that remains of it.
LEMMA RemainsItself == Atomic!Remains(branch, branch)
  BY DEF Atomic!Remains

\* The whole session is seen with the removal of the branch.
LEMMA RemoveBranchCommits == ASSUME IInv, RemoveBranch PROVE Atomic!Commit
<1>1. Count = before.count /\ Faults = before.faults /\ Count' = meta /\ Faults' = faults
  BY DEF RemoveBranch, Count, Faults, files, counts, bounds
<1>2. branch.alive /\ before.count < meta /\ faults = before.faults
  BY DEF IInv, Counted, Running, Phase, RemoveBranch
<1>3. Atomic!Becomes(Atomic!Merged(Tree, branch))
  BY EndsMerged DEF RemoveBranch, files
<1> QED BY <1>1, <1>2, <1>3 DEF Atomic!Commit, Tree, Count, Faults, RemoveBranch

\* A rollback that no late fault came before is seen only where paths went
\* astray; after one it ends an interrupted merge.
LEMMA DroppedEnds == ASSUME IInv, Dropped PROVE Atomic!Interrupt \/ Atomic!Fail
<1> USE DEF Dropped, disk, files, bounds
<1>0. phase \in Running \ {"removing"} /\ dest' \in [Path -> Atomic!Entry] /\ astray' \subseteq Path
  BY DEF Running, Phase, IInv, TypeOK
<1>1. CASE faults = before.faults
  <2>1. \A p \in Path \ astray : dest[p] = before.tree[p]
    BY <1>1 DEF IInv, Progress, Dropping, Apart
  <2>2. meta = before.count /\ branch.alive
    BY <1>0 DEF IInv, Counted
  <2>3. Atomic!Straying /\ Tree' = dest /\ Astray' = astray /\ Tree = before.tree
    BY <1>0, EndsStraying DEF Tree
  <2>4. Atomic!Becomes(Tree)
    BY <2>1, <2>3 DEF Atomic!Becomes, Tree, Astray
  <2> QED BY <1>1, <2>2, <2>4 DEF Atomic!Fail, Tree, Count, Faults
<1>2. CASE faults # before.faults
  <2>1. faults' \in Nat /\ before.faults < faults'
    BY <1>2 DEF IInv, Counted, TypeOK
  <2> QED BY <1>0, <2>1, EndsInterrupted
<1> QED BY <1>1, <1>2

\* A crash in a merge, and one while an abort removes the branch.
LEMMA CrashEnds == ASSUME IInv, Crash PROVE Atomic!Interrupt \/ Atomic!HalfRemoved
<1>1. faults' \in Nat /\ before.faults < faults' /\ faults < faults'
  BY DEF Crash, LateFault, IInv, Counted, TypeOK
<1>2. branch' \in Atomic!Branches /\ Atomic!Remains(branch, branch')
  BY HalfRemoveKeeps, RemainsItself DEF Crash, IInv, TypeOK
<1>3. /\ dest' \in [Path -> Atomic!Entry]
      /\ astray \subseteq astray' /\ astray' \subseteq Path
      /\ astray' # astray => phase = "copying" /\ faults > 0
      /\ phase # "copying" => dest' = dest
      /\ \A p \in Path \ astray' : dest'[p] = dest[p]
  BY CrashKeeps
<1>4. phase' = "down" /\ meta' = meta /\ branch.alive /\ phase # "down"
  BY DEF Crash
<1>5. CASE phase \in Running \ {"removing"}
  <2>1. branch' = branch
    BY <1>5 DEF Crash, Running
  <2> QED BY <1>1, <1>3, <1>4, <1>5, <2>1, EndsInterrupted
<1>6. CASE phase = "removing"
  BY <1>1, <1>2, <1>3, <1>4, <1>6, EndsHalfRemoved
<1>7. CASE phase = "idle"
  <2>1. astray' = astray /\ dest' = dest
    BY <1>3, <1>7
  <2>2. Atomic!Becomes(Tree)
    BY <1>3, <1>4, <1>7, <2>1 DEF Atomic!Becomes, Atomic!Straying, Tree, Astray, Faults
  <2> QED BY <1>1, <1>2, <1>4, <1>7, <2>2 DEF Atomic!HalfRemoved, Tree, Count, Faults
<1> QED BY <1>4, <1>5, <1>6, <1>7 DEF IInv, TypeOK, Running

\* Every late failure ends the merge as AtomicMerge allows, or is not seen
\* before the rollback is done.
LEMMA FailureEnds ==
    ASSUME IInv, Failure
    PROVE  Atomic!Next \/ UNCHANGED <<Tree, branch, Count, Faults, Astray>>
<1>1. CASE PublishFails
  BY <1>1 DEF PublishFails, Tree, Count, Faults, Astray, disk, files
<1>2. CASE CountFails
  <2>1. faults' \in Nat /\ before.faults < faults'
    BY <1>2 DEF CountFails, LateFault, IInv, Counted, TypeOK
  <2>2. /\ phase \in Running \ {"removing"} /\ phase' = "idle" /\ dest' = dest
        /\ astray' = astray /\ meta' = meta /\ branch' = branch
    BY <1>2 DEF CountFails, disk, files, Running, Phase
  <2>3. dest' \in [Path -> Atomic!Entry] /\ astray' \subseteq Path
    BY <2>2 DEF IInv, TypeOK
  <2> QED BY <2>1, <2>2, <2>3, EndsInterrupted DEF Atomic!Next
<1>3. CASE RemoveFails
  <2>1. faults' \in Nat /\ before.faults < faults'
    BY <1>3 DEF RemoveFails, LateFault, IInv, Counted, TypeOK
  <2> QED BY <1>3, <2>1, HalfRemoveKeeps, EndsHalfRemoved DEF RemoveFails, files, counts, Atomic!Next
<1>4. ASSUME NEW p \in Path, CopyFails(p) \/ AsideFails(p)
      PROVE  UNCHANGED <<Tree, branch, Count, Faults, Astray>>
  BY <1>4 DEF CopyFails, AsideFails, Staging, Tree, Count, Faults, Astray
<1> QED BY <1>1, <1>2, <1>3, <1>4 DEF Failure

\* Inside the merge only the last step and the end of the rollback are seen.
LEMMA MergeStepEnds ==
    ASSUME IInv, MergeStep
    PROVE  Atomic!Next \/ UNCHANGED <<Tree, branch, Count, Faults, Astray>>
<1>1. CASE Begin
  BY <1>1 DEF Begin, Tree, Count, Faults, Astray, disk, files
<1>2. CASE DeletesStaged \/ CopiesStaged \/ CopiesPublished \/ TrashDiscarded \/ CountCommit
  BY <1>2 DEF DeletesStaged, CopiesStaged, CopiesPublished, TrashDiscarded, CountCommit,
              Tree, Count, Faults, Astray, disk, files
<1>3. CASE RemoveBranch
  BY <1>3, RemoveBranchCommits DEF Atomic!Next
<1>4. CASE Dropped
  BY <1>4, DroppedEnds DEF Atomic!Next
<1>5. ASSUME NEW p \in Path,
             StageDelete(p) \/ StageDirAside(p) \/ StageCopy(p) \/ PublishCopy(p)
                \/ DiscardTrash(p) \/ DropCopy(p) \/ DropTrash(p)
      PROVE  UNCHANGED <<Tree, branch, Count, Faults, Astray>>
  BY <1>5 DEF StageDelete, StageDirAside, StageCopy, PublishCopy, DiscardTrash, DropCopy,
              DropTrash, Tree, Count, Faults, Astray
<1> QED BY <1>1, <1>2, <1>3, <1>4, <1>5 DEF MergeStep

\* The session's edits and the abort are those of AtomicMerge.
LEMMA SessionSteps ==
    ASSUME IInv, IInv', Abort \/ \E p \in Path : Edit(p)
    PROVE  Atomic!Next
<1>1. CASE Abort
  BY <1>1, SMTT(30) DEF Abort, Atomic!Abort, Atomic!Next, files, counts, bounds
<1>2. ASSUME NEW p \in Path, Edit(p) PROVE Atomic!Next
  <2>1. branch' \in Atomic!Branches
    BY DEF IInv, TypeOK
  <2>2. branch'.alive
    <3>1. branch \in [alive : BOOLEAN, files : [Path -> Atomic!Entry \ {Dir}], tombs : SUBSET Path]
      BY BranchFields, SMTT(30) DEF IInv, TypeOK
    <3>2. PICK e \in {File(edits + 2), Link(edits + 2), Missing}, S \in SUBSET Path :
              branch' = [branch EXCEPT !.files[p] = e, !.tombs = S]
      BY <1>2, <3>1 DEF Edit
    <3>3. branch.alive
      BY <1>2 DEF Edit
    <3> QED BY <3>1, <3>2, <3>3
  <2> QED BY <1>2, <2>1, <2>2 DEF Edit, Atomic!Edit, Atomic!Next, files, counts
<1> QED BY <1>1, <1>2

\* Initial states map to initial states.
LEMMA InitImplements == Init => Atomic!Init
<1> SUFFICES ASSUME Init PROVE Atomic!Init
  OBVIOUS
<1>1. IInv
  BY InitInv
<1>2. branch.alive
  BY DEF Init
<1> QED BY <1>1, <1>2 DEF Init, Atomic!Init, IInv, TypeOK

\* Every step maps to a step of AtomicMerge or to a stutter.
LEMMA StepImplements ==
    ASSUME IInv, IInv', [Next]_vars
    PROVE  Atomic!Next \/ UNCHANGED <<Tree, branch, Count, Faults, Astray>>
<1>1. CASE Crash
  BY <1>1, CrashEnds DEF Atomic!Next
<1>2. CASE Restart
  BY <1>2 DEF Restart, Tree, Count, Faults, Astray, disk, files, bounds
<1>3. CASE UNCHANGED vars
  BY <1>3 DEF vars, Tree, Count, Faults, Astray, disk, files, bounds
<1> QED BY <1>1, <1>2, <1>3, MergeStepEnds, FailureEnds, SessionSteps DEF Next

\* The system calls of a commit, its errors, its rollback and the crashes
\* implement AtomicMerge: those who read through the branch table see the
\* whole session, nothing of it, or what a late fault may leave; and a path
\* goes astray only after a crash or a late fault.
THEOREM Implements == Spec => AtomicSpec
<1>1. Init => Atomic!Init
  BY InitImplements
<1>2. IInv /\ IInv' /\ [Next]_vars => [Atomic!Next]_<<Tree, branch, Count, Faults, Astray>>
  BY StepImplements
<1> QED BY <1>1, <1>2, Inductive, PTL DEF Spec, AtomicSpec, Atomic!Spec, Tree, Count, Faults, Astray
=============================================================================
