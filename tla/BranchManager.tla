--------------------------- MODULE BranchManager ---------------------------
(***************************************************************************)
(* The branch manager of src/src/branch.rs: a tree of copy-on-write        *)
(* branches over a base directory, with the file operations of             *)
(* src/src/fs.rs that reach it.  Each operation is one step: create,       *)
(* commit and abort hold the lock of the branch table, and one mount       *)
(* serves its requests one after the other.  revert, freeze and thaw share *)
(* that lock with writers: how their steps overlap is in BranchFs,         *)
(* BranchLog and StorageQuota.                                             *)
(*                                                                         *)
(* branches is the manager's HashMap: its DOMAIN is the set of branches    *)
(* that exist.  The record of a branch holds                               *)
(*   parent   the parent branch (Main is its own)                          *)
(*   chain    the branches that resolve_path_locked visits, in order: the  *)
(*            branch, its parent, ... until main or a snapshot branch      *)
(*   mode     InheritanceMode                                              *)
(*   frozen   BranchState::Frozen                                          *)
(*   forkver  parent_version_at_fork                                       *)
(*   commits  commit_count                                                 *)
(*   hide     hide_paths                                                   *)
(*   inh      the inherited/ snapshot (empty for a lazy branch)            *)
(*   delta    the files/ directory                                         *)
(*   tomb     the tombstones                                               *)
(*   touch    the touch records                                            *)
(*   sess     which incarnation of the name this is (not in the code)      *)
(* A line is the number of the incarnation that wrote it plus one, or 0    *)
(* for a line of the original base: so a line tells who wrote it.          *)
(***************************************************************************)
EXTENDS BranchTree, TextMerge

CONSTANTS
    Branch,     \* branch names
    Main,       \* "main"
    Agents,     \* the branches that are mounted and written to
    Ops,        \* the operations their programs use
    ParentsWritten, \* whether programs write to a branch that has children
    Mode,       \* the inheritance modes branches are created with
    HideSets,   \* the hide lists branches are created with
    TextPath,   \* paths whose files are text of at most MAX_TEXT_MERGE_BYTES
    Base0,      \* the base directory at the start
    QuotaFails, \* whether a copy can find the storage quota exhausted
    MaxLines,   \* bound: lines a program writes to a file
    MaxOps,     \* bound: file operations in a behaviour
    MaxEpoch    \* bound: epoch, which counts the manager's operations

ASSUME BranchAssumption == Main \in Branch /\ Agents \subseteq Branch
ASSUME ModeAssumption   == Mode \subseteq {"lazy", "snapshot"}
ASSUME HideAssumption   == HideSets \subseteq SUBSET Path
ASSUME BaseAssumption   == Base0 \in Tree /\ IsTree(Base0)
ASSUME BoundAssumption  == MaxLines \in Nat /\ MaxOps \in Nat /\ MaxEpoch \in Nat
ASSUME SwitchAssumption == QuotaFails \in BOOLEAN /\ ParentsWritten \in BOOLEAN
ASSUME LineAssumption   == Line = 0..(MaxEpoch + 1)

VARIABLES
    base,       \* the base directory
    branches,   \* the branch table
    epoch,      \* BranchManager.epoch
    ops,        \* file operations so far
    report      \* how the last step ended: its status and, for a commit,
                \* the CommitOutcome

vars == <<base, branches, epoch, ops, report>>

-----------------------------------------------------------------------------
(***************************************************************************)
(* Records.                                                                *)
(***************************************************************************)
\* A TouchRecord; captured says that base_content_key is set, and then the
\* content kept is the lines of the identity.
Touch(id, captured) == [made |-> TRUE, id |-> id, captured |-> captured]
NoTouch == [made |-> FALSE, id |-> Missing, captured |-> FALSE]

TouchRecord == [made : BOOLEAN, id : Entry, captured : BOOLEAN]

BranchRecord ==
    [parent : Branch, chain : Seq(Branch), mode : {"lazy", "snapshot"},
     frozen : BOOLEAN, forkver : Nat, commits : Nat, hide : SUBSET Path,
     inh : Tree, delta : Tree, tomb : SUBSET Path,
     touch : [Path -> TouchRecord], sess : 0..MaxEpoch]

Report == [status : {"ok", "eio", "committed", "failed"},
           conflicts : SUBSET Path, merges : SUBSET Path]

Ended(status) == [status |-> status, conflicts |-> {}, merges |-> {}]

\* Branch::new
NewBranch(parent, chain, mode, forkver, hide, inh, sess) ==
    [parent |-> parent, chain |-> chain, mode |-> mode, frozen |-> FALSE,
     forkver |-> forkver, commits |-> 0, hide |-> hide, inh |-> inh,
     delta |-> EmptyTree, tomb |-> {}, touch |-> [p \in Path |-> NoTouch],
     sess |-> sess]

-----------------------------------------------------------------------------
(***************************************************************************)
(* Resolution.                                                             *)
(***************************************************************************)
\* A tombstone of a directory hides what is below it too.
IsDeleted(r, p) == \E t \in r.tomb : p \in Under(t)

IsHidden(r, p) == \E h \in r.hide : p \in Under(h)

\* resolve_path_locked ends at this branch: its delta, tombstone or hide rule.
Decides(r, p) == Exists(r.delta[p]) \/ IsDeleted(r, p) \/ IsHidden(r, p)

\* The i-th branch of a chain is the first that decides p.
FirstDecider(ch, p, i) ==
    /\ Decides(branches[ch[i]], p)
    /\ \A j \in 1..(i - 1) : ~Decides(branches[ch[j]], p)

\* What the last branch of a chain inherits from.
Underlay(ch) ==
    LET c == ch[Len(ch)] IN IF c = Main THEN base ELSE branches[c].inh

\* resolve_path_locked from the first branch of ch on.  A branch that decides
\* p without a delta entry makes it missing.
ResolveAlong(ch, p) ==
    IF \E i \in 1..Len(ch) : FirstDecider(ch, p, i)
    THEN branches[ch[CHOOSE i \in 1..Len(ch) : FirstDecider(ch, p, i)]].delta[p]
    ELSE Underlay(ch)[p]

ResolvePath(b, p) == ResolveAlong(branches[b].chain, p)

\* inherited_resolve_path_locked
InheritedPath(b, p) ==
    LET ch == branches[b].chain
    IN  IF Len(ch) = 1 THEN Underlay(ch)[p] ELSE ResolveAlong(Tail(ch), p)

\* Mutated form of InheritedForTouch: hide rules are forgotten.
InheritedDespiteHide(b, p) == InheritedPath(b, p)

\* resolve_inherited_for_touch_locked and inherited_path_exists_locked
InheritedForTouch(b, p) ==
    IF IsHidden(branches[b], p) THEN Missing ELSE InheritedPath(b, p)

\* A path the kernel can walk to: everything above it is a directory.
Reachable(b, p) == \A a \in Above(p) : IsDir(ResolvePath(b, a))

Visible(b, p) == Reachable(b, p) /\ Exists(ResolvePath(b, p))

\* collect_dir_names_locked: the same recursion as resolve_path_locked, so a
\* name is listed exactly when it resolves.
CollectDirNames(b, d) ==
    {q \in Path : ParentDir(q) = d /\ Exists(ResolvePath(b, q))}

\* snapshot_visible_tree: what a walk from the root finds.
SnapshotVisibleTree(b) ==
    [p \in Path |-> IF Visible(b, p) THEN ResolvePath(b, p) ELSE Missing]

-----------------------------------------------------------------------------
(***************************************************************************)
(* What one branch's record becomes.  src is InheritedForTouch(b, p).      *)
(***************************************************************************)
\* record_first_touch: only the first touch of a path is recorded.
RecordFirstTouch(touch, p, src, capture) ==
    IF touch[p].made THEN touch
    ELSE [touch EXCEPT ![p] = Touch(src, capture /\ IsFile(src) /\ p \in TextPath)]

\* ensure_delta_path_for_write_locked: copy an inherited file or link into the
\* delta, whether or not the branch itself has deleted the path.
EnsureDelta(r, p, src) ==
    IF Exists(r.delta[p])
    THEN [r EXCEPT !.tomb = @ \ {p}]
    ELSE [r EXCEPT !.touch = RecordFirstTouch(@, p, src, TRUE),
                   !.delta = MkParents(IF IsLeaf(src) THEN [@ EXCEPT ![p] = src]
                                       ELSE @, {p}),
                   !.tomb  = @ \ {p}]

\* Then create_dir_all or symlink at the path: EEXIST if a copy is there.
PlaceNew(r, p, src, e) ==
    [EnsureDelta(r, p, src) EXCEPT !.delta[p] = IF IsLeaf(src) THEN src ELSE e]

\* Mutated form of DropPath: the parent directory is removed with all that the
\* delta has in it (remove_dir_all for remove_dir).
DropPathWithSiblings(r, p, src) ==
    [r EXCEPT !.touch = RecordFirstTouch(@, p, src, FALSE),
              !.delta = IF Exists(@[p]) THEN RemoveTree(@, {p, ParentDir(p)}) ELSE @,
              !.tomb  = IF Exists(src) THEN @ \cup {p} ELSE @ \ {p}]

\* Mutated form of DropPath: every delete leaves a tombstone.
DropPathAlwaysTombstone(r, p, src) ==
    LET touch == RecordFirstTouch(r.touch, p, src, FALSE)
    IN  [r EXCEPT !.touch = touch,
                  !.delta = IF Exists(@[p])
                            THEN Prune(RemoveTree(@, {p}),
                                       {q \in Path : touch[q].made}, {ParentDir(p)})
                            ELSE @,
                  !.tomb  = @ \cup {p}]

\* The common part of delete_path_in_branch and rmdir_path_in_branch.
DropPath(r, p, src) ==
    LET touch == RecordFirstTouch(r.touch, p, src, FALSE)
    IN  [r EXCEPT !.touch = touch,
                  !.delta = IF Exists(@[p])
                            THEN Prune(RemoveTree(@, {p}),
                                       {q \in Path : touch[q].made}, {ParentDir(p)})
                            ELSE @,
                  !.tomb  = IF Exists(src) THEN @ \cup {p} ELSE @ \ {p}]

\* write_data_to_file at line i; a program writes inside a file or at its end.
PutLine(l, i, x) == IF i <= Len(l) THEN [l EXCEPT ![i] = x] ELSE Append(l, x)

\* write_data_to_branch on a file: copy on first write, staged and renamed.
WriteLine(r, p, src, i) ==
    LET r1 == EnsureDelta(r, p, src)
    IN  [r1 EXCEPT !.delta[p].lines = PutLine(@, i, r.sess + 1)]

\* Mutated form of RevertRecord: only the tombstone of the path itself goes.
RevertRecordExactly(r, p) ==
    [r EXCEPT !.delta = IF Exists(@[p])
                        THEN Prune(RemoveTree(@, {p}),
                                   {q \in Path : r.touch[q].made}, {ParentDir(p)})
                        ELSE @,
              !.tomb  = @ \ {p},
              !.touch = [q \in Path |-> IF q \in Under(p) THEN NoTouch ELSE @[q]]]

\* revert_path_in_branch
RevertRecord(r, p) ==
    [r EXCEPT !.delta = IF Exists(@[p])
                        THEN Prune(RemoveTree(@, {p}),
                                   {q \in Path : r.touch[q].made}, {ParentDir(p)})
                        ELSE @,
              !.tomb  = @ \ Under(p),
              !.touch = [q \in Path |-> IF q \in Under(p) THEN NoTouch ELSE @[q]]]

-----------------------------------------------------------------------------
(***************************************************************************)
(* rename: copy source and destination into the delta, remove what is at   *)
(* the destination, rename inside the delta, then set the tombstones.  It  *)
(* ends in EIO after these first steps when the delta has no source: an    *)
(* inherited directory is never copied.                                    *)
(***************************************************************************)
Moved(s, d, q) == s \o SubSeq(q, Len(d) + 1, Len(q))

\* Both paths copied up.
RenameCopied(r, s, d, srcS, srcD) == EnsureDelta(EnsureDelta(r, s, srcS), d, srcD)

\* And the destination's delta removed, unless nothing is visible there or it
\* is a link (Path::exists follows links, and links dangle).
RenameCleared(r, s, d, srcS, srcD) ==
    LET r2 == RenameCopied(r, s, d, srcS, srcD)
        existed == \/ Exists(r2.delta[d])
                   \/ ~IsDeleted(r2, d) /\ Exists(srcD)
    IN  IF existed /\ r2.delta[d].kind # "symlink"
        THEN RemoveTree(r2.delta, {d}) ELSE r2.delta

\* fs::rename inside the delta succeeds.
RenameWorks(r, s, d, srcS, srcD) ==
    LET t == RenameCleared(r, s, d, srcS, srcD)
    IN  Exists(t[s]) /\ ~(IsDir(t[s]) /\ IsLeaf(t[d]))

RenameRecord(r, s, d, srcS, srcD) ==
    LET r2 == RenameCopied(r, s, d, srcS, srcD)
        t  == RenameCleared(r, s, d, srcS, srcD)
        moved == [q \in Path |->
                    IF q \in Under(s) THEN Missing
                    ELSE IF q \in Under(d)
                         THEN IF Moved(s, d, q) \in Path THEN t[Moved(s, d, q)]
                              ELSE Missing
                    ELSE t[q]]
    IN  IF RenameWorks(r, s, d, srcS, srcD)
        THEN [r2 EXCEPT !.delta = moved,
                        !.tomb  = (IF Exists(srcS) THEN @ \cup {s} ELSE @ \ {s}) \ {d}]
        ELSE [r2 EXCEPT !.delta = t]

-----------------------------------------------------------------------------
(***************************************************************************)
(* commit_with_report, its first half: what the commit of b will do.       *)
(***************************************************************************)
IsLeafBranch(b) == \A c \in DOMAIN branches \ {Main} : branches[c].parent # b

\* walk_files over the delta: files and links; directories are not listed.
DeltaFiles(r) == {p \in Path : IsLeaf(r.delta[p])}

\* Mutated form of ParentChanged: the first commit goes unnoticed.
ParentChangedTwice(b) ==
    branches[branches[b].parent].commits > branches[b].forkver + 1

\* parent_changed: a child was committed into the parent since the fork.
ParentChanged(b) ==
    branches[branches[b].parent].commits # branches[b].forkver

\* The parent's entry is no longer the one recorded at the first touch.
ChangedSinceTouch(b, p) ==
    ParentChanged(b) /\ branches[b].touch[p].id # InheritedForTouch(b, p)

\* A text file on all three sides, with its merge base.
CanTryMerge(b, p) ==
    LET r == branches[b]
    IN  /\ ChangedSinceTouch(b, p)
        /\ r.touch[p].captured
        /\ IsFile(InheritedForTouch(b, p))
        /\ IsFile(r.delta[p])

MergeOf(b, p) ==
    TryThreeWayTextMerge(branches[b].touch[p].id.lines,
                         InheritedForTouch(b, p).lines, branches[b].delta[p].lines)

\* auto_merges
AutoMerges(b) == {p \in DeltaFiles(branches[b]) :
                    CanTryMerge(b, p) /\ MergeOf(b, p).kind = "clean"}

\* conflicts: all of them are resolved as session_won.
Conflicts(b) ==
    {p \in branches[b].tomb : ChangedSinceTouch(b, p)}
      \cup {p \in DeltaFiles(branches[b]) \ AutoMerges(b) : ChangedSinceTouch(b, p)}

MergePanics(b) == \E p \in DeltaFiles(branches[b]) :
                    CanTryMerge(b, p) /\ MergeOf(b, p).kind = "panic"

\* What is copied to the destination: merge_sources before the delta's file.
MergeSource(b, p) ==
    IF p \in AutoMerges(b) THEN File(MergeOf(b, p).text) ELSE branches[b].delta[p]

-----------------------------------------------------------------------------
(***************************************************************************)
(* StagedMerge, as one step: tombstoned entries are moved aside, files are *)
(* copied beside their destination, and then all is published.  t is the   *)
(* tree that is merged into.                                               *)
(***************************************************************************)
Destination(b) == LET m == branches[b].parent
                  IN  IF m = Main THEN base ELSE branches[m].delta

\* Mutated form of Published: the child's deletions are not applied.
PublishedUndeleted(b, t) ==
    LET files == DeltaFiles(branches[b])
        cleared == MkParents(RemoveTree(t, files), files)
    IN  [q \in Path |-> IF q \in files THEN MergeSource(b, q) ELSE cleared[q]]

Published(b, t) ==
    LET r == branches[b]
        files == DeltaFiles(r)
        cleared == MkParents(RemoveTree(t, r.tomb \cup files), files)
    IN  [q \in Path |-> IF q \in files THEN MergeSource(b, q) ELSE cleared[q]]

\* stage_copy fails: the destination has a file where a directory is needed.
BlockedFiles(b, t) ==
    {p \in DeltaFiles(branches[b]) : Blocked(RemoveTree(t, branches[b].tomb), p)}

StageFails(b, t) == BlockedFiles(b, t) # {}

\* Discarding the trash of tombstone u fails with ENOTDIR: a directory above
\* it was moved aside and a file published in its place.
TrashLost(b, t, u) ==
    /\ Exists(t[u])
    /\ \E p \in DeltaFiles(branches[b]) : u \in Below(p) /\ IsFile(branches[b].delta[p])

\* Deletions are staged in the order of a HashSet: u is moved aside by itself,
\* unless a directory above it that is not lost went first.
DiscardMayFail(b, t) == \E u \in branches[b].tomb : TrashLost(b, t, u)

DiscardMustFail(b, t) ==
    \E u \in branches[b].tomb :
        /\ TrashLost(b, t, u)
        /\ \A v \in branches[b].tomb : u \in Under(v) => TrashLost(b, t, v)

(***************************************************************************)
(* After a failed discard the copies stay published, and Drop renames the  *)
(* trash that is left back: the deletions in kept are undone, without the  *)
(* entries in lost, whose own trash was discarded or cannot be found.      *)
(* Trash below another deleted directory went along with that one.         *)
(***************************************************************************)
HalfPublished(b, t) ==
    LET r == branches[b]
        pub == Published(b, t)
        nested == {u \in r.tomb : \E v \in r.tomb : u \in Below(v)}
        canReturn == {u \in r.tomb \ nested :
                        /\ Exists(t[u]) /\ ~TrashLost(b, t, u)
                        /\ ~Exists(pub[u]) /\ ~Blocked(pub, u)}
    IN  {[q \in Path |-> IF /\ \E u \in kept : q \in Under(u)
                            /\ \A u \in lost : q \notin Under(u)
                         THEN t[q] ELSE pub[q]] :
           kept \in SUBSET canReturn, lost \in SUBSET nested}

(***************************************************************************)
(* After a failed stage_copy, the copies in done having been staged, Drop  *)
(* renames the trash back.  Parent directories made for done remain.  A    *)
(* deletion cannot be undone when its path is taken again by such a        *)
(* directory, or when its trash went along with a directory above it: a    *)
(* deleted one, if that was staged later, or one that a copy replaces.     *)
(***************************************************************************)
RolledBack(b, t) ==
    LET r == branches[b]
        dels == {u \in r.tomb : Exists(t[u])}
        cut == RemoveTree(t, dels)
        replaced(done) == {p \in done : IsDir(cut[p])}
        rest(done) == MkParents(RemoveTree(cut, replaced(done)), done)
        taken(done) == {u \in dels : \E p \in done : p \in Below(u) /\
                                        (ParentDir(p) # u \/ ~IsDir(t[u]))}
        inside(done) == {u \in dels : \E v \in replaced(done) : u \in Below(v)}
        after(done, lost) ==
            [q \in Path |->
               IF /\ \E u \in dels \cup replaced(done) : q \in Under(u)
                  /\ \A u \in lost \cup inside(done) \cup taken(done) : q \notin Under(u)
               THEN t[q] ELSE rest(done)[q]]
        nested == {u \in dels : \E v \in dels : u \in Below(v)}
    IN  UNION {{after(done, lost) : lost \in SUBSET nested} :
                 done \in SUBSET (DeltaFiles(r) \ BlockedFiles(b, t))}

-----------------------------------------------------------------------------
(***************************************************************************)
(* File operations of a mount on branch b.  The kernel has looked the path *)
(* up: it asks to create only what it does not find in a directory it      *)
(* finds, and to change only what it finds.                                *)
(***************************************************************************)
Set(b, r) == branches' = [branches EXCEPT ![b] = r]

\* The workload: which operations come, and how many.
Issued(b, op) == /\ op \in Ops /\ ops < MaxOps
                 /\ ParentsWritten \/ IsLeafBranch(b)

\* write_denied_error and is_writable
MayWrite(b, op) == Issued(b, op) /\ ~branches[b].frozen

FileOp(b, r, status) ==
    /\ Set(b, r)
    /\ ops' = ops + 1
    /\ report' = Ended(status)
    /\ UNCHANGED <<base, epoch>>

\* write
WriteData(b, p, i) ==
    LET src == InheritedForTouch(b, p)
    IN  /\ MayWrite(b, "write")
        /\ Visible(b, p) /\ IsFile(ResolvePath(b, p))
        /\ i <= Len(ResolvePath(b, p).lines) + 1
        /\ FileOp(b, WriteLine(branches[b], p, src, i), "ok")

\* A copy that the quota refuses: the touch has been recorded.
NoSpace(b, p) ==
    LET src == InheritedForTouch(b, p)
    IN  /\ MayWrite(b, "write") /\ QuotaFails
        /\ Visible(b, p) /\ ~Exists(branches[b].delta[p]) /\ IsLeaf(src)
        /\ FileOp(b, [branches[b] EXCEPT !.touch = RecordFirstTouch(@, p, src, TRUE)],
                  "eio")

\* create: File::create truncates the copy, and follows a copied link.
CreateFile(b, p) ==
    LET src == InheritedForTouch(b, p)
        e   == IF src.kind = "symlink" THEN src ELSE File(<<>>)
    IN  /\ MayWrite(b, "create")
        /\ Reachable(b, p) /\ ~Exists(ResolvePath(b, p))
        /\ FileOp(b, [EnsureDelta(branches[b], p, src) EXCEPT !.delta[p] = e], "ok")

\* mkdir and symlink: EIO when EnsureDelta has just copied a deleted file back.
MakeDir(b, p) ==
    LET src == InheritedForTouch(b, p)
    IN  /\ MayWrite(b, "mkdir")
        /\ Reachable(b, p) /\ ~Exists(ResolvePath(b, p))
        /\ FileOp(b, PlaceNew(branches[b], p, src, Dir),
                  IF IsLeaf(src) THEN "eio" ELSE "ok")

MakeSymlink(b, p) ==
    LET src == InheritedForTouch(b, p)
    IN  /\ MayWrite(b, "symlink")
        /\ Reachable(b, p) /\ ~Exists(ResolvePath(b, p))
        /\ FileOp(b, PlaceNew(branches[b], p, src, Symlink),
                  IF IsLeaf(src) THEN "eio" ELSE "ok")

\* setattr with a size: O_TRUNC, truncate
Truncate(b, p) ==
    /\ MayWrite(b, "truncate")
    /\ Visible(b, p) /\ IsFile(ResolvePath(b, p))
    /\ FileOp(b, [EnsureDelta(branches[b], p, InheritedForTouch(b, p))
                    EXCEPT !.delta[p] = File(<<>>)], "ok")

\* setattr of mode, owner or times: copies up, leaves the content
ChangeAttr(b, p) ==
    /\ MayWrite(b, "setattr")
    /\ Visible(b, p)
    /\ FileOp(b, EnsureDelta(branches[b], p, InheritedForTouch(b, p)), "ok")

\* unlink
Unlink(b, p) ==
    /\ MayWrite(b, "unlink")
    /\ Visible(b, p) /\ ~IsDir(ResolvePath(b, p))
    /\ FileOp(b, DropPath(branches[b], p, InheritedForTouch(b, p)), "ok")

\* rmdir: ENOTEMPTY when the directory lists anything
RemoveDir(b, p) ==
    /\ MayWrite(b, "rmdir")
    /\ Visible(b, p) /\ IsDir(ResolvePath(b, p))
    /\ CollectDirNames(b, p) = {}
    /\ FileOp(b, DropPath(branches[b], p, InheritedForTouch(b, p)), "ok")

\* rename; the kernel refuses to replace a directory by a file or the reverse,
\* and to move a directory into itself or onto a directory above it.
Rename(b, s, d) ==
    LET r == branches[b]
        srcS == InheritedForTouch(b, s)
        srcD == InheritedForTouch(b, d)
    IN  /\ MayWrite(b, "rename")
        /\ Visible(b, s) /\ Reachable(b, d)
        /\ s \notin Under(d) /\ d \notin Under(s)
        /\ Exists(ResolvePath(b, d)) =>
             (IsDir(ResolvePath(b, s)) <=> IsDir(ResolvePath(b, d)))
        /\ \A q \in Under(s) : Exists(r.delta[q]) => Moved(d, s, q) \in Path
        /\ FileOp(b, RenameRecord(r, s, d, srcS, srcD),
                  IF RenameWorks(r, s, d, srcS, srcD) THEN "ok" ELSE "eio")

-----------------------------------------------------------------------------
(***************************************************************************)
(* Manager operations.                                                     *)
(***************************************************************************)
\* revert_path_in_branch
RevertPath(b, p) ==
    /\ "revert" \in Ops /\ epoch < MaxEpoch
    /\ ~branches[b].frozen
    /\ Set(b, RevertRecord(branches[b], p))
    /\ epoch' = epoch + 1
    /\ report' = Ended("ok")
    /\ UNCHANGED <<base, ops>>

\* freeze_branch and thaw_branch
SetState(b, frozen) ==
    /\ "freeze" \in Ops /\ epoch < MaxEpoch
    /\ b # Main
    /\ Set(b, [branches[b] EXCEPT !.frozen = frozen])
    /\ epoch' = epoch + 1
    /\ report' = Ended("ok")
    /\ UNCHANGED <<base, ops>>

\* Mutated form of ForkChain: a snapshot branch still resolves through its
\* parent.
ForkChainAlwaysLazy(b, parent, mode) == <<b>> \o branches[parent].chain

\* Where lookups of a new branch go after the branch itself.
ForkChain(b, parent, mode) ==
    IF mode = "snapshot" THEN <<b>> ELSE <<b>> \o branches[parent].chain

\* create_branch_with_options
CreateBranch(b, parent, mode, hide) ==
    /\ epoch < MaxEpoch
    /\ b \notin DOMAIN branches
    /\ LET inh == IF mode = "snapshot" THEN SnapshotVisibleTree(parent) ELSE EmptyTree
           r == NewBranch(parent, ForkChain(b, parent, mode), mode,
                          branches[parent].commits, hide, inh, epoch + 1)
       IN  branches' = [c \in DOMAIN branches \cup {b} |->
                          IF c = b THEN r ELSE branches[c]]
    /\ epoch' = epoch + 1
    /\ report' = Ended("ok")
    /\ UNCHANGED <<base, ops>>

Without(b) == [c \in DOMAIN branches \ {b} |-> branches[c]]

CommitReport(b) == [status |-> "committed", conflicts |-> Conflicts(b),
                    merges |-> AutoMerges(b)]

\* commit_with_report of a child of main: merge into the base directory, and
\* drop what main's delta has at the same paths.
CommitToBase(b) ==
    LET r == branches[b]
        m == branches[Main]
    IN  /\ epoch < MaxEpoch
        /\ b # Main /\ IsLeafBranch(b) /\ r.parent = Main
        /\ ~MergePanics(b) /\ ~StageFails(b, base) /\ ~DiscardMustFail(b, base)
        /\ base' = Published(b, base)
        /\ branches' = [Without(b) EXCEPT
             ![Main].delta = RemoveTree(@, DeltaFiles(r) \cup r.tomb),
             ![Main].commits = @ + 1]
        /\ epoch' = epoch + 1
        /\ report' = CommitReport(b)
        /\ UNCHANGED ops

\* A child's tombstone stays one only where the parent inherits the path, and
\* a copied file ends the parent's tombstone.
MergedTombstones(b, m) ==
    LET dels == branches[b].tomb
        kept == {p \in dels : Exists(InheritedForTouch(m, p))}
    IN  ((branches[m].tomb \ dels) \cup kept) \ DeltaFiles(branches[b])

\* commit_with_report of a child of another branch: merge into its delta.
NestedCommit(b) ==
    LET r == branches[b]
        m == r.parent
        starts == {ParentDir(p) : p \in {q \in r.tomb : Exists(branches[m].delta[q])}}
        touched == {q \in Path : branches[m].touch[q].made}
    IN  /\ epoch < MaxEpoch
        /\ b # Main /\ IsLeafBranch(b) /\ m # Main
        /\ ~MergePanics(b) /\ ~StageFails(b, branches[m].delta)
        /\ ~DiscardMustFail(b, branches[m].delta)
        /\ branches' = [Without(b) EXCEPT
             ![m].delta = Prune(Published(b, @), touched, starts),
             ![m].tomb = MergedTombstones(b, m),
             ![m].commits = @ + 1]
        /\ epoch' = epoch + 1
        /\ report' = CommitReport(b)
        /\ UNCHANGED <<base, ops>>

\* The trees a failed commit can leave in its destination.
FailedTrees(b, t) ==
    IF MergePanics(b) THEN {t}
    ELSE IF StageFails(b, t) THEN RolledBack(b, t)
    ELSE IF DiscardMayFail(b, t) THEN HalfPublished(b, t)
    ELSE {}

\* commit_with_report returns an error, or panics: the branch stays.
FailedCommit(b) ==
    /\ b # Main /\ IsLeafBranch(b)
    /\ \E t \in FailedTrees(b, Destination(b)) :
         IF branches[b].parent = Main
         THEN base' = t /\ UNCHANGED branches
         ELSE branches' = [branches EXCEPT ![branches[b].parent].delta = t]
              /\ UNCHANGED base
    /\ report' = Ended("failed")
    /\ UNCHANGED <<epoch, ops>>

\* Mutated form of AbortBranch: a branch with children is aborted.
AbortAnyBranch(b) ==
    /\ b # Main
    /\ branches' = Without(b)
    /\ report' = Ended("ok")
    /\ UNCHANGED <<base, epoch, ops>>

\* Mutated form of AbortBranch: main is aborted too.
AbortEvenMain(b) ==
    /\ IsLeafBranch(b)
    /\ branches' = Without(b)
    /\ report' = Ended("ok")
    /\ UNCHANGED <<base, epoch, ops>>

\* abort: the epoch is not advanced.
AbortBranch(b) ==
    /\ b # Main /\ IsLeafBranch(b)
    /\ branches' = Without(b)
    /\ report' = Ended("ok")
    /\ UNCHANGED <<base, epoch, ops>>

-----------------------------------------------------------------------------
Init ==
    /\ base = Base0
    /\ branches = [c \in {Main} |->
                     NewBranch(Main, <<Main>>, "lazy", 0, {}, EmptyTree, 0)]
    /\ epoch = 0
    /\ ops = 0
    /\ report = Ended("ok")

\* The operations that are about one path.
PathOperation(b, p) ==
    \/ \E i \in 1..MaxLines : WriteData(b, p, i)
    \/ NoSpace(b, p)
    \/ CreateFile(b, p)
    \/ MakeDir(b, p)
    \/ MakeSymlink(b, p)
    \/ Truncate(b, p)
    \/ ChangeAttr(b, p)
    \/ Unlink(b, p)
    \/ RemoveDir(b, p)

FileOperation(b, p) ==
    \/ PathOperation(b, p)
    \/ \E d \in Path : Rename(b, p, d)

Next ==
    \/ \E b \in DOMAIN branches \cap Agents, p \in Path : FileOperation(b, p)
    \/ \E b \in DOMAIN branches :
         \/ \E p \in Path : RevertPath(b, p)
         \/ \E frozen \in BOOLEAN : SetState(b, frozen)
         \/ CommitToBase(b)
         \/ NestedCommit(b)
         \/ FailedCommit(b)
         \/ AbortBranch(b)
    \/ \E b \in Branch, parent \in DOMAIN branches, mode \in Mode, hide \in HideSets :
         CreateBranch(b, parent, mode, hide)

Spec == Init /\ [][Next]_vars
-----------------------------------------------------------------------------
(***************************************************************************)
(* Invariants.                                                             *)
(***************************************************************************)
\* The state of BranchManager and Branch has its type.
TypeOK ==
    /\ base \in Tree
    /\ branches \in [DOMAIN branches -> BranchRecord]
    /\ DOMAIN branches \subseteq Branch
    /\ Main \in DOMAIN branches
    /\ epoch \in 0..MaxEpoch
    /\ ops \in 0..MaxOps
    /\ report \in Report

\* Lookups end at main, which is lazy, or at a snapshot branch.
LastMode(b) == IF b = Main THEN "lazy" ELSE "snapshot"

\* The branches that a lookup in b visits: b, then parent after parent, all of
\* them in the table, until main or a snapshot branch.
ChainOK(b) ==
    LET ch == branches[b].chain
    IN  /\ Len(ch) > 0 /\ ch[1] = b
        /\ \A i \in 1..Len(ch) : ch[i] \in DOMAIN branches
        /\ \A i \in 1..(Len(ch) - 1) : /\ ch[i] # Main
                                       /\ branches[ch[i]].mode = "lazy"
                                       /\ branches[ch[i]].parent = ch[i + 1]
        /\ branches[ch[Len(ch)]].mode = LastMode(ch[Len(ch)])

\* A branch's parent exists, is older, and has not lost commits it had at the
\* fork.
ParentOK(b) ==
    LET r == branches[b]
    IN  /\ r.parent \in DOMAIN branches
        /\ branches[r.parent].sess < r.sess
        /\ r.forkver <= branches[r.parent].commits

(***************************************************************************)
(* resolve_path_locked, commit_with_report and collect_dir_names_locked    *)
(* look the parent of a branch up in the table and follow it to main or to *)
(* a snapshot branch: every branch on the way stays in the table, is the   *)
(* one (and the incarnation) that was forked from, and is older, however   *)
(* branches are created, committed and aborted around it (the is_leaf      *)
(* checks of commit and abort, and names that are used again).             *)
(***************************************************************************)
LineageOK ==
    /\ \A b \in DOMAIN branches \ {Main} : ParentOK(b)
    /\ \A b \in DOMAIN branches : ChainOK(b) /\ branches[b].sess <= epoch

\* The base directory, every delta and every snapshot are trees (what the
\* theorems about views and commits need of them).
TreesOK ==
    /\ IsTree(base)
    /\ \A b \in DOMAIN branches : IsTree(branches[b].delta) /\ IsTree(branches[b].inh)

(***************************************************************************)
(* branch.rs, Branch.hide_paths: "hidden underlay data can never be read   *)
(* or COWed".  At a path that b, or a branch b inherits through, hides,    *)
(* b finds only lines written after the hiding branch was forked.  (For    *)
(* programs that do not rename another file to the hidden path.)           *)
(***************************************************************************)
HiddenNeverLeaks ==
    \A b \in DOMAIN branches : \A i \in DOMAIN branches[b].chain :
        LET h == branches[branches[b].chain[i]]
        IN  \A p \in Path : IsHidden(h, p) =>
              \A n \in DOMAIN ResolvePath(b, p).lines :
                 ResolvePath(b, p).lines[n] > h.sess

-----------------------------------------------------------------------------
(***************************************************************************)
(* Action properties.                                                      *)
(***************************************************************************)
Commits(b) == /\ b \in DOMAIN branches /\ report'.status = "committed"
              /\ b \notin DOMAIN branches'

(***************************************************************************)
(* README, Commit, 4: "A tombstone is preserved only when it hides an      *)
(* inherited path in the parent/base view".  A step adds a tombstone to a  *)
(* branch only at a path the branch inherits, whether the step is a        *)
(* delete, a rename or the commit of a child.                              *)
(***************************************************************************)
TombstonesHideSomething ==
    [][\A b \in DOMAIN branches \cap DOMAIN branches' :
         \A p \in branches'[b].tomb \ branches[b].tomb :
            Exists(InheritedForTouch(b, p))]_vars

\* c has a directory where it inherits a file: one that came after it.
Covers(c, p) == IsDir(branches[c].delta[p]) /\ IsLeaf(InheritedForTouch(c, p))

(***************************************************************************)
(* README: "Changes merge into immediate parent branch (or base if parent  *)
(* is main)".  After the commit of a lazy branch its parent shows the      *)
(* files and links the branch showed, merged where the report says so, and *)
(* no other: the commit publishes the branch's view.  (Directories are not *)
(* compared: a commit copies files only.  So of what is inherited, where a *)
(* directory of the branch or its parent covers a file that was committed  *)
(* after it, nothing is said.)                                             *)
(***************************************************************************)
CommitPublishesView ==
    [][\A b \in Branch, m \in Branch, p \in Path :
         /\ Commits(b) /\ m = branches[b].parent
         /\ branches[b].mode = "lazy" /\ ~IsHidden(branches[b], p)
         /\ \/ p \in DeltaFiles(branches[b])
            \/ \A a \in Above(p) \cup {p} : ~Covers(b, a) /\ ~Covers(m, a)
         => IF Visible(b, p) /\ IsLeaf(ResolvePath(b, p))
            THEN /\ Visible(m, p)'
                 /\ \/ ResolvePath(m, p)' = ResolvePath(b, p)
                    \/ p \in report'.merges
            ELSE ~(Visible(m, p)' /\ IsLeaf(ResolvePath(m, p)'))]_vars

\* What the commit of b puts at p replaces a version of p that the session had
\* not seen when it first touched p: it inherits another one now.
ReplacesUnseen(b, p) ==
    /\ p \in branches[b].tomb \cup DeltaFiles(branches[b])
    /\ branches[b].touch[p].made
    /\ branches[b].touch[p].id # InheritedForTouch(b, p)

(***************************************************************************)
(* README: "If the parent/base version changed by commit time" the path is *)
(* merged or becomes a conflict record.  A commit never replaces or        *)
(* deletes a version of a path that the session had not seen when it first *)
(* touched the path, without a merge or conflict record for that path,     *)
(* when lookups of the branch end at its parent: whether anything was      *)
(* committed is asked of the parent's commit_count alone (parent_changed), *)
(* so a version committed further up is overwritten unreported.            *)
(***************************************************************************)
NoSilentOverwrite ==
    [][\A b \in Branch, p \in Path :
         Commits(b) /\ Len(branches[b].chain) <= 2 /\ ReplacesUnseen(b, p)
         => p \in report'.conflicts \cup report'.merges]_vars

\* A branch that has children, and the base directory as main's, changes by
\* commits that are counted: not by a program that writes to it or reverts a
\* path of it, and not by a commit that fails and leaves something behind.
ParentsChangeByCommit ==
    \A m \in DOMAIN branches \cap DOMAIN branches' :
       ~IsLeafBranch(m) /\ branches'[m].commits = branches[m].commits
       => /\ branches'[m].delta = branches[m].delta
          /\ branches'[m].tomb = branches[m].tomb
          /\ m = Main => base' = base

\* The same entry; directories have no content.
SameEntry(e, f) == e = f \/ (IsDir(e) /\ IsDir(f))

\* The step leaves the delta of b nothing at or below q, a directory it had.
Pruned(b, q) ==
    /\ IsDir(branches[b].delta[q])
    /\ \A x \in Under(q) : ~Exists(branches'[b].delta[x])

\* The step leaves the view of every branch and all tombstones alone, beside s
\* and d, what is below them, and directories above them that c no longer needs.
ConfinedTo(c, s, d) ==
    \A b \in DOMAIN branches :
       /\ branches'[b].tomb \ {s, d} = branches[b].tomb \ {s, d}
       /\ \A q \in Path \ (Under(s) \cup Under(d)) :
            \/ SameEntry(ResolvePath(b, q)', ResolvePath(b, q))
            \/ q \in Above(s) \cup Above(d) /\ Pruned(c, q)

(***************************************************************************)
(* A file operation changes nothing but the path it was called with        *)
(* (rename: the two paths), in the view of any branch: every other entry,  *)
(* the other entries of the same directory among them, keeps its content   *)
(* and its presence, and no deletion of another path is forgotten.  What   *)
(* is below the path may come or go with it, and of what is above it only  *)
(* a directory that the delta of the branch no longer needs goes, which    *)
(* uncovers what the branch inherits there (prune_empty_delta_parents,     *)
(* ensure_parent_dirs, remove_tombstone).                                  *)
(***************************************************************************)
OneOperationOnePath ==
    [][\A c \in DOMAIN branches, s \in Path : ops' = ops + 1 =>
         /\ PathOperation(c, s) => ConfinedTo(c, s, s)
         /\ \A d \in Path : Rename(c, s, d) => ConfinedTo(c, s, d)]_vars

(***************************************************************************)
(* A snapshot branch is isolated from its parent and the base: what it     *)
(* shows changes only with its own delta, tombstones or hide rules,        *)
(* whatever is written to or committed into the branches it was forked     *)
(* from (InheritanceMode::Snapshot).                                       *)
(***************************************************************************)
SnapshotIsIsolated ==
    [][\A b \in DOMAIN branches \cap DOMAIN branches' :
         branches[b].mode = "snapshot" /\ branches'[b] = branches[b] =>
            \A p \in Path : ResolvePath(b, p)' = ResolvePath(b, p)]_vars

(***************************************************************************)
(* After revert_path_in_branch the branch shows what it inherits at the    *)
(* path and below it, unless it has deleted a directory above, and nothing *)
(* else changes except that directories above the path, when they were     *)
(* only copies around it, go with it (prune_empty_delta_parents).          *)
(***************************************************************************)
RevertRestoresInherited ==
    [][\A b \in DOMAIN branches, p \in Path : epoch' # epoch /\ RevertPath(b, p) =>
         \A q \in Path :
            IF q \in Under(p)
            THEN \/ \E a \in Above(p) : a \in branches'[b].tomb
                 \/ ResolvePath(b, q)' = InheritedForTouch(b, q)
                 \/ ~Exists(ResolvePath(b, q)') /\ ~Exists(InheritedForTouch(b, q))
            ELSE q \notin Above(p) => ResolvePath(b, q)' = ResolvePath(b, q)]_vars
=============================================================================
