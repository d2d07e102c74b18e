---------------------------- MODULE StagedMerge ----------------------------
(***************************************************************************)
(* One commit, system call by system call: StagedMerge of                  *)
(* src/src/branch.rs and the part of commit_with_report that drives it.    *)
(* The lists of the merge are in memory and die with the daemon; the       *)
(* destination, the side files .branchfs-trash.x and .branchfs-tmp.x and   *)
(* the branch directory are on disk and survive.  A branch that survived   *)
(* can be edited, committed again or aborted after the restart.            *)
(*                                                                         *)
(* The paths are siblings: merges of nested paths are in BranchManager.    *)
(* Where a link leads is not modelled: to any path of the destination, but *)
(* not to a side file, or to somewhere else.                               *)
(***************************************************************************)
EXTENDS Naturals, FiniteSets

CONSTANTS
    Path,       \* the paths of the destination, none below another
    Files0,     \* the paths the branch may have written at the start
    Tombs0,     \* the paths the branch may have deleted at the start
    MaxCommits, \* bound: commits that are tried
    MaxEdits,   \* bound: edits of the branch
    MaxFaults   \* bound: crashes, and failures after publishing began

ASSUME PathAssumption  == Files0 \subseteq Path /\ Tombs0 \subseteq Path
ASSUME BoundAssumption ==
    MaxCommits \in Nat /\ MaxEdits \in Nat /\ MaxFaults \in Nat

\* 0: the destination's original content.  1: the session's first content.
\* MaxEdits + 2: a copy that was cut short.
Version == 0..(MaxEdits + 2)

VARIABLES
    dest,       \* disk: the destination
    trash,      \* disk: the trash sibling of every path
    tmp,        \* disk: the temp sibling of every path
    branch,     \* disk: the branch's directory
    meta,       \* disk: commit_count of main (or of the parent) in meta.json
    phase,      \* where commit_with_report is
    todo,       \* memory: tombstones, then files, still to stage
    deletes,    \* memory: StagedMerge.deletes
    count,      \* memory: the same counter
    copies,     \* memory: StagedMerge.copies
    before,     \* destination, meta, faults and astray at the merge's start
                \* (not in the code)
    astray,     \* paths that were written through a stale temp link, and the
                \* paths of such links (not in the code)
    commits,    \* commits tried so far
    edits,      \* edits so far
    faults      \* crashes and late failures so far

files  == <<dest, trash, tmp>>
disk   == <<files, branch, meta>>
counts == <<meta, count>>
memory == <<todo, deletes, copies>>
bounds == <<commits, edits, faults>>
vars   == <<disk, count, phase, memory, before, astray, bounds>>

Atomic ==
    INSTANCE AtomicMerge WITH
        tree   <- IF phase \in {"idle", "down"} THEN dest ELSE before.tree,
        count  <- IF phase \in {"idle", "down"} THEN meta ELSE before.count,
        faults <- IF phase \in {"idle", "down"} THEN faults ELSE before.faults,
        astray <- IF phase \in {"idle", "down"} THEN astray ELSE before.astray

Missing == Atomic!Missing
Dir     == Atomic!Dir
File(n) == Atomic!File(n)
Link(n) == Atomic!Link(n)
IsLink(e) == e.kind = "link"
Torn    == File(MaxEdits + 2)
Empty   == [p \in Path |-> Missing]

Phase == {"idle", "deleting", "copying", "publishing", "discarding",
          "counting", "removing", "dropping", "down"}

Staging == {"deleting", "copying"}
Running == Phase \ {"idle", "down"}

\* A fault that the code cannot undo.
LateFault == faults < MaxFaults /\ faults' = faults + 1

Set(f, p, e) == [f EXCEPT ![p] = e]

----------------------------------------------------------------------------
(* Commit                                                                  *)

\* commit_with_report: the tombstones are staged first, in the order of a
\* HashSet.
Begin ==
    /\ phase = "idle" /\ branch.alive
    /\ commits < MaxCommits
    /\ commits' = commits + 1
    /\ phase' = "deleting"
    /\ todo' = branch.tombs
    /\ deletes' = {} /\ copies' = {}
    /\ before' = [tree |-> dest, count |-> meta, faults |-> faults, astray |-> astray]
    /\ UNCHANGED <<disk, count, astray, edits, faults>>

\* Mutated form of Aside: a stale trash is taken for the deletion itself.
AsideOnce(p) ==
    IF dest[p] = Missing
    THEN UNCHANGED <<dest, trash, deletes>>
    ELSE /\ trash' = IF trash[p] = Missing THEN Set(trash, p, dest[p]) ELSE trash
         /\ dest' = Set(dest, p, Missing)
         /\ deletes' = deletes \union {p}

\* Renames p aside; stale trash is removed first.  Nothing to do for a
\* missing target, whose stale trash then stays.
Aside(p) ==
    IF dest[p] = Missing
    THEN UNCHANGED <<dest, trash, deletes>>
    ELSE /\ trash' = Set(trash, p, dest[p])
         /\ dest' = Set(dest, p, Missing)
         /\ deletes' = deletes \union {p}

StageDelete(p) ==
    /\ phase = "deleting" /\ p \in todo
    /\ todo' = todo \ {p}
    /\ Aside(p)
    /\ UNCHANGED <<tmp, branch, counts, phase, copies, before, astray, bounds>>

DeletesStaged ==
    /\ phase = "deleting" /\ todo = {}
    /\ phase' = "copying"
    /\ todo' = Atomic!Copied(branch)
    /\ UNCHANGED <<disk, count, deletes, copies, before, astray, bounds>>

\* stage_copy when the destination is a directory: it is moved aside first.
StageDirAside(p) ==
    /\ phase = "copying" /\ p \in todo
    /\ dest[p] = Dir
    /\ Aside(p)
    /\ UNCHANGED <<tmp, branch, counts, phase, todo, copies, before, astray, bounds>>

\* Mutated form of CopyEntry: a temp that is there is taken as copied.
CopyEntryOnce(p) ==
    /\ tmp' = IF tmp[p] = Missing THEN Set(tmp, p, branch.files[p]) ELSE tmp
    /\ UNCHANGED <<dest, astray>>

\* fs::copy opens the temp for writing.  A link that an earlier commit left
\* there is followed, and what it leads to is created or overwritten with e.
WriteThrough(p, e) ==
    /\ \/ UNCHANGED dest
       \/ \E q \in Path : ~IsLink(dest[q]) /\ dest[q] # Dir /\ dest' = Set(dest, q, e)
    /\ astray' = astray \union {p} \union {q \in Path : dest'[q] # dest[q]}
    /\ UNCHANGED tmp

\* copy_entry to the temp sibling, over what is there.  For a link the temp is
\* removed first.
CopyEntry(p) ==
    IF IsLink(tmp[p]) /\ ~IsLink(branch.files[p])
    THEN WriteThrough(p, branch.files[p])
    ELSE tmp' = Set(tmp, p, branch.files[p]) /\ UNCHANGED <<dest, astray>>

\* copy_entry cut short: the old temp is gone and the new link not made, or
\* the new file is not written to its end, or nothing has been done.
CopyEntryCut(p) ==
    \/ UNCHANGED <<tmp, dest, astray>>
    \/ IF IsLink(branch.files[p])
       THEN tmp' = Set(tmp, p, Missing) /\ UNCHANGED <<dest, astray>>
       ELSE IF IsLink(tmp[p]) THEN WriteThrough(p, Torn)
       ELSE tmp' = Set(tmp, p, Torn) /\ UNCHANGED <<dest, astray>>

\* stage_copy
StageCopy(p) ==
    /\ phase = "copying" /\ p \in todo
    /\ dest[p] # Dir
    /\ CopyEntry(p)
    /\ todo' = todo \ {p}
    /\ copies' = copies \union {p}
    /\ UNCHANGED <<trash, branch, counts, phase, deletes, before, bounds>>

CopiesStaged ==
    /\ phase = "copying" /\ todo = {}
    /\ phase' = "publishing"
    /\ UNCHANGED <<disk, count, memory, before, astray, bounds>>

\* StagedMerge::commit, first loop.  A renamed temp is no longer listed here:
\* the rollback would find nothing to remove.
PublishCopy(p) ==
    /\ phase = "publishing" /\ p \in copies
    /\ dest' = Set(dest, p, tmp[p])
    /\ tmp' = Set(tmp, p, Missing)
    /\ copies' = copies \ {p}
    /\ UNCHANGED <<trash, branch, counts, phase, todo, deletes, before, astray, bounds>>

CopiesPublished ==
    /\ phase = "publishing" /\ copies = {}
    /\ phase' = "discarding"
    /\ UNCHANGED <<disk, count, memory, before, astray, bounds>>

\* StagedMerge::commit, second loop.
DiscardTrash(p) ==
    /\ phase = "discarding" /\ p \in deletes
    /\ trash' = Set(trash, p, Missing)
    /\ deletes' = deletes \ {p}
    /\ UNCHANGED <<dest, tmp, branch, counts, phase, todo, copies, before, astray, bounds>>

TrashDiscarded ==
    /\ phase = "discarding" /\ deletes = {}
    /\ phase' = "counting"
    /\ UNCHANGED <<disk, count, memory, before, astray, bounds>>

\* Mutated form of CountCommit: the counter runs down.
CountCommitDown ==
    /\ phase = "counting"
    /\ count' = count - 1
    /\ meta' = count - 1
    /\ phase' = "removing"
    /\ UNCHANGED <<files, branch, memory, before, astray, bounds>>

\* commit_count is advanced and meta.json replaced (write and rename).
CountCommit ==
    /\ phase = "counting"
    /\ count' = count + 1
    /\ meta' = count + 1
    /\ phase' = "removing"
    /\ UNCHANGED <<files, branch, memory, before, astray, bounds>>

\* The branch leaves the table and its directory is removed.
RemoveBranch ==
    /\ phase = "removing"
    /\ branch' = [branch EXCEPT !.alive = FALSE]
    /\ phase' = "idle"
    /\ UNCHANGED <<files, counts, memory, before, astray, bounds>>

----------------------------------------------------------------------------
(* Errors and the rollback                                                 *)

\* The copy fails (no space, unreadable source): what was written of the
\* temp stays, as it is not listed yet.
CopyFails(p) ==
    /\ phase = "copying" /\ p \in todo
    /\ dest[p] # Dir
    /\ CopyEntryCut(p)
    /\ phase' = "dropping"
    /\ UNCHANGED <<trash, branch, counts, memory, before, bounds>>

\* A rename aside fails; the stale trash is gone already.
AsideFails(p) ==
    /\ phase \in Staging /\ p \in todo
    /\ dest[p] # Missing
    /\ phase = "copying" => dest[p] = Dir
    /\ trash' = Set(trash, p, Missing)
    /\ phase' = "dropping"
    /\ UNCHANGED <<dest, tmp, branch, counts, memory, before, astray, bounds>>

\* A rename into place, or the removal of a trashed entry, fails.
PublishFails ==
    /\ LateFault
    /\ \/ phase = "publishing" /\ copies # {}
       \/ phase = "discarding" /\ deletes # {}
    /\ phase' = "dropping"
    /\ UNCHANGED <<disk, count, memory, before, astray, commits, edits>>

\* Drop, first loop.  An error is ignored and the temp stays.
DropCopy(p) ==
    /\ phase = "dropping" /\ p \in copies
    /\ \/ tmp' = Set(tmp, p, Missing) /\ UNCHANGED faults
       \/ UNCHANGED tmp /\ LateFault
    /\ copies' = copies \ {p}
    /\ UNCHANGED <<dest, trash, branch, counts, phase, todo, deletes, before, astray,
                   commits, edits>>

\* Mutated form of Restore: the trash is removed instead of renamed back.
RestoreNothing(p) ==
    /\ trash' = Set(trash, p, Missing)
    /\ UNCHANGED dest

\* Drop, second loop: the entry is renamed back, which fails, and is ignored,
\* for a directory whose place a published file has taken.
Restore(p) ==
    IF trash[p] = Dir /\ dest[p] # Missing
    THEN UNCHANGED <<dest, trash>>
    ELSE /\ dest' = Set(dest, p, trash[p])
         /\ trash' = Set(trash, p, Missing)

\* An error is ignored and the entry stays in the trash.
DropTrash(p) ==
    /\ phase = "dropping" /\ copies = {} /\ p \in deletes
    /\ \/ Restore(p) /\ UNCHANGED faults
       \/ UNCHANGED <<dest, trash>> /\ LateFault
    /\ deletes' = deletes \ {p}
    /\ UNCHANGED <<tmp, branch, counts, phase, todo, copies, before, astray, commits, edits>>

Dropped ==
    /\ phase = "dropping" /\ copies = {} /\ deletes = {}
    /\ phase' = "idle"
    /\ todo' = {}
    /\ UNCHANGED <<disk, count, deletes, copies, before, astray, bounds>>

\* write_metadata fails: the commit reports an error, although it published
\* and advanced the counter in memory.
CountFails ==
    /\ LateFault
    /\ phase = "counting"
    /\ count' = count + 1
    /\ phase' = "idle"
    /\ UNCHANGED <<disk, memory, before, astray, commits, edits>>

\* What remove_branch_store_dir_all leaves behind when it is cut short.
HalfRemove ==
    \E c \in Atomic!Branches :
        /\ Atomic!Remains(branch, c)
        /\ branch' = c

\* The directory cannot be removed: the branch is out of the table, and comes
\* back with the next start if its meta.json is left.
RemoveFails ==
    /\ LateFault
    /\ phase = "removing"
    /\ HalfRemove
    /\ phase' = "down"
    /\ UNCHANGED <<files, counts, memory, before, astray, commits, edits>>

----------------------------------------------------------------------------
(* The session, the abort and the crash                                    *)

\* Between two attempts the session writes, deletes or reverts p.
Edit(p) ==
    /\ phase = "idle" /\ branch.alive
    /\ edits < MaxEdits
    /\ edits' = edits + 1
    /\ \/ \E e \in {File(edits + 2), Link(edits + 2)} :
             branch' = [branch EXCEPT !.files[p] = e, !.tombs = @ \ {p}]
       \/ branch' = [branch EXCEPT !.files[p] = Missing,
                                   !.tombs = IF dest[p] = Missing THEN @ \ {p} ELSE @ \union {p}]
       \/ branch' = [branch EXCEPT !.files[p] = Missing, !.tombs = @ \ {p}]
    /\ UNCHANGED <<files, counts, phase, memory, before, astray, commits, faults>>

Abort ==
    /\ phase = "idle" /\ branch.alive
    /\ branch' = [branch EXCEPT !.alive = FALSE]
    /\ UNCHANGED <<files, counts, phase, memory, before, astray, bounds>>

\* The daemon dies between two system calls, in the middle of a copy, or in
\* the middle of removing the branch, be it for a commit or for an abort.
Crash ==
    /\ phase # "down" /\ branch.alive
    /\ LateFault
    /\ phase' = "down"
    /\ \/ UNCHANGED <<tmp, dest, astray, branch>>
       \/ /\ phase = "copying"
          /\ \E p \in todo : dest[p] # Dir /\ CopyEntryCut(p)
          /\ UNCHANGED branch
       \/ /\ phase \in {"removing", "idle"}
          /\ HalfRemove
          /\ UNCHANGED <<tmp, dest, astray>>
    /\ todo' = {} /\ deletes' = {} /\ copies' = {}
    /\ count' = meta
    /\ UNCHANGED <<trash, meta, before, commits, edits>>

\* BranchManager::new loads the branches that are on disk.  It neither looks
\* for side files nor repairs the destination.
Restart ==
    /\ phase = "down"
    /\ phase' = "idle"
    /\ count' = meta
    /\ todo' = {} /\ deletes' = {} /\ copies' = {}
    /\ UNCHANGED <<disk, before, astray, bounds>>

----------------------------------------------------------------------------
Init ==
    /\ dest \in [Path -> {Missing, Dir, File(0), Link(0)}]
    /\ \E w \in SUBSET Files0, l \in SUBSET Files0, d \in SUBSET Tombs0 :
          branch = [alive |-> TRUE,
                    files |-> [p \in Path |-> IF p \in w THEN File(1)
                                              ELSE IF p \in l THEN Link(1) ELSE Missing],
                    tombs |-> d]
    /\ trash = Empty /\ tmp = Empty
    /\ meta = 0 /\ count = 0
    /\ phase = "idle"
    /\ todo = {} /\ deletes = {} /\ copies = {}
    /\ before = [tree |-> dest, count |-> 0, faults |-> 0, astray |-> {}]
    /\ astray = {}
    /\ commits = 0 /\ edits = 0 /\ faults = 0

MergeStep ==
    \/ Begin \/ DeletesStaged \/ CopiesStaged \/ CopiesPublished
    \/ TrashDiscarded \/ CountCommit \/ RemoveBranch \/ Dropped
    \/ \E p \in Path :
          \/ StageDelete(p) \/ StageDirAside(p) \/ StageCopy(p)
          \/ PublishCopy(p) \/ DiscardTrash(p)
          \/ DropCopy(p) \/ DropTrash(p)

Failure ==
    \/ PublishFails \/ CountFails \/ RemoveFails
    \/ \E p \in Path : CopyFails(p) \/ AsideFails(p)

Next ==
    \/ MergeStep \/ Failure
    \/ Abort \/ Crash \/ Restart
    \/ \E p \in Path : Edit(p)

Spec == Init /\ [][Next]_vars

----------------------------------------------------------------------------
(* Properties                                                              *)

TypeOK ==
    /\ dest \in [Path -> Atomic!Entry]
    /\ trash \in [Path -> Atomic!Entry]
    /\ tmp \in [Path -> Atomic!Entry \ {Dir}]
    /\ branch \in Atomic!Branches
    /\ count \in Nat /\ meta \in Nat
    /\ phase \in Phase
    /\ todo \subseteq Path /\ deletes \subseteq Path /\ copies \subseteq Path
    /\ before \in [tree : [Path -> Atomic!Entry], count : Nat, faults : Nat,
                   astray : SUBSET Path]
    /\ astray \subseteq Path
    /\ commits \in 0..MaxCommits /\ edits \in 0..MaxEdits /\ faults \in 0..MaxFaults

\* StagedMerge implements AtomicMerge: whatever the order of the system
\* calls, the errors of the copies and the crashes, those who read through
\* the branch table see the whole session, nothing of it, or what Interrupt
\* of AtomicMerge allows; but for the paths that copy_entry spoils by writing
\* through a link which a crashed commit left as its temp sibling.
AtomicSpec == Atomic!Spec

\* Until the last copy is staged nothing of the destination is destroyed: an
\* entry that is not at its place is in the trash of its own path, even after
\* a crash that left side files and the commit after it.  This is what lets
\* Drop, or an operator after a crash, put it back.  "No existing destination
\* data is touched", says stage_copy; except what a temp link left by a crash
\* leads to, which copy_entry writes through (astray).
NothingDestroyedEarly ==
    phase \in Staging =>
        \A p \in Path \ astray :
            before.tree[p] # Missing => before.tree[p] \in {dest[p], trash[p]}

\* No published file is a copy that was cut short: a temp left by a crash or
\* by a failed copy is written anew before it is renamed into place.  Only a
\* file that was written through a stale temp link (astray) can be torn.
NoTornFile == \A p \in Path \ astray : dest[p] # Torn
=============================================================================
