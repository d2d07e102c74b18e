# BranchFS in TLA+

BranchFS is a FUSE file system with copy-on-write branches over a base
directory. A daemon owns a table of branches; mounts show one branch each; a
branch keeps its own files (the *delta*) and its deletions (*tombstones*), and
shows its parent's files everywhere else. Committing a leaf branch merges it
into its parent, or into the base directory when the parent is `main`; aborting
it drops it. This directory specifies that behaviour, model-checks it with TLC
and proves its safety properties with TLAPS.

## The system and its parts

| part | source | state | operations | what makes it correct |
|---|---|---|---|---|
| branch manager | `src/src/branch.rs` | branch table, per branch: parent, mode, frozen flag, hide list, delta, tombstones, touch records, commit counter; epoch | create, copy-up, write, delete, rmdir, revert, freeze, thaw, commit, abort, resolve, list | lookups follow live parents; each branch sees its own changes over its parent's; a commit publishes the branch's view and reports what it overwrites |
| text merge | `branch.rs` `changed_range`, `try_three_way_text_merge` | none | one function of three texts | a clean merge holds both changes whole |
| `StagedMerge` | `branch.rs` | staged copies and trashed deletions | stage, publish, roll back | all or nothing |
| file operations | `src/src/fs.rs`, `fs_helpers.rs` | inodes, descriptor caches, mount epoch | the FUSE handlers | one operation changes one path; a cached descriptor is the current file |
| background worker | `fs.rs` | a queue of closures | delete, rmdir and write jobs in order | order of requests kept |
| storage quota | `branch.rs` `StorageQuota` | a signed byte counter | check, add, sub, scan | the counter never understates what is stored, and the limit is passed by no more than the writes under way |
| persistence | `branch.rs` `load`, `append_*`, `rewrite_tombstones` | `meta.json`, `tombstones.log`, `touches.log`, base contents | append, rewrite, reload, migrate | a reload gives the state before it |
| inode table | `src/src/inode.rs` | path and inode maps | get_or_create, remove, clear_prefix, clear | the maps are inverse to each other; a number never means another file |
| control files | `src/src/fs_ctl.rs`, `fs_path.rs` | control inodes | commit, abort, create through writes | the mount moves to the parent |
| daemon | `src/src/daemon.rs` | socket, mounts, mount branches, notifiers, shutdown flag | mount, unmount, create, list, commit, ... | one daemon for a store; stops only without mounts; a mount always knows its branch |
| command line | `src/src/main.rs` | none | start a daemon, one request, a control file | every command ends |
| platform layer, packaging, benchmarks | `platform/`, `python/`, `bench/` | none | | |

Interactions: FUSE handlers and the daemon call the manager, which serialises
table changes with the write lock of the table (`commit`, `abort`, `create`) and
lets file operations share the read lock with `revert`, `freeze` and `thaw`, one
at a time per path by striped locks. Not everything takes the lock of its path:
`rename`, `setattr` and writes through a descriptor do not. A commit or an abort invalidates kernel caches through notifiers; a mount
notices an epoch change at its next request.

What is hard here: sessions that touch the same path and commit in any order;
deletions recorded at several levels of a branch chain; type changes between
file, directory and link; a commit that fails half way; names used again;
descriptors and jobs that outlive the state they were made in; crashes between
two files of the store. PROJECT.json lists these hazards with their lines.

## Modules

| module | models |
|---|---|
| `TextMerge`, `TextMergeRun` | the three-way merge as operators, and one call of it on every three texts of a bounded size with a reference definition |
| `BranchTree`, `BranchManager`, `MCBranchManager` | paths, entries and trees; the branch table and every operation on it; small instances |
| `AtomicMerge` | the abstract specification of a commit: one step, or nothing |
| `StagedMerge`, `MCStagedMerge` | a commit system call by system call, with errors, crashes and restarts; it implements `AtomicMerge` |
| `BranchLog`, `MCBranchLog` | the logs, snapshots and content files of one branch |
| `InodeManager` | the inode table of a mount, on its own |
| `BranchFs`, `MCBranchFs` | one mount (it extends `InodeManager`) composed with the branch table, its clients and other mounts |
| `Daemon`, `MCDaemon` | daemons, commands, the socket, the mount table and the notifiers; numbered commands |
| `StorageQuota`, `MCStorageQuota` | the byte counter and the threads that use it; its symmetry |
| `TextMerge_proofs`, `TextMergeRun_proofs` | theorems about the merge: its ranges; then the merge against its reference |
| `BranchManager_proofs` | theorems about `BranchManager`: types, lineage and snapshots; reverts, tombstones and hide rules; one operation, one path; what a commit publishes and what it reports |
| `BranchFs_proofs` | theorems about `InodeManager`, then about `BranchFs`: its inode numbers, its types and the descriptor caches |
| `StagedMerge_proofs`, `BranchLog_proofs`, `Daemon_proofs`, `StorageQuota_proofs` | theorems about the module of that name |

`TextMerge` keeps the code's ranges (from 0, end excluded). The two loops of
`changed_range` are cardinalities of sets of lengths, so nothing is recursive.
An out-of-range slice, which panics in Rust, is the outcome `Panic`. The
reference of `TextMergeRun`: cut the base in two, one side changed only the
first half and the other only the second.

A definition whose comment begins with "Mutated form of" is not part of any
specification: it is a plausible bug, and PROJECT.json says which property
notices it.

### BranchManager and the code

`branches` is the manager's `HashMap`, a function on the names that exist.
`base` is the base directory and `epoch` the manager's. A record has the fields
of `Branch` that behaviour depends on. Two are not in the code: `sess`, the
incarnation of a name (the epoch of its creation), and `chain`, the branches
`resolve_path_locked` visits from it, computed once at the fork. The code finds
them by recursion over parents; that `chain` stays equal to that walk is part of
`LineageOK`, so it is checked and proved rather than assumed. `report` is the
result of the last step and `ops` counts file operations.

A line of a file is 0 in the original base and otherwise one more than the
incarnation that wrote it, so that properties can tell who wrote what. A file's
identity (`PathIdentity`: kind, size, mtime) is its content. Links have no
target: every link dangles. Modes, owners and times are left out.

| action | code |
|---|---|
| `WriteData`, `NoSpace` | `fs.rs` `write`, `branch.rs` `write_data_to_branch` (copy on first write; refused by the quota after the touch is recorded) |
| `CreateFile`, `MakeDir`, `MakeSymlink` | `create`, `mkdir`, `symlink` with `ensure_delta_path_for_write_locked` |
| `Truncate`, `ChangeAttr` | `setattr` |
| `Unlink`, `RemoveDir` | `delete_path_in_branch`, `rmdir_path_in_branch` |
| `Rename` | `rename`: copy both ends up, clear the destination, move, tombstones; EIO leaves the first steps done |
| `RevertPath`, `SetState` | `revert_path_in_branch`, `freeze_branch`, `thaw_branch` |
| `CreateBranch` | `create_branch_with_options`, with `snapshot_visible_tree` |
| `CommitToBase`, `NestedCommit` | the two halves of `commit_with_report` |
| `FailedCommit` | its error paths: a merge that panics, a copy that cannot be staged (`Drop` rolls back), a trash entry that cannot be discarded after publishing |
| `AbortBranch` | `abort` |

The guards of file operations are what the kernel has checked by looking paths
up, what the handler checks, and the workload: which operations come (`Ops`),
from which mounts (`Agents`), whether programs write to a branch that has
children (`ParentsWritten`). Each operation is one step. For create, commit and
abort that is the table's write lock. A revert, a freeze and a thaw hold it shared
(`branch.rs` 2013, 2065, 2080), as file operations do, and those of one branch may
come from several mounts: what happens when such operations overlap is left to the
modules in which they have several steps, `BranchFs` for freeze and thaw, `BranchLog`
for a revert and `StorageQuota` for the bytes.
Deletions are staged in the order of a hash set, so the outcomes of a failed
commit are a set of trees.

### StagedMerge, AtomicMerge and the code

`commit_with_report` moves every deleted entry to a trash sibling, copies every
file of the branch to a temp sibling, renames the copies into place, removes the
trash, advances the commit counter and removes the branch. Each is a step here.
The destination, the siblings, the branch directory and `meta.json` are on disk;
the lists of `StagedMerge` and `phase` are in memory and die in `Crash`. An error
while staging leads to the steps of `Drop`. An error after publishing began, and
a crash, are counted (`MaxFaults`). After a restart the branch may be edited,
committed again (over the siblings that were left) or aborted.

Entries are files, directories and symbolic links. `copy_entry` removes what is at
the temp path before it makes a link, but for a file it calls `fs::copy`, which
follows a link that an earlier, crashed commit left there (`storage.rs` 31):
`WriteThrough` then creates or overwrites what the link leads to, which is any path
of the destination or something elsewhere, and the stale link is what is published.
The ghost `astray` collects the paths that were spoilt in this way. The properties
and `AtomicMerge` speak of the other paths; `astray` grows in no other step.

`AtomicSpec` is the refinement: while a commit is under way the abstract tree is
the one at its start (`before`), because readers come through the branch table,
which the commit holds locked; the abstract step happens when it ends. What the
code can give in the two cases it cannot undo is spelled out in `AtomicMerge`:
`Interrupt` (each path old or new, or missing if it was being moved away) and
`HalfRemoved`.

### BranchLog and the code

One branch. `log` and `tlog` are `tombstones.log` and `touches.log` line by line,
`snap` and `tsnap` the legacy snapshots, `content` the base-content files, `meta`
whether `meta.json` is there. Memory is `tombs` and `touches`. Threads take the
lock of their path and then the steps of the code: the touch record (content
file, memory, line), the tombstone, and for a revert the sets in memory first and
the lines after the lock is released.

The files are read line by line, so what is read of a path is what the last line
about it says (`LastAbout`), or the snapshot if there is none; in `touches.log` a
removal is about everything below its path. A write that fails leaves nothing,
half a line, or a line without newline (`open`), and the next line is then fused
with it. Such garbage names no path of the branch: in `tombstones.log` it adds or
removes nothing that exists; in `touches.log` it is "void" if it begins as a
removal, and "junk", which cannot be parsed, if it begins as a record. A line
takes several system calls, so the fragments of two lines can mix when a revert
writes one of them (`LinesMix`); what is left over after the first newline may be
a bare path, which `load_tombstones` takes for a tombstone, or junk.

`rewrite_tombstones` after a commit is cut in steps as well, any of which can fail:
`RewriteFails` is the `?` after the snapshot was truncated or half written or when
the log cannot be removed, `SetTombstonesFails` the one when the snapshot cannot be
opened. The set in memory is the new one already, and nothing repairs the files: the
paths that they now answer differently are put among `lost`, and each leaves it with
the next line about it.

`Load` is `Branch::load` with both migrations, and `CreateBranch` is `Branch::new`
over whatever a directory still holds. Three ghosts name the paths the properties
excuse: `lost` and `tlost` (a line failed, was fused, was mixed, or was overtaken
by a later one) and `bare` (the content file was removed or replaced under a
record).

### BranchFs and the code

A descriptor stands for a file *object*, so that a cached descriptor of a file
that has been replaced, committed or aborted is a thing of its own; `data` is
what every object holds, and the data of a write is the number of its request.
Every operation is two steps or more, its checks and its effect. An operation that
has passed `is_writable` holds the table's lock shared until it is done, which keeps
create, commit and abort away (`TableFree`) but neither freeze nor thaw nor revert.
`freeze_branch` and `thaw_branch` are two steps, the state and the epoch (`setting`
names the branch between them). First writes and deletions are jobs, which the one
worker of the process checks in `StartJob` and does and answers in `RunJob`, in
order; `worker` says whether the branch was frozen between the two. `Checked` and
`EmptyFile` are create and truncation, `OtherBegins` and `OtherEnds` (with `other`) a
write or deletion through another mount of the branch. `pending.raced` collects the
branches that clients changed while the request was under way. `CtlFinish` is
`finalize_branch_op`, `IoctlFinish` the ioctl, `Client` what the daemon is asked by
others, one request at a time. In create and setattr the copy-up and `File::create`
or `set_len` are taken together: a commit that comes between these two is left out.

`FrozenKeepsContent` has one exception, `UnderWay`: what had passed its check, or had
compared its epoch, when the branch was frozen still lands, once. The code has no
lock against that. Everything that begins later is kept off, although the fast path
of `write` never looks at the state.

The caches are not made for everything that can happen. `risk` collects what a
behaviour has met of this: `overlap` (a request for a file that has a job in the
queue), `alias` (the same file by `/@branch/f` and by `/f`), `handle` (a number
that was forgotten), `shared` (another mount replaced the object), `abort`. The
`CONSTRAINT WithinAllowed` follows a behaviour as long as its risks are in
`Allowed`: none in `mount`, `abort` in `mount_abort`. `FreshReads` and
`AckedWrites` carry the same condition, so that they do not rest on the
constraint. In each of those cases the code may serve an older version of the
file; all but `abort` are limits of the caches rather than broken promises. The
invalidation of the caches by rename (`fs.rs` 1698-1703) is not here: rename is in
`BranchManager`.

### Daemon and the code

A command is a process: `ensure_daemon` (probe, start, poll), `connect`, one
request, one response, for some a write to a control file. The probe and the start
are two steps, so two commands may start a daemon each; the ghost `raced` is set when
a command starts one while another is starting or has come up since its probe. A
daemon serves one connection after the other; `spawn_mount` and `unmount` are cut
where a FUSE session, which runs beside them, could see the difference. `Crash` kills
a daemon anywhere. The socket file is a pointer to whoever bound it last, and
outlives its daemon only in a crash. Commands that mount use a free mountpoint.
`Eager` lets control files be used before the mount is acknowledged.

`session` is who holds the `BackgroundSession` of a mountpoint. What dropping it does
is fuser's and not in this repository: `DropSessions` assumes that it unmounts, or,
when a program has a file open there, detaches the mount or fails, and that the
thread is not waited for; such a mountpoint goes on being served (`stray`).

### StorageQuota and the code

A write is three steps (check, bytes, add), in threads that hold the lock of their
path only if they copy up or write by path (`CopyUp`, `WriteData`), and none if they
have a descriptor or set the size (`WriteFd`, `SetLen`). What lowers the counter or
forgets to is there: delete and revert, a smaller size, rename over a file, commit,
abort, a new daemon's scan. `used` is signed and `Check` casts it to `Width` bits and
wraps. Links are stored by the symlink handler without check and add, and their
length is taken off when they are removed; a scan follows those that lead to
directories. Two ghosts count these bytes: `missed` since this daemon's scan, `linked`
over all daemons. Every link that is made and removed lowers the counter for good, so
without a bound on links (`MaxLinked`) there is none on the overshoot, and the two
properties say by how much.

The ghost `lapse` marks what else loses bytes to the counter: a setattr of the size
that overlaps another operation on its file, or fails (`Ignored`: the result of
`set_len` is dropped) when it should shorten it; a rename, or a new link, at a path
whose lock is held; a deletion or a commit that overtakes a truncation; a copy-up
that fails half way (`FailPart`); the ESTALE return of `write` after the bytes were
written. A restart scans the store and heals it. A rename over the destination of a
write by path is marked although it loses nothing.

Left out: `File::create` over an existing delta (`fs.rs` 1320) and the removal of a new
file after ESTALE, which free bytes without `sub` and so only overstate the counter;
directories that a scan counts twice because a link leads to them, which overstates it
too; what a write that races with a new link stores elsewhere, through the link. A
short write is a write of what it stored that was checked for more.

## Runs

Each module names its bounds. Behaviours end when the bounds are used up, so
deadlock is not checked; where the code could wait for ever, liveness is checked
instead (`JobsAnswered`, `CommandsEnd`).

| run | instance | shows |
|---|---|---|
| `structure` | a directory, its file, a file; both modes; 3 file and 4 manager operations; parents written too | types, lineage, tombstones only over inherited paths, reverts that restore what is inherited |
| `publish` | a directory with a file that is in the base and one that is not, lazy, 5 file and 4 manager operations | a commit publishes exactly the branch's files; one file operation, one path |
| `overwrite` | two files, one of them text, two lines, quota refusals, 4 + 4 | no unseen version is overwritten without a record, where lookups end at the parent |
| `hide` | a hidden directory, both modes, freeze and thaw, 3 + 3 | hidden content never shows; snapshots do not move |
| `text_merge` | every three texts of the bound | the merge against its reference |
| `staged` | two paths, any destination and session of files, links and directories, 3 attempts, 1 edit, 2 faults; symmetric paths | `AtomicSpec`; nothing destroyed before publishing; no torn copy published |
| `log` | a directory and a file in it, 2 threads, 3 operations, 1 fault, 1 change of the base; symmetric threads | what is reloaded is what was in memory; merge bases kept; migration changes nothing |
| `mount` | main and one branch, one file by both its paths, 3 requests, 3 inode numbers, 2 epochs | fresh reads, acknowledged writes, frozen branches that keep their content but for what was under way, inode numbers; jobs are answered |
| `daemon` | 3 commands of 7 kinds, 3 processes, 2 branches, 1 mountpoint, 1 kill; overlapping starts; given in the order of their numbers | one daemon unless starts overlapped, held mounts that know their branch, no mount lost, commands end |
| `quota` | 2 threads, 2 branches, 2 files of up to 2 bytes, limit 3, 1 byte of links, 5 operations; symmetric threads and files | the counter understates by the links it missed at most; bounded overshoot |

Why the bounds are enough: for branches, a type change takes two or three
operations and a second session that conflicts with it one or two more; three
names give siblings, nesting and reuse. Two paths and three attempts let a commit
fail, leave side files, and be repeated twice over them. In `log` two threads, of
which one reverts a directory while the other touches the file in it, and one
fault, are what every interleaving of the two logs needs. A stale descriptor
takes a request that opens it, a change, and a request that uses it: three
requests and two changes of the epoch. A race of commands is between two, and the
third mounts or shuts down meanwhile. A race in the quota is between two threads,
and files are compared with a limit that two of them pass; two bytes of links let one
link be made and removed twice, or two of them differ.

Symmetry is used over the two sessions in the runs of `BranchManager`, over the
paths in `staged`, over the threads in `log` and over threads and files in `quota`: the
modules treat them alike, and none of these runs checks liveness. The commands of
`daemon` are interchangeable too, but `CommandsEnd` is checked there; `InOrder` of
`MCDaemon` has them given in the order of their numbers instead.

Fairness. `BranchFs`: weak fairness of the worker, a thread that lives as long as
the process and blocks on nothing but its queue, and of the request under way.
`Daemon`: weak fairness of every daemon and every command, each of which waits
for the other only and sleeps for bounded times. Giving commands, kills, clients
and requests have none.

Two runs state a promise that the code does not keep; their counterexamples are
described under `findings` in PROJECT.json:

* `merge_returns`: an insertion before a line the other side replaced panics.
* `mount_abort`: after an abort through the control file, a file that was open
  still shows what was aborted.

## Where the code differs from its documentation

Met while modelling; the models behave as the code does, and the properties are
stated around it.

* A child's commit changes a frozen parent (`branch.rs` 2372).
* Main's own tombstones hide what a child commits to the base (2331). `publish`
  leaves out a main that is written to directly (`Agents`).
* A parent that is written to directly after the session's first touch is
  overwritten without a record (2198). `overwrite` leaves it out
  (`ParentsWritten`). So is a version that came by a commit further up than the
  parent, or by a failed commit that left something behind: none of these is counted
  in the parent's `commit_count`. With a branch `side` of `left`, TLC finds that
  `right` commits a file to the base and `side` then commits its own version into
  `left` with neither merge nor record; `left` has no touch record of the file, so its
  commit reports a conflict without merge base.
* A branch with a file in place of a directory commits, and reports an error
  afterwards (346). A file replaced by a directory makes every commit fail.
* mkdir or symlink at a deleted file fails and brings the file back (1797).
* Two lines fuse when one side of a text merge drops the final newline and the
  other appends.
* An inherited directory cannot be renamed; of one that is partly in the delta
  only that part moves.
* Two commands that find no daemon start one each; the second takes the socket
  (`daemon.rs` 516). `OneDaemon` names it as its exception (`raced`).
* A mount that is busy when it is unmounted may go on being served after its entry is
  gone, and shows main then (`fs.rs` 171). `NeverFallsBack` is about held sessions.
* What has passed its check when a branch is frozen still changes it (`branch.rs`
  2065, `fs.rs` 909).
* The comment at `branch.rs` 312-313 says that while staging "no existing destination
  data is touched". After a crash that left a link as the temp sibling, `fs::copy`
  writes through it (`storage.rs` 31). `StagedMerge` excepts those paths (`astray`).
* A rewrite of the tombstones that fails leaves memory and files different (`branch.rs`
  1123-1144).
* Links are not counted when they are made, but are when they are removed (`fs.rs`
  2238, `branch.rs` 1940), so `used_bytes` can fall below zero; `set_len` may fail
  unnoticed (`fs.rs` 1894).
* A switch before the mount is acknowledged leaves the notifier under the old
  branch (`daemon.rs` 209). `daemon` leaves it out (`Eager`).
* A torn record in `touches.log` that the next line completes makes the branch
  unreadable at every later start (923). Two lines that mix do the same without a
  crash, and can leave a tombstone at a path that was being reverted (919).
* A copy that fails in `stage_copy` leaves its temp sibling, which the comment at
  266 says is removed; a crash in the middle of a commit leaves the trash too.
* A commit whose branch directory cannot be removed (2346) returns before the
  epoch advances.
* A truncation the quota refuses in copy-up is reported as a success
  (`fs.rs` 1882, the error is wrapped and no longer says ENOSPC).
* After a switch the read cache is said to be invalidated by the epoch
  (`fs.rs` 362), which a switch does not change. It is safe because inode numbers
  are never reused, which is proved.

## Proofs

Every theorem is for all values of the constants that satisfy the ASSUMEs of the
modules, so for any paths, names, files, commands, processes and bounds. Each
safety proof has the same form: an inductive invariant `IInv`, one lemma for each
action that it is kept, and the property as a consequence of it.

### Text merge

`ChangedRangeInBounds`: for texts of every length the range is a range of the
base, and the slice taken from the changed text is in bounds. The lengths of
prefix and suffix are cardinalities of subsets of intervals, which bounds them.

`CleanMergesExplained` (`Spec => []CleanMergeIsExplained`) and `NoConflictIsNeedless`
(`Spec => []NoNeedlessConflict`), for texts of every length over any lines. The
set of lengths `j` for which the first `j` lines agree is an interval from 0, so its
cardinality is its maximum: `changed_range` finds the longest common prefix and,
after it, the longest common suffix. A clean merge of ranges that do not overlap is
then the cut of the reference at the end of the earlier range. Conversely a cut that
explains a merge lies between the two ranges, if no line is repeated: a repeated
line could be matched by the prefix on one side and by the suffix on the other. That
the call always returns is not proved, because it is false (`merge_returns`).

### Branch manager

`TypeCorrect` (`Spec => []TypeOK`) and `LineageCorrect` (`Spec => []LineageOK`),
for any paths closed under parents, any branch names, base tree, hide lists,
modes, operations and bounds. They are proved together, by the inductive
invariant `IInv == TypeOK /\ LineageOK`: neither is inductive alone. An operation
copies what `ResolvePath` returns into a delta, so it keeps the types only if
every branch on the chain is in the table; and commit and abort keep the chains
alive only because a branch on somebody's chain is somebody's parent, hence not
a leaf. `LineageOK` therefore speaks of the links of each chain, element by
element, and not of equality with the parent's chain, which would need
induction over the length. The lemmas go bottom up: trees, merged text,
resolution, the record each operation leaves (`Follows`), the frame of the
lineage (`LineageFrame`), one lemma per manager operation, the induction.

`SnapshotIsolated` (`Spec => SnapshotIsIsolated`): from `LineageOK` the chain of
a snapshot branch is the branch itself, so what it resolves is a function of its
own record.

`TreesOK`, that every entry lies in a directory, is a lemma about the model, which the
next theorems need: inductive together with `IInv`. The work is in the operators:
copy-up adds the missing parents first; a prune removes a directory only when it is
empty; a move takes everything below along; a failed commit is a set of trees, because
the deletions come in the order of a hash set, and each of its members is shown to be
one.

`RevertRestored` (`Spec => RevertRestoresInherited`): what a branch inherits does
not depend on its own delta and tombstones (`InheritedFrame`), because no branch
is on its own chain above itself (`ChainDescends`: incarnations decrease); and
after the revert none of the two says anything about the path or what is below
it, which needs that the delta is a tree.

`TombstonesHide` (`Spec => TombstonesHideSomething`): for the file operations the
code asks the parent first; a nested commit moves the child's tombstones up, and
those the parent gains are where the parent's own chain shows something.

`HiddenStaysHidden` (`"rename" \notin Ops => (Spec => []HiddenNeverLeaks)`): the
property speaks of what a lookup finds, which no induction can carry: a snapshot
branch commits into a parent that its lookups never visit. The invariant
`HiddenFresh` speaks of the records instead and of all ancestors: at a path that
an ancestor hides, the delta, the touch records (from which a merge takes its
base) and the copied tree of a branch hold lines newer than that ancestor.
`Ancestors` is the least set closed under parents, which is not recursive. The
hypothesis excludes what the property excludes in its comment: a program may
rename an older file to the hidden path.

`OneOperationConfined` (`Spec => OneOperationOnePath`): the path is that of the
operation, `PathOperation(b, p)` or `Rename(b, p, d)`, so the property speaks of every
other entry of the same directory too. `Confined` says of the record an
operation leaves that it answers differently only at the operation's paths and below
them, and that of the directories above at most those appear that are needed and those go
that are empty. One lemma for each operation shows it (a rename is two copies, a
removal and a move), and `ConfinedView` carries it to the view of every branch whose
chain visits the one that was changed: `LookupGoesOn` says that a lookup which is not
answered by the first branches of a chain goes on as a lookup of the rest.

`CommitPublishes` (`Main \notin Agents => (Spec => CommitPublishesView)`), at every depth
of nesting. The argument is about four things only: the record `r` that is committed,
the parent's record before (`M`) and after (`N`) and what the parent inherits (`I`);
for a commit to the base `M` and `N` are main's record with the base directory as
delta, and `I` is empty. `FilesPublished` is what StagedMerge and the pruning do to the
delta, `TombsPublished` which tombstones the parent then has: a deletion is handed on
exactly where `I` would show through. From these two `RecordsPublish` gives the
property, file by file. It needs `TreesOK`, because a deleted directory takes what is
below along; `NoOrphans`, because in `I` too nothing may be found without the
directories above it; and that `I` is the same before and after, because the
committed branch and its parent are not on the chain above the parent. The hypothesis
makes `MainClean` inductive: main's own delta and tombstones stay empty, as otherwise a
tombstone of main hides what a child commits.

`NothingOverwritten` (`Spec /\ [][ParentsChangeByCommit]_vars => NoSilentOverwrite`):
`parent_changed` stands for a comparison with what the branch inherits only as long
as the parent changes by counted commits, and that is the hypothesis: it leaves out
programs that write to a branch with children or revert a path of it, and failed commits
that leave something behind. The code overwrites silently in each of these cases.
The invariant is `SeenInv`: while the counter is that of the fork, every touch record
is what the branch still inherits. A file operation records what is inherited now
(`Recorded`); a sibling's commit advances the counter, which `LineageOK` bounds from
below by the fork's, so that the two never meet again. Where the counter has
advanced, the commit compares every path it publishes with its record.

The provers have no induction over sequences. Where a fact is about the first
branch of a chain that answers, it is proved by the least counterexample
(`LeastNumber`, from the well-founded order of the naturals).

### Staged merge

The inductive invariant is `TypeOK /\ Untorn /\ Stale /\ Counted /\ Progress`. `Progress`
says, for each phase, where each path of the destination is: untouched, in its
trash, or new; and that a staged copy is the branch's file. `Untorn` says that
only temp siblings are ever torn, but for what is astray; `Stale` which links may be
left as temp siblings; `Counted` relates the counters in memory and on
disk with those at the start of the attempt. They need each other: that no torn
copy is published (`NeverTorn`) follows from `Progress`, because a torn sibling of
an earlier attempt is overwritten before it is on the list of copies.
`TypeCorrect`, `NothingDestroyed` and `NeverTorn` are consequences.

`Implements` (`Spec => AtomicSpec`) is the refinement: initial states map to initial
states; the end of an attempt maps to `Commit`, to nothing (a rollback), or, after
a late fault or a crash, to `Interrupt` or `HalfRemoved`; every other step is a
stutter. That a rollback is a stutter is the part `Progress` is for: when no late
fault happened, `Drop` finds everything it has to put back in the trash.

### Inode table and mount

`InodesStayInverse` and `NumbersUnique`: under any calls of
the table its two maps are inverse to each other, and no number comes to mean
another file. `InodesInverse` is inductive: that removing the numbers of the
removed paths leaves inverse maps needs both directions at once, and that a new
number is new needs every number to be below `nextIno`.

`MountInodesInverse` and `MountNumbersUnique` carry this to the
mount, for any branches, files, prefixes (`Hits`) and bounds: every step of the
mount, its worker and its clients is a step of the table or leaves it alone. The
worker forgets a path long after the request that named it, so the invariant
`MountInv` says that jobs name files and not the root; without it a deletion could
take the root's number away.

The rest of the module goes on from there. `TypeCorrect` needs that no descriptor and
no request is ahead of the epoch and that every place of the store holds an object
of its own. `FrozenStays` needs more (`FrozenInv`). `DescriptorInv`: a write
descriptor that the fast path would take is no object of a frozen branch, unless the
epoch has not been advanced yet; freezing makes the epoch new, and the fast path
compares epochs. `LateInv`: an operation between its check and its effect is either on
a branch that is still writable or known to be late. `OpenedInv` says where the
descriptor of a slow write is while its request is under way. `ReadsStayFresh` and `WritesLand` rest on all of
`IInv`: `ReadInv` and `WriteInv` say that a descriptor that would be taken is what
a lookup would find, as long as no risk has been met and the worker has nothing
but that file's own deletion in its queue; `SeenInv` and `ServeInv` carry this over
the moment between the staleness check and the transfer, in which a client of the
daemon may commit or revert: what the descriptor holds was visible when the
request began, and whoever may still write to it writes to the file that is read.
These two theorems do not use the run's constraint: the risks are in the property.

### Branch logs

The parts of `IInv`: `Threaded` (what each step of an operation has still to handle;
a commit is alone), `Filed` (a log without final newline has a line; records of
earlier releases have no content file), `TombsKept` and `Records`, `Migrating`.
`TombsKept` and the first part of `Records` are the two durability properties with
the exact moment at which a revert is their exception: the properties excuse every
path a revert has in hand, and that is not inductive, because the line that ends
the exception must also be what makes the files right. `Records` says moreover that
the content file fits the record that a restart would find, and not only the one in
memory, and that it still would after the last line is spoilt by fusion: a spoilt
line brings an older record of its path back. `Migrating` says that once a snapshot
has been put before the log, reading with or without it is the same.

`TombstonesKept`, `RecordsKept`, `MergeBasesKept` and `TypeCorrect` follow from
`IInv`; `MigrationIsSilent` from `Migrating` and lemmas about a log put behind
another (`LastConcat`). That every set of lines has a last line about a path is
proved by the least number (`LeastNumber`); that the lines of a snapshot are a
sequence in some order is the library's bijection of a finite set (`SetAsSequence`).
Nothing needs induction over logs, because reading is defined by the last line
instead of by a fold.

### Daemon

The parts of `IInv`: `Shape` (types), `Connected` (a command is in one backlog, once,
or with one daemon), `Free` (a mountpoint that is asked for has no session and
nobody else asks for it), `Serving` (a session has a branch, and is in the table of
its daemon or about to be; a daemon that is shutting down has no mount and does
not go back to serving), `Enough` (as many commands have started as processes, so
there is always a process for a new daemon), `Sole` (at most one process starts or
runs and the socket leads to it, or starts have overlapped: `raced \/ Single`).
`TypeCorrect`, `BranchStays`, `ExitIsClean` and `OneAtATime` follow without further
hypotheses. `NotifierIsFound` assumes `~Eager`, under which `Notified` is inductive;
without it the code does not keep the promise, as the section above says.

### Storage quota

The inductive invariant is `QuotaInv == Types /\ Locks /\ Steady /\ Limited`, from which
`QuotaTypes`, `CounterCovers` and `OvershootLimit` follow, for any numbers of threads,
branches and files.

`NeverUnderstates` is not inductive: it compares the bytes of the deltas with the
counter, but a truncation lowers the counter before it cuts the file and a write
advances it after. `Steady` weighs each file with the size it will have when the
truncations under way are done (`Held`) and each thread with what it will still add or
has already taken off (`Owed`), and keeps `HeldSum <= used + OwedSum + missed`. For that
a set_len must be alone on its file (`SetAlone`), and what a job has read of its file
must still hold (`Fits`): a set_len finds the size it read, a copy finds nothing, a
write at least what it read, and a write by path finds again what it wrote, because
it counts what it reads afterwards. What breaks these is what sets `lapse`. `Locks`
says that a holder of a path lock is alone and has not lost its path, and that a
descriptor which still has a path is that of the delta there.

`Limited` is the limit: the bytes in the deltas together with those that have passed a
check and are not written yet (`Room`) stay within `MaxBytes`, one write of every
thread but one and `linked`, and so, with one write more and the metadata, do the
counter and what may be added to it (`Credit`: a write by path may add more than it
was checked for, if the file has grown meanwhile). The second part, with
`WidthAssumption`, is why the cast to unsigned and the wrapping sum of `check` let
nothing more through.

The sums are over functions on finite sets. There is no induction for them either:
that `SumFunction` is what it should be (defined for every finite set, independent of
the order, monotone, additive, and what a change at one point does to it) is proved
with the set of smallest cardinality for which it would fail (`SmallestSet`), in
lemmas at the head of the module.

### What proving has corrected

* `FreshReads` was false beyond the bound of its run: `Visible` counted a branch
  that is gone as showing nothing, while a path of it shows what its parent
  holds. `Visible` was corrected.
* A failed commit was modelled too coarsely: a trash entry below another deleted
  directory cannot be renamed back by itself, only tombstones whose path exists
  are staged, deletions inside a replaced directory are always lost, and
  directories that were made stay (`HalfPublished`, `RolledBack`).
* `RevertRestoresInherited` promised too much on the way to the path, where the
  code prunes empty directories; it now says that everything else stays.
* `TombstonesDurable` and `TouchesDurable` were false beyond the one fault of their
  run: a line that a crash leaves without newline is fused by a write after the
  restart, and its paths were not among the exceptions. The ghosts were corrected.
* A torn removal in `touches.log` was taken to be unreadable; the code reads it as
  the removal of a path that does not exist.
* Lines were taken to be written whole between threads; `LinesMix` was added.
* `NoSilentOverwrite` was stated for branches at any depth and held only because the
  two sessions of its run leave nobody to commit further up; it is now about lookups
  that end at the parent. Failed commits that
  leave half of their files in the base, uncounted, were met in its proof.
* `OneOperationOnePath` held only for the base of its run: unlink also prunes a
  directory above that was copied up and never touched, which uncovers what others
  have committed there meanwhile.
* `CommitPublishesView` held only for the base and the bounds of its run: a commit
  copies files and no directories, so a directory of the branch may cover a file that
  was committed after it; nothing is said of such a path now. The run has one more file
  operation and a path that the base lacks, in which these cases happen.

Assumptions are the ASSUMEs of `BranchTree`, `BranchManager`, `TextMergeRun`,
`StagedMerge`, `BranchLog`, `InodeManager`, `BranchFs`, `Daemon` and `StorageQuota`; TLC
evaluates them in the runs. None restricts the program: paths are closed under
parents, what is below a path includes it, names are distinct, only a last line
lacks its newline, paths, files, threads, branches of the quota, commands and
processes are finitely many, a process is there for every command that may start
one, and what the counter can reach fits into the 64 bits it has.

The hypotheses of theorems, beyond these: no renames (`HiddenStaysHidden`), nobody
mounts main for writing (`CommitPublishes`), parents change by commits
(`NothingOverwritten`), control files are used after the mount is acknowledged
(`NotifierIsFound`). Without each of them the code does not keep
the property, as described above.

### Only model-checked

* Liveness (`JobsAnswered`, `CommandsEnd`): TLAPS does not handle fairness.
* The violations (`merge_returns`, `mount_abort`), which are
  counterexamples and have nothing to prove.

Every other property of the runs is stated by a theorem.

## Plan

Done: text merge, branch manager, staged merge and its refinement, logs, inode table,
mount, daemon, quota, and the theorems above. What could follow: the handlers of
`fs.rs` that only read, a last line fused with the next in the text merge, and paths as
strings in the logs, so that a line cut in the middle may name another path.

## Not modelled

* The platform layer (ioctl numbers, rename flags, kernel passthrough),
  packaging and benchmarks hold no state of the system.
* FUSE handlers that only read (getattr, readdir, readlink, statfs, access,
  extended attributes), flush and fsync, and the daemon's and command line's
  listings.
* The kernel's own page and entry caches: a notifier is there or not, and what
  the kernel does with an invalidation is not the program's.
* A mountpoint that is mounted a second time over its first mount: the daemon
  then forgets the first session (`daemon.rs` 164); `Daemon` has commands mount
  free mountpoints.
* Branch name validation, permission guards on mode-000 directories, modes,
  owners and times: they do not change which files a branch shows.
* Symbolic links and directory sizes in the quota.
* In the logs of a branch, a path that a full disk cuts in its middle (half a line
  names no path of the branch in the model), and a crash in the middle of two lines
  that mix, beyond what a crash just after them leaves.
