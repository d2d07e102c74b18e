---------------------------- MODULE StorageQuota ----------------------------
(***************************************************************************)
(* The storage quota: StorageQuota of src/src/branch.rs and its users.  A  *)
(* write reads the counter, writes its bytes and then advances it, in      *)
(* request loops and workers at the same time; what frees bytes lowers it  *)
(* or forgets to.  A symbolic link is stored uncounted and its length is   *)
(* taken off the counter when it is removed.  The kernel follows links, so *)
(* nothing is written to one; a link that a copy-up has copied is counted  *)
(* as a file is.                                                           *)
(***************************************************************************)
EXTENDS Integers, FiniteSets, Functions

CONSTANTS
    Writer,     \* threads that write
    Branch,     \* branches other than main
    Child,      \* the one that is committed into Parent
    Parent,
    File,       \* paths
    MaxBytes,   \* max_bytes
    MaxSize,    \* bound: size of a file, length of a link
    MaxLinked,  \* bound: bytes of links that the counter misses
    Metadata,   \* bytes of a store beside the deltas (meta.json, logs)
    Width,      \* bits of u64
    MaxOps      \* bound: operations

ASSUME QuotaAssumption ==
    /\ {Child, Parent} \subseteq Branch /\ Child # Parent
    /\ {MaxBytes, MaxSize, MaxLinked, Metadata, Width, MaxOps} \subseteq Nat
    /\ IsFiniteSet(Writer) /\ Writer # {} /\ IsFiniteSet(Branch) /\ IsFiniteSet(File)
    /\ -1 \notin File

\* What the counter can reach, and one write more, is less than it can hold.
ASSUME WidthAssumption ==
    /\ 2 ^ Width \in Nat
    /\ MaxBytes + (Cardinality(Writer) + 1) * MaxSize + MaxLinked + Metadata < 2 ^ Width

VARIABLES
    used,       \* used_bytes
    size,       \* size[b][f]: of the delta of f in b, or None
    links,      \* the deltas <<b, f>> that the symlink handler made
    job,        \* job[w]: what w does between its check and its add or sub
    missed,     \* ghost: bytes of links that this daemon's counter has missed
    linked,     \* ghost: the same, of every daemon so far
    lapse,      \* ghost: "none", "open" after a race that loses bytes, then "healed"
    ops         \* operations so far

vars == <<used, size, links, job, missed, linked, lapse, ops>>
ghosts == <<missed, linked>>

None == -1
NoJob == [br |-> Child, file |-> None, old |-> 0, end |-> 0, kind |-> "none", wrote |-> FALSE]

Stored(b, f) == IF size[b][f] = None THEN 0 ELSE size[b][f]

\* dir_size of the deltas, and of those in D
Actual == SumFunction([x \in Branch \X File |-> Stored(x[1], x[2])])
Bytes(D) == SumFunction([x \in Branch \X File |-> IF x \in D THEN Stored(x[1], x[2]) ELSE 0])

\* Mutated form of Check: it compares what is there already.
CheckBefore(additional) == used % (2 ^ Width) <= MaxBytes

\* check: the signed counter is cast, and the sum wraps (release build).
Check(additional) == ((used % (2 ^ Width)) + additional) % (2 ^ Width) <= MaxBytes

Step == ops < MaxOps /\ ops' = ops + 1
On(b, f) == {w \in Writer : job[w].br = b /\ job[w].file = f}

\* The path lock is held by a copy-up and by a write by path.
Holds(w) == job[w].kind \in {"copy", "path"}
Locked(b, f) == \E w \in On(b, f) : Holds(w)

Setting(b, f) == \E w \in On(b, f) : job[w].kind = "set"
Cutting(b, f) == \E w \in On(b, f) : job[w].end < job[w].old
Lapses(raced) == lapse' = IF raced THEN "open" ELSE lapse

Starts(w, b, f, end, kind) ==
    /\ Step /\ job[w] = NoJob
    /\ job' = [job EXCEPT ![w] = [br |-> b, file |-> f, old |-> Stored(b, f), end |-> end,
                                  kind |-> kind, wrote |-> FALSE]]
    /\ UNCHANGED <<used, size, links, ghosts>>

IsFile(b, f) == size[b][f] # None /\ <<b, f>> \notin links

\* A copy-up of end bytes, with what is written to the copy before it is
\* renamed into place, under the path lock.
CopyUp(w, b, f, end) ==
    /\ size[b][f] = None /\ ~Locked(b, f) /\ Check(end)
    /\ Starts(w, b, f, end, "copy")
    /\ UNCHANGED lapse

\* Mutated form of WriteData: it does not wait for the path lock.
WriteDataUnlocked(w, b, f, end) ==
    /\ <<b, f>> \notin links /\ end > size[b][f] /\ Check(end - Stored(b, f))
    /\ Starts(w, b, f, end, "path")
    /\ Lapses(Setting(b, f))

\* write_data_to_branch, by path: to a delta, or where nothing is inherited.
WriteData(w, b, f, end) ==
    /\ <<b, f>> \notin links /\ ~Locked(b, f)
    /\ end > size[b][f] /\ Check(end - Stored(b, f))
    /\ Starts(w, b, f, end, "path")
    /\ Lapses(Setting(b, f))

\* A write through a descriptor.  Nothing is locked.
WriteFd(w, b, f, end) ==
    /\ IsFile(b, f) /\ end > size[b][f] /\ Check(end - size[b][f])
    /\ Starts(w, b, f, end, "fd")
    /\ Lapses(Setting(b, f))

\* setattr with another size: a smaller one is not checked, nothing is locked.
SetLen(w, b, f, end) ==
    /\ IsFile(b, f) /\ end # size[b][f]
    /\ end > size[b][f] => Check(end - size[b][f])
    /\ Starts(w, b, f, end, "set")
    /\ Lapses(On(b, f) # {})

\* The entry of the job w gets n bytes; its file may be gone, and a link leads
\* elsewhere.
Puts(w, n) ==
    size' = IF job[w].file = None \/ <<job[w].br, job[w].file>> \in links THEN size
            ELSE [size EXCEPT ![job[w].br][job[w].file] = n]

\* A copy and set_len give the size, a write extends to it.
Write(w) ==
    LET j == job[w] IN
    /\ j # NoJob /\ ~j.wrote
    /\ IF j.kind \in {"copy", "set"} \/ (j.file # None /\ size[j.br][j.file] < j.end)
       THEN Puts(w, j.end) ELSE size' = size
    /\ job' = [job EXCEPT ![w].wrote = TRUE]
    /\ UNCHANGED <<used, links, ghosts, lapse, ops>>

\* set_len fails: the result is dropped and the counter changed all the same.
Ignored(w) ==
    /\ job[w].kind = "set" /\ ~job[w].wrote
    /\ job' = [job EXCEPT ![w].wrote = TRUE]
    /\ Lapses(job[w].end < job[w].old)
    /\ UNCHANGED <<used, size, links, ghosts, ops>>

\* What is added or taken off: what was reckoned before or, by path, what the
\* file has gained by now, if it is still there.
Counted(w) ==
    LET j == job[w] IN
    IF j.kind # "path" THEN j.end - j.old
    ELSE IF Stored(j.br, j.file) > j.old THEN Stored(j.br, j.file) - j.old ELSE 0

\* add, or sub.
Account(w) ==
    /\ job[w].wrote
    /\ used' = used + Counted(w)
    /\ job' = [job EXCEPT ![w] = NoJob]
    /\ UNCHANGED <<size, links, ghosts, lapse, ops>>

\* The write fails.
Fail(w) ==
    /\ job[w] # NoJob /\ ~job[w].wrote /\ job[w].kind # "set"
    /\ job' = [job EXCEPT ![w] = NoJob]
    /\ UNCHANGED <<used, size, links, ghosts, lapse, ops>>

\* copy_entry fails after n bytes, which stay and are not counted.
FailPart(w, n) ==
    /\ job[w].kind = "copy" /\ ~job[w].wrote /\ n < job[w].end
    /\ Puts(w, n)
    /\ job' = [job EXCEPT ![w] = NoJob]
    /\ Lapses(TRUE)
    /\ UNCHANGED <<used, links, ghosts, ops>>

\* The mount has become stale under the write: ESTALE instead of add.
Stale(w) ==
    /\ job[w].wrote /\ job[w].kind = "fd"
    /\ job' = [job EXCEPT ![w] = NoJob]
    /\ Lapses(TRUE)
    /\ UNCHANGED <<used, size, links, ghosts, ops>>

\* symlink: no check and no add; it fails if there is an entry, and it does
\* not hold the path lock any more.
Symlink(b, f, n) ==
    /\ Step /\ size[b][f] = None
    /\ linked + n <= MaxLinked
    /\ size' = [size EXCEPT ![b][f] = n] /\ links' = links \union {<<b, f>>}
    /\ missed' = missed + n /\ linked' = linked + n
    /\ Lapses(On(b, f) # {})
    /\ UNCHANGED <<used, job>>

\* Descriptors whose file is no longer where it was: of the deltas S.
Detached(S) ==
    [w \in Writer |-> IF <<job[w].br, job[w].file>> \in S
                      THEN [job[w] EXCEPT !.file = None] ELSE job[w]]

\* delete_path_in_branch and revert_path_in_branch, under the path lock: the
\* length of a link is taken off as that of a file is.
Delete(b, f) ==
    /\ Step /\ size[b][f] # None /\ ~Locked(b, f)
    /\ used' = used - size[b][f]
    /\ size' = [size EXCEPT ![b][f] = None] /\ links' = links \ {<<b, f>>}
    /\ job' = Detached({<<b, f>>})
    /\ Lapses(Cutting(b, f))
    /\ UNCHANGED ghosts

\* rename of a delta over another: nothing is locked, nothing is counted, and
\* the descriptors follow their files.
Rename(b, f, g) ==
    /\ Step /\ f # g /\ size[b][f] # None
    /\ size' = [size EXCEPT ![b][f] = None, ![b][g] = size[b][f]]
    /\ links' = (links \ {<<b, f>>, <<b, g>>}) \union (IF <<b, f>> \in links THEN {<<b, g>>} ELSE {})
    /\ job' = [w \in Writer |-> IF Holds(w) THEN job[w]
                                ELSE IF w \in On(b, f) THEN [job[w] EXCEPT !.file = g]
                                ELSE IF w \in On(b, g) THEN [job[w] EXCEPT !.file = None]
                                ELSE job[w]]
    /\ Lapses(Locked(b, f) \/ Locked(b, g))
    /\ UNCHANGED <<used, ghosts>>

\* A commit and an abort take the branch table from the holders of path locks.
Exclusive == \A b \in Branch, f \in File : ~Locked(b, f)

\* Commit to the base, or abort: the deltas go, the counter stays.
Drop(b) ==
    /\ Step /\ Exclusive
    /\ size' = [size EXCEPT ![b] = [f \in File |-> None]] /\ links' = links \ ({b} \X File)
    /\ job' = Detached({b} \X File)
    /\ UNCHANGED <<used, ghosts, lapse>>

Taken(f) == size[Child][f] # None
Merged == [size EXCEPT ![Child] = [f \in File |-> None],
                       ![Parent] = [f \in File |-> IF Taken(f) THEN size[Child][f] ELSE @[f]]]

\* The deltas that the commit of Child moves or overwrites.
Replaced == ({Child} \X File) \union ({Parent} \X {f \in File : Taken(f)})
Relinked == (links \ Replaced) \union {<<Parent, f>> : f \in {f \in File : <<Child, f>> \in links}}

\* Mutated form of CommitUp: the bytes of the child are given back.
CommitUpFreeing ==
    /\ Step /\ Exclusive
    /\ size' = Merged /\ links' = Relinked
    /\ used' = used - SumFunction([f \in File |-> Stored(Child, f)])
    /\ job' = Detached(Replaced)
    /\ Lapses(\E f \in File : Cutting(Child, f))
    /\ UNCHANGED ghosts

\* Commit into a parent branch: the deltas are copied and replace the parent's.
CommitUp ==
    /\ Step /\ Exclusive
    /\ size' = Merged /\ links' = Relinked
    /\ job' = Detached(Replaced)
    /\ Lapses(\E f \in File : Cutting(Child, f))
    /\ UNCHANGED <<used, ghosts>>

\* A new daemon: scan_usage counts every file below branches/, and every link
\* but those of D, which lead to directories and are followed.
Restart(D) ==
    /\ Step /\ linked + Bytes(D) <= MaxLinked
    /\ used' = Actual - Bytes(D) + Metadata
    /\ missed' = Bytes(D) /\ linked' = linked + Bytes(D)
    /\ job' = [w \in Writer |-> NoJob]
    /\ lapse' = IF lapse = "none" THEN lapse ELSE "healed"
    /\ UNCHANGED <<size, links>>

Init ==
    /\ used = 0 /\ ops = 0 /\ lapse = "none"
    /\ size = [b \in Branch |-> [f \in File |-> None]] /\ links = {}
    /\ job = [w \in Writer |-> NoJob]
    /\ missed = 0 /\ linked = 0

Next ==
    \/ \E w \in Writer, b \in Branch, f \in File, n \in 0..MaxSize :
          CopyUp(w, b, f, n) \/ WriteData(w, b, f, n) \/ WriteFd(w, b, f, n) \/ SetLen(w, b, f, n)
    \/ \E w \in Writer : Write(w) \/ Ignored(w) \/ Account(w) \/ Fail(w) \/ Stale(w)
    \/ \E w \in Writer, n \in 0..MaxSize : FailPart(w, n)
    \/ \E b \in Branch, f \in File, n \in 1..MaxSize : Symlink(b, f, n)
    \/ \E b \in Branch, f \in File : Delete(b, f)
    \/ \E b \in Branch, f, g \in File : Rename(b, f, g)
    \/ \E b \in Branch : Drop(b)
    \/ CommitUp
    \/ \E D \in SUBSET links : Restart(D)

Spec == Init /\ [][Next]_vars

\* Sizes and jobs, and what the path locks give: one write by path at a time
\* for each path.
TypeOK ==
    /\ used \in Int /\ lapse \in {"none", "open", "healed"}
    /\ \A b \in Branch, f \in File : size[b][f] \in None..MaxSize
    /\ links \subseteq Branch \X File /\ {missed, linked} \subseteq 0..MaxLinked
    /\ \A w \in Writer : job[w] = NoJob \/ {job[w].old, job[w].end} \subseteq 0..MaxSize
    /\ \A w, v \in Writer : w # v /\ Holds(w) /\ Holds(v) =>
          <<job[w].br, job[w].file>> # <<job[v].br, job[v].file>>

\* Written and not yet added.
Pending == SumFunction([w \in Writer |-> IF job[w].wrote /\ job[w].end > job[w].old
                                         THEN job[w].end - job[w].old ELSE 0])

\* The counter and the additions under way never fall below the bytes of the
\* deltas by more than the links it has missed, whatever was deleted, cut,
\* renamed over, committed or aborted and in whatever order, unless a setattr of
\* the size overlapped another operation on its file or failed to shorten it, a
\* rename or a new link met a copy-up or a write by path, a copy-up failed half way, or a
\* write ended with ESTALE.  A restart heals that.
NeverUnderstates == lapse # "open" => Actual <= used + Pending + missed

\* With checks and additions apart, the threads together pass the limit of
\* the quota by at most one write each but one, and by the links the counter
\* has missed: each of them, made and removed, lowers the counter for good.
OvershootBounded ==
    lapse = "none" => Actual <= MaxBytes + (Cardinality(Writer) - 1) * MaxSize + linked
=============================================================================
