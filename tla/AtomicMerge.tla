---------------------------- MODULE AtomicMerge ----------------------------
(***************************************************************************)
(* What committing one branch promises to those who read through the       *)
(* branch table (src/src/branch.rs): the destination takes the whole       *)
(* session at once and the branch is gone, or it is left as it was.  Only  *)
(* a crash, or a system call that fails after publishing began, gives less *)
(* (Interrupt): every path then holds its old entry or its new one, or is  *)
(* missing when the merge had to move an entry away.                       *)
(*                                                                         *)
(* Nothing of this holds for the paths in astray: they were written        *)
(* through a link that an earlier, interrupted commit left behind, or are  *)
(* themselves such a link now.                                             *)
(***************************************************************************)
EXTENDS Naturals

CONSTANTS
    Path,       \* the paths of the destination, none below another
    Version     \* what a file can contain

VARIABLES
    tree,       \* the destination: an entry for every path
    branch,     \* the branch on disk: whether it exists, files/, tombstones
    count,      \* commit_count of the destination's branch, in its meta.json
    faults,     \* crashes and late failures so far
    astray      \* paths that a link left behind has spoilt

Missing == [kind |-> "none", v |-> 0]
Dir     == [kind |-> "dir", v |-> 0]
File(n) == [kind |-> "file", v |-> n]
Link(n) == [kind |-> "link", v |-> n]
Entry   == {Missing, Dir} \union {File(n) : n \in Version} \union {Link(n) : n \in Version}

Branches == [alive : BOOLEAN, files : [Path -> Entry \ {Dir}], tombs : SUBSET Path]

Copied(b) == {p \in Path : b.files[p] # Missing}

\* The destination after the whole session was applied to t.
Merged(t, b) ==
    [p \in Path |-> IF p \in Copied(b) THEN b.files[p]
                    ELSE IF p \in b.tombs THEN Missing ELSE t[p]]

\* The entries the merge moves aside before it publishes.
MovedAway(t, b) == {p \in Path : p \in b.tombs \/ (p \in Copied(b) /\ t[p] = Dir)}

\* What is left of a branch whose directory was being removed.
Remains(b, c) ==
    /\ \A p \in Path : c.files[p] \in {b.files[p], Missing}
    /\ c.tombs \in {b.tombs, {}}

Init ==
    /\ tree \in [Path -> Entry]
    /\ branch \in {b \in Branches : b.alive}
    /\ count = 0 /\ faults = 0 /\ astray = {}

\* Paths go astray only in a commit, and not before a crash or a late failure
\* has left a link behind.
Straying ==
    /\ tree' \in [Path -> Entry]
    /\ astray \subseteq astray' /\ astray' \subseteq Path
    /\ astray' # astray => faults > 0

\* A commit makes t of the destination, but for the paths that go astray.
Becomes(t) == Straying /\ \A p \in Path \ astray' : tree'[p] = t[p]

\* The session writes, deletes or reverts.
Edit ==
    /\ branch.alive
    /\ branch' \in {b \in Branches : b.alive}
    /\ UNCHANGED <<tree, count, faults, astray>>

Commit ==
    /\ branch.alive
    /\ Becomes(Merged(tree, branch))
    /\ branch' = [branch EXCEPT !.alive = FALSE]
    /\ count' > count
    /\ UNCHANGED faults

Abort ==
    /\ branch.alive
    /\ branch' = [branch EXCEPT !.alive = FALSE]
    /\ UNCHANGED <<tree, count, faults, astray>>

\* A commit that fails before it publishes, and is rolled back.
Fail ==
    /\ branch.alive
    /\ Becomes(tree)
    /\ UNCHANGED <<branch, count, faults>>

\* A commit that is cut short while it publishes: the branch is still there.
Interrupt ==
    /\ branch.alive
    /\ Straying
    /\ \A p \in Path \ astray' :
          \/ tree'[p] \in {tree[p], Merged(tree, branch)[p]}
          \/ p \in MovedAway(tree, branch) /\ tree'[p] = Missing
    /\ count' = count
    /\ branch' = branch
    /\ faults' > faults

\* A commit or an abort that is cut short while it removes the branch.
HalfRemoved ==
    /\ branch.alive
    /\ \/ Becomes(tree) /\ count' = count
       \/ Becomes(Merged(tree, branch)) /\ count' > count
    /\ branch' \in Branches
    /\ Remains(branch, branch')
    /\ faults' > faults

Next == Edit \/ Commit \/ Abort \/ Fail \/ Interrupt \/ HalfRemoved

Spec == Init /\ [][Next]_<<tree, branch, count, faults, astray>>
=============================================================================
