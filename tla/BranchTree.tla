----------------------------- MODULE BranchTree -----------------------------
(***************************************************************************)
(* Directory trees as the branch store uses them: the base directory, a    *)
(* branch's files/ (delta) directory and its inherited/ snapshot.          *)
(*                                                                         *)
(* A path is the sequence of its names, and the root <<>> is not a path.   *)
(* A tree maps every path to an entry, the entry Missing when nothing is   *)
(* there.  A file is the sequence of its lines; directories and symbolic   *)
(* links have no content (every link dangles, so that no operation goes    *)
(* through one).  Modes, owners and times are left out: PathIdentity       *)
(* compares kind, size and mtime, and here a file's identity is its        *)
(* content.                                                                *)
(***************************************************************************)
EXTENDS Integers, Sequences, FiniteSets

CONSTANTS
    Path,       \* the paths of the instance
    Line        \* the lines a file can hold

\* Paths are non-empty and the parent directory of a path is a path.
ASSUME PathAssumption ==
    \A p \in Path : /\ p \in Seq(STRING)
                    /\ Len(p) > 0
                    /\ \A n \in 1..Len(p) : SubSeq(p, 1, n) \in Path

-----------------------------------------------------------------------------
(***************************************************************************)
(* Paths.                                                                  *)
(***************************************************************************)
\* path_is_same_or_descendant: p itself and what is below it.
Under(p) == {q \in Path : Len(p) <= Len(q) /\ SubSeq(q, 1, Len(p)) = p}

Below(p) == Under(p) \ {p}

\* The directories that contain p, directly or not.
Above(p) == {a \in Path : Len(a) < Len(p) /\ SubSeq(p, 1, Len(a)) = a}

\* The directory that contains p; <<>> for an entry of the root.
ParentDir(p) == SubSeq(p, 1, Len(p) - 1)

-----------------------------------------------------------------------------
(***************************************************************************)
(* Entries and trees.                                                      *)
(***************************************************************************)
Missing == [kind |-> "missing", lines |-> <<>>]
Dir     == [kind |-> "dir", lines |-> <<>>]
Symlink == [kind |-> "symlink", lines |-> <<>>]
File(l) == [kind |-> "file", lines |-> l]

Kind  == {"missing", "dir", "symlink", "file"}
Entry == [kind : Kind, lines : Seq(Line)]
Tree  == [Path -> Entry]

EmptyTree == [p \in Path |-> Missing]

Exists(e) == e.kind # "missing"
IsDir(e)  == e.kind = "dir"
IsFile(e) == e.kind = "file"
IsLeaf(e) == e.kind \in {"file", "symlink"}     \* what walk_files visits

\* remove_entry on every path of S.
RemoveTree(t, S) ==
    [q \in Path |-> IF \E p \in S : q \in Under(p) THEN Missing ELSE t[q]]

\* ensure_parent_dirs (create_dir_all of the parent) for every path of S.
MkParents(t, S) ==
    [q \in Path |-> IF ~Exists(t[q]) /\ \E p \in S : q \in Above(p)
                    THEN Dir ELSE t[q]]

\* create_dir_all fails: something above p is not a directory.
Blocked(t, p) == \E a \in Above(p) : IsLeaf(t[a])

(***************************************************************************)
(* prune_empty_delta_parents from each directory of starts: walk up and    *)
(* remove_dir, until the root, a directory with a touch record or one that *)
(* is not empty.  What is removed is every directory of those walks below  *)
(* which nothing is left but directories the walks remove too.             *)
(***************************************************************************)
Prune(t, touched, starts) ==
    LET cand == {a \in Path : \E s \in starts \cap Path :
                                Exists(t[s]) /\ s \in Under(a)}
        gone(a) == \A q \in Under(a) :
                     Exists(t[q]) => q \in cand \ touched /\ IsDir(t[q])
    IN  [q \in Path |-> IF q \in cand /\ gone(q) THEN Missing ELSE t[q]]

\* A tree in which every entry is in a directory.
IsTree(t) == \A p \in Path : Exists(t[p]) => \A a \in Above(p) : IsDir(t[a])
=============================================================================
