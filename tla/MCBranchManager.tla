-------------------------- MODULE MCBranchManager --------------------------
(***************************************************************************)
(* Small instances of BranchManager.                                       *)
(***************************************************************************)
EXTENDS BranchManager, TLC

CONSTANTS main, left, right     \* branch names

\* The two sessions are treated alike.
MCSymmetry == Permutations({left, right})

\* Two files in the root.
f == <<"f">>
g == <<"g">>
FlatPath == {f, g}

\* A directory and a file beside it, or a directory with two files.
d  == <<"d">>
dx == <<"d", "x">>
dy == <<"d", "y">>
DirPath  == {d, dx, f}
TwinPath == {d, dx, dy}

\* What the base holds: one line in a file.
Holds(P, dirs) == [p \in P |-> IF p \in dirs THEN Dir ELSE File(<<0>>)]

FlatBase2 == [p \in FlatPath |-> IF p = f THEN File(<<0>>) ELSE File(<<0, 0>>)]
DirBase   == Holds(DirPath, {d})
TwinBase  == [Holds(TwinPath, {d}) EXCEPT ![dy] = Missing]
Lines == 0..(MaxEpoch + 1)

NoText == {}
JustF  == {f}

NoHide == {{}}
HideD  == {{}, {d}}
=============================================================================
