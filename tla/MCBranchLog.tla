--------------------------- MODULE MCBranchLog ----------------------------
(* Instances of BranchLog for TLC: a directory and a file in it, two       *)
(* threads.                                                                *)
EXTENDS BranchLog, TLC

CONSTANTS folder, leaf, fuse, client

MCPath   == {folder, leaf}
MCBelow  == [p \in MCPath |-> IF p = folder THEN MCPath ELSE {leaf}]
MCThread == {fuse, client}
MCSymmetry == Permutations(MCThread)
=============================================================================
