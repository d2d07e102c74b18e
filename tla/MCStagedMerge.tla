-------------------------- MODULE MCStagedMerge ---------------------------
(* Instances of StagedMerge for TLC: two sibling paths.                    *)
EXTENDS StagedMerge, TLC

CONSTANTS left, right

MCPath == {left, right}
MCSymmetry == Permutations(MCPath)
=============================================================================
