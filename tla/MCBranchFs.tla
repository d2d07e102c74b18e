------------------------------ MODULE MCBranchFs ------------------------------
(* Small instances of BranchFs for TLC.                                     *)
EXTENDS BranchFs

\* No branch name is a prefix of another.
NoPrefix == [b \in Branch |-> {b}]

AllPaths == [br : Branch \union {Here}, file : File \union {Top}]
RootOfMount == [br |-> Here, file |-> Top]
===============================================================================
