------------------------------ MODULE MCDaemon ------------------------------
(* Instances of Daemon for TLC.  Commands are numbered.                    *)
EXTENDS Daemon

\* Commands differ in nothing but their number, so it is enough to look at
\* those behaviours in which they are given in the order of their numbers.
InOrder == \A c, o \in Client : c < o /\ At(c, "idle") => At(o, "idle")
=============================================================================
