---------------------------- MODULE InodeManager ----------------------------
(***************************************************************************)
(* The inode table of a mount: src/src/inode.rs.  A path is given a number *)
(* when it is first looked up; the kernel, and the descriptor caches of    *)
(* the mount, then know the file by its number only.  Programs may hold    *)
(* numbers that the table has forgotten.                                   *)
(***************************************************************************)
EXTENDS Naturals

CONSTANTS
    InoPath,    \* inode paths: of the mounted branch and below @branch
    RootPath    \* "/"

ASSUME RootAssumption == RootPath \in InoPath

VARIABLES
    nextIno,    \* next_ino
    pathIno,    \* path_to_ino
    inoPath     \* ino_to_info

inodes == <<nextIno, pathIno, inoPath>>

RootIno == 1

InodeInit ==
    /\ nextIno = RootIno + 1
    /\ pathIno = [p \in {RootPath} |-> RootIno]
    /\ inoPath = [i \in {RootIno} |-> RootPath]

\* The number of p after get_or_create(p).
InoOf(p) == IF p \in DOMAIN pathIno THEN pathIno[p] ELSE nextIno

GetOrCreate(p) ==
    IF p \in DOMAIN pathIno
    THEN UNCHANGED inodes
    ELSE /\ nextIno' = nextIno + 1
         /\ pathIno' = [q \in DOMAIN pathIno \union {p} |->
                            IF q = p THEN nextIno ELSE pathIno[q]]
         /\ inoPath' = [i \in DOMAIN inoPath \union {nextIno} |->
                            IF i = nextIno THEN p ELSE inoPath[i]]

\* Mutated form of Forget: the numbers stay known.
ForgetPaths(S) ==
    /\ pathIno' = [q \in DOMAIN pathIno \ S |-> pathIno[q]]
    /\ UNCHANGED <<nextIno, inoPath>>

\* remove and clear_prefix, of the paths S.
Forget(S) ==
    /\ pathIno' = [q \in DOMAIN pathIno \ S |-> pathIno[q]]
    /\ inoPath' = [i \in DOMAIN inoPath \ {pathIno[q] : q \in S \intersect DOMAIN pathIno} |->
                        inoPath[i]]
    /\ UNCHANGED nextIno

\* Mutated form of Clear: numbering starts again.
ClearAndRestart ==
    /\ pathIno' = [q \in {RootPath} |-> RootIno]
    /\ inoPath' = [i \in {RootIno} |-> RootPath]
    /\ nextIno' = RootIno + 1

\* clear: all but the root, when the mount is switched.
Clear ==
    /\ pathIno' = [q \in {RootPath} |-> RootIno]
    /\ inoPath' = [i \in {RootIno} |-> RootPath]
    /\ UNCHANGED nextIno

\* The table on its own, under any calls.
InodeNext ==
    \/ \E p \in InoPath : GetOrCreate(p)
    \/ \E S \in SUBSET (InoPath \ {RootPath}) : Forget(S)
    \/ Clear

InodeSpec == InodeInit /\ [][InodeNext]_inodes

\* The two maps are inverse, the root is there, and every number was given
\* out: what get_path and get_ino tell is one and the same file.
InodesInverse ==
    /\ nextIno \in Nat
    /\ DOMAIN pathIno \subseteq InoPath
    /\ RootPath \in DOMAIN pathIno /\ pathIno[RootPath] = RootIno
    /\ \A p \in DOMAIN pathIno : pathIno[p] \in DOMAIN inoPath /\ inoPath[pathIno[p]] = p
    /\ \A i \in DOMAIN inoPath :
          /\ i \in Nat /\ 0 < i /\ i < nextIno
          /\ inoPath[i] \in DOMAIN pathIno /\ pathIno[inoPath[i]] = i

\* A number never comes to mean another file: not while the table knows it,
\* and not after the table forgot it, even across a switch of the mount.
\* The descriptor caches rely on it.
NumbersNeverReused ==
    [][/\ nextIno' >= nextIno
       /\ \A i \in DOMAIN inoPath' :
             IF i \in DOMAIN inoPath THEN inoPath'[i] = inoPath[i] ELSE i >= nextIno]_inodes
=============================================================================
