----------------------------- MODULE BranchLog -----------------------------
(***************************************************************************)
(* The directory of one branch on disk and what a restart makes of it:     *)
(* Branch of src/src/branch.rs.  The tombstones are a snapshot and a log   *)
(* of "+ path" and "- path" lines, the touch records a legacy JSON map and *)
(* a log of JSON and "- path" lines, with the base content of a touched    *)
(* text in a file of its own.                                              *)
(*                                                                         *)
(* Operations run in threads (the loops and workers of the mounts, the     *)
(* daemon's clients).  Each holds the stripe of its path and reads the     *)
(* branch table; a commit into this branch holds the table alone.  A crash *)
(* can come between any two system calls, and a line is written by several *)
(* of them, so the log can end in half a line or in a line without its     *)
(* newline, to which the next line is then appended.                       *)
(***************************************************************************)
EXTENDS Naturals, FiniteSets, Sequences, SequencesExt

CONSTANTS
    Path,       \* paths of the branch
    Below,      \* Below[p]: p and the paths below it
    Thread,     \* what runs operations on the branch
    MaxOps,     \* bound: operations started
    MaxBase,    \* bound: changes of the base below the branch
    MaxFaults   \* bound: crashes and failed writes

ASSUME PathAssumption  == IsFiniteSet(Path) /\ Path # {}
ASSUME BelowAssumption == \A p \in Path : p \in Below[p] /\ Below[p] \subseteq Path
ASSUME BoundAssumption == MaxOps \in Nat /\ MaxBase \in Nat /\ MaxFaults \in Nat

VARIABLES
    tombs,      \* memory: Branch.tombstones
    touches,    \* memory: Branch.touches, the base version of each record
    snap,       \* disk: tombstones
    log,        \* disk: tombstones.log
    tsnap,      \* disk: touches.json
    tlog,       \* disk: touches.log
    open,       \* disk: the logs whose last line has no newline
    content,    \* disk: touch-content/, the base version each file holds
    meta,       \* disk: whether meta.json is there
    boot,       \* how far the start of the daemon has come
    pc,         \* what each thread is doing
    basever,    \* version of the files below the branch
    lost,       \* paths whose tombstone record was fused, mixed, failed or overtaken
    tlost,      \* the same for touch records
    bare,       \* paths whose content file was removed, or replaced, under
                \* their record by a thread that overtook a revert
                \* (these three are not in the code)
    ops, faults \* counters of the bounds

memory == <<tombs, touches>>
tdisk  == <<snap, log>>
rdisk  == <<tsnap, tlog, content>>
disk   == <<tdisk, rdisk, open, meta>>
bounds == <<ops, faults>>
ghosts == <<lost, tlost, bare>>
vars   == <<memory, disk, boot, pc, basever, ghosts, bounds>>

\* A touch record: the version of the base at the first touch, and whether
\* the record has a content file.
Version == 0..MaxBase
NoTouch == [base |-> MaxBase + 1, key |-> FALSE]
Touch   == [base : Version, key : BOOLEAN]
Touches == [Path -> Touch \union {NoTouch}]
NoContent == MaxBase + 1
NoTouches == [p \in Path |-> NoTouch]
Touched(r) == {p \in Path : r[p] # NoTouch}

\* A line of a log.  Half a line, or several in one, is garbage: in
\* touches.log "junk" if it begins with a record, which cannot be parsed, and
\* "void" if it begins with "- ", which removes a path that no record has.
Plus(p)      == [op |-> "+", path |-> p, rec |-> NoTouch]
Minus(p)     == [op |-> "-", path |-> p, rec |-> NoTouch]
Record(p, r) == [op |-> "+", path |-> p, rec |-> r]
Garbled(x)   == [op |-> IF x.op \in {"-", "void"} THEN "void" ELSE "junk",
                 path |-> x.path, rec |-> NoTouch]
LogLine == [op : {"+", "-", "junk", "void"}, path : Path, rec : Touch \union {NoTouch}]

\* A thread: its operation, the path it locks, where it is, and the paths
\* its present loop has still to handle.
Idle == [at |-> "idle", op |-> "none", path |-> CHOOSE p \in Path : TRUE, left |-> {}]
Op == {"none", "write", "delete", "forget", "revert", "commit"}
At == {"idle", "touch", "tomb", "untomb", "append", "untouch", "removal",
       "content", "rewrite"}
Threads == [at : At, op : Op, path : Path, left : SUBSET Path]

----------------------------------------------------------------------------
(* Reading the files                                                       *)

\* The paths a line of tombstones.log ("log") or touches.log ("tlog") is
\* about: in touches.log a removal takes the records below its path too.
About(which, x) ==
    CASE x.op = "+" -> {x.path}
      [] x.op = "-" -> IF which = "tlog" THEN Below[x.path] ELSE {x.path}
      [] OTHER -> {}

\* The files are read line by line, so the last line about a path decides.
LastAbout(which, l, p) ==
    {i \in DOMAIN l : p \in About(which, l[i]) /\ \A j \in DOMAIN l : j > i => p \notin About(which, l[j])}

\* load_tombstones: the snapshot, then the log over it.  Garbage adds or
\* removes a path that no file has.
Replay(s, l) ==
    {p \in Path : IF LastAbout("log", l, p) = {} THEN p \in s
                  ELSE l[CHOOSE i \in LastAbout("log", l, p) : TRUE].op = "+"}

\* load_touches fails on a line that is not JSON.
Loadable(l) == \A i \in DOMAIN l : l[i].op # "junk"

\* Mutated form of ReplayTouches: a removal takes the record of its path only.
ReplayTouchesExact(r, l) ==
    [p \in Path |-> IF LastAbout("log", l, p) = {} THEN r[p]
                    ELSE l[CHOOSE i \in LastAbout("log", l, p) : TRUE].rec]

\* load_touches: the map of the snapshot, then the log over it.
ReplayTouches(r, l) ==
    [p \in Path |-> IF LastAbout("tlog", l, p) = {} THEN r[p]
                    ELSE l[CHOOSE i \in LastAbout("tlog", l, p) : TRUE].rec]

----------------------------------------------------------------------------
(* Appending a line                                                        *)

\* Whether the next line will be fused with the last one.
Fuses(which, l) == which \in open /\ l # <<>>

Appended(which, l, x) ==
    IF Fuses(which, l) THEN [l EXCEPT ![Len(l)] = Garbled(@)] ELSE Append(l, x)

\* The paths whose records are spoilt when none of the lines X gets through,
\* or the first is fused.
Spoilt(which, l, X) ==
    UNION {About(which, x) : x \in X \union (IF Fuses(which, l) THEN {l[Len(l)]} ELSE {})}

\* What a write cut short leaves: nothing, half a line, or a line without
\* its newline.
TornLog(which, l, x) ==
    {[l |-> l, open |-> which \in open],
     [l |-> Appended(which, l, Garbled(x)), open |-> TRUE],
     [l |-> Appended(which, l, x), open |-> TRUE]}

WithOpen(which, b) == IF b THEN open \union {which} ELSE open \ {which}

AppendTomb(line) ==
    /\ log' = Appended("log", log, line)
    /\ open' = open \ {"log"}
    /\ lost' = IF Fuses("log", log) THEN lost \union Spoilt("log", log, {line})
               ELSE (lost \ {line.path}) \union
                       (IF line.op = "-" THEN {line.path} \intersect tombs' ELSE {})

AppendTouch(line) ==
    /\ tlog' = Appended("tlog", tlog, line)
    /\ open' = open \ {"tlog"}
    /\ tlost' = IF Fuses("tlog", tlog) THEN tlost \union Spoilt("tlog", tlog, {line})
                ELSE (tlost \ {line.path}) \union
                        (IF line.op = "-" THEN Touched(touches') \intersect Below[line.path] ELSE {})

----------------------------------------------------------------------------
(* Operations                                                              *)

Busy(t) == pc[t].at # "idle"

Goto(t, at, left) == pc' = [pc EXCEPT ![t].at = at, ![t].left = left]
Finish(t) == pc' = [pc EXCEPT ![t] = Idle]

\* write_data_to_branch, delete_path_in_branch (of an inherited path, or
\* "forget" of one that is not) and revert_path_in_branch: the stripe of the
\* path is taken and the branch table is read.
Start(t, op, p) ==
    /\ boot = "up" /\ ~Busy(t)
    /\ \A u \in Thread : Busy(u) => pc[u].path # p /\ pc[u].op # "commit"
    /\ ops < MaxOps /\ ops' = ops + 1
    /\ op \in {"write", "delete", "forget", "revert"}
    /\ pc' = [pc EXCEPT ![t] = [at |-> IF op = "revert" THEN "untomb" ELSE "touch",
                                op |-> op, path |-> p, left |-> {}]]
    /\ UNCHANGED <<memory, disk, boot, basever, ghosts, faults>>

\* What the thread is about to write to one of the logs.
TombLine(t) ==
    LET p == pc[t].path IN
    CASE pc[t].at = "tomb" /\ pc[t].op = "delete" -> IF p \in tombs THEN {} ELSE {Plus(p)}
      [] pc[t].at = "tomb" /\ pc[t].op # "delete" -> IF p \in tombs THEN {Minus(p)} ELSE {}
      [] pc[t].at = "append" -> {Minus(q) : q \in pc[t].left}
      [] OTHER -> {}

TouchLine(t) ==
    LET p == pc[t].path IN
    CASE pc[t].at = "touch" /\ touches[p] = NoTouch ->
            {Record(p, [base |-> basever, key |-> pc[t].op = "write"])}
      [] pc[t].at = "removal" -> {Minus(p)}
      [] OTHER -> {}

\* An older record of p may be in the log, or come back to it.
Stale(p) ==
    \/ p \in tlost \/ Fuses("tlog", tlog)
    \/ \E u \in Thread : pc[u].at = "removal" /\ p \in pc[u].left

\* bare after a content file was written, before and after its record.
BareBefore(x) == IF x.rec.key /\ Stale(x.path) THEN bare \union {x.path} ELSE bare
BareAfter(x) ==
    IF ~x.rec.key THEN bare
    ELSE IF Fuses("tlog", tlog) THEN bare \union {x.path} ELSE bare \ {x.path}

\* Mutated form of RecordFirstTouch: the content is captured before the
\* records are searched.
RecordContentAlways(t) ==
    /\ pc[t].at = "touch"
    /\ Goto(t, "tomb", {})
    /\ \/ /\ TouchLine(t) = {}
          /\ content' = IF pc[t].op = "write"
                        THEN [content EXCEPT ![pc[t].path] = basever] ELSE content
          /\ UNCHANGED <<touches, tlog, open, tlost, bare>>
       \/ \E line \in TouchLine(t) :
            /\ content' = IF line.rec.key
                          THEN [content EXCEPT ![line.path] = basever] ELSE content
            /\ bare' = BareAfter(line)
            /\ touches' = [touches EXCEPT ![line.path] = line.rec]
            /\ AppendTouch(line)
    /\ UNCHANGED <<tombs, tdisk, tsnap, meta, boot, basever, lost, bounds>>

\* record_first_touch: the base content first, then the record, under the
\* lock of the touch records.
RecordFirstTouch(t) ==
    /\ pc[t].at = "touch"
    /\ Goto(t, "tomb", {})
    /\ \/ /\ TouchLine(t) = {}
          /\ UNCHANGED <<touches, tlog, open, content, tlost, bare>>
       \/ \E line \in TouchLine(t) :
            /\ content' = IF line.rec.key
                          THEN [content EXCEPT ![line.path] = basever] ELSE content
            /\ bare' = BareAfter(line)
            /\ touches' = [touches EXCEPT ![line.path] = line.rec]
            /\ AppendTouch(line)
    /\ UNCHANGED <<tombs, tdisk, tsnap, meta, boot, basever, lost, bounds>>

\* add_tombstone or remove_tombstone, under the lock of the tombstones.
SetTombstone(t) ==
    /\ pc[t].at = "tomb"
    /\ Finish(t)
    /\ \/ /\ TombLine(t) = {}
          /\ UNCHANGED <<tombs, log, open, lost>>
       \/ \E line \in TombLine(t) :
            /\ tombs' = IF line.op = "+" THEN tombs \union {line.path} ELSE tombs \ {line.path}
            /\ AppendTomb(line)
    /\ UNCHANGED <<touches, snap, rdisk, meta, boot, basever, tlost, bare, bounds>>

\* Mutated form of RemoveTombstonesUnder: path_is_same_or_descendant is given
\* its arguments the other way round.
RemoveTombstonesOver(t) ==
    /\ pc[t].at = "untomb"
    /\ LET gone == {q \in tombs : pc[t].path \in Below[q]} IN
          /\ tombs' = tombs \ gone
          /\ Goto(t, "append", gone)
    /\ UNCHANGED <<touches, disk, boot, basever, ghosts, bounds>>

\* remove_tombstones_under: the set in memory first, the lock is released,
\* then one line for every path.
RemoveTombstonesUnder(t) ==
    /\ pc[t].at = "untomb"
    /\ LET gone == tombs \intersect Below[pc[t].path] IN
          /\ tombs' = tombs \ gone
          /\ Goto(t, "append", gone)
    /\ UNCHANGED <<touches, disk, boot, basever, ghosts, bounds>>

AppendRemoved(t) ==
    /\ pc[t].at = "append"
    /\ \/ \E line \in TombLine(t) :
            /\ UNCHANGED tombs
            /\ AppendTomb(line)
            /\ Goto(t, "append", pc[t].left \ {line.path})
       \/ /\ pc[t].left = {}
          /\ Goto(t, "untouch", {})
          /\ UNCHANGED <<tombs, log, open, lost>>
    /\ UNCHANGED <<touches, snap, rdisk, meta, boot, basever, tlost, bare, bounds>>

\* remove_touch_records_under: the same, with one line for all; the content
\* files go last.
RemoveTouchesUnder(t) ==
    /\ pc[t].at = "untouch"
    /\ LET gone == Touched(touches) \intersect Below[pc[t].path] IN
          /\ touches' = [p \in Path |-> IF p \in gone THEN NoTouch ELSE touches[p]]
          /\ IF gone = {} THEN Finish(t)
             ELSE Goto(t, "removal", {p \in gone : touches[p].key})
    /\ UNCHANGED <<tombs, disk, boot, basever, ghosts, bounds>>

AppendTouchRemoval(t) ==
    /\ pc[t].at = "removal"
    /\ \E line \in TouchLine(t) : UNCHANGED touches /\ AppendTouch(line)
    /\ Goto(t, "content", pc[t].left)
    /\ UNCHANGED <<tombs, tdisk, tsnap, content, meta, boot, basever, lost, bare, bounds>>

RemoveContent(t) ==
    /\ pc[t].at = "content"
    /\ \/ \E p \in pc[t].left :
            /\ content' = [content EXCEPT ![p] = NoContent]
            /\ bare' = bare \union {p}
            /\ Goto(t, "content", pc[t].left \ {p})
       \/ /\ pc[t].left = {}
          /\ Finish(t)
          /\ UNCHANGED <<content, bare>>
    /\ UNCHANGED <<memory, tdisk, tsnap, tlog, open, meta, boot, basever, lost, tlost, bounds>>

\* A revert writes its lines without the lock, and a line takes several
\* system calls, so the fragments of two lines can mix.  The first line that
\* comes of it is garbage.  In tombstones.log what is left over may be a bare
\* path, which is read as a tombstone; in touches.log it cannot be parsed.
MixTombs(t, u) ==
    \E x \in TombLine(t), y \in TombLine(u) :
        LET l == Appended("log", log, Garbled(x)) IN
        /\ log' \in {l, Append(l, Plus(x.path)), Append(l, Plus(y.path))}
        /\ open' = open \ {"log"}
        /\ lost' = lost \union Spoilt("log", log, {x, y})
        /\ tombs' = CASE pc[u].at = "append" -> tombs
                     [] y.op = "+" -> tombs \union {y.path}
                     [] OTHER -> tombs \ {y.path}
        /\ pc' = [pc EXCEPT ![t].left = @ \ {x.path},
                            ![u] = IF pc[u].at = "append"
                                   THEN [pc[u] EXCEPT !.left = @ \ {y.path}] ELSE Idle]
        /\ UNCHANGED <<touches, snap, rdisk, meta, tlost, bare>>

MixTouches(t, u) ==
    \E x \in TouchLine(t), y \in TouchLine(u) :
        LET l == Appended("tlog", tlog, Garbled(x)) IN
        /\ tlog' \in {l, Append(l, Garbled(Plus(y.path)))}
        /\ open' = open \ {"tlog"}
        /\ tlost' = tlost \union Spoilt("tlog", tlog, {x, y})
        /\ touches' = IF pc[u].at = "removal" THEN touches ELSE [touches EXCEPT ![y.path] = y.rec]
        /\ content' = IF y.rec.key THEN [content EXCEPT ![y.path] = basever] ELSE content
        /\ bare' = BareBefore(y)
        /\ pc' = [pc EXCEPT ![t].at = "content",
                            ![u].at = IF @ = "removal" THEN "content" ELSE "tomb"]
        /\ UNCHANGED <<tombs, tdisk, tsnap, meta, lost>>

LinesMix(t, u) ==
    /\ t # u
    /\ \/ pc[t].at = "append" /\ MixTombs(t, u)
       \/ pc[t].at = "removal" /\ MixTouches(t, u)
    /\ UNCHANGED <<boot, basever, bounds>>

\* set_tombstones, when a child commits into this branch: the table is
\* locked, the set replaced, and the snapshot truncated.
SetTombstones(t, new) ==
    /\ boot = "up" /\ \A u \in Thread : ~Busy(u)
    /\ ops < MaxOps /\ ops' = ops + 1
    /\ tombs' = new
    /\ snap' = {}
    /\ pc' = [pc EXCEPT ![t] = [Idle EXCEPT !.at = "rewrite", !.op = "commit", !.left = new]]
    /\ UNCHANGED <<touches, log, rdisk, open, meta, boot, basever, ghosts, faults>>

\* Mutated form of RewriteTombstones: the log is kept.
RewriteKeepingLog(t) ==
    /\ pc[t].at = "rewrite"
    /\ \/ \E p \in pc[t].left :
            /\ snap' = snap \union {p}
            /\ Goto(t, "rewrite", pc[t].left \ {p})
       \/ /\ pc[t].left = {}
          /\ Finish(t)
          /\ UNCHANGED snap
    /\ UNCHANGED <<memory, log, rdisk, open, meta, boot, basever, ghosts, bounds>>

\* rewrite_tombstones: the snapshot line by line, then the log is removed.
RewriteTombstones(t) ==
    /\ pc[t].at = "rewrite"
    /\ \/ \E p \in pc[t].left :
            /\ snap' = snap \union {p}
            /\ Goto(t, "rewrite", pc[t].left \ {p})
            /\ UNCHANGED <<log, open, lost>>
       \/ /\ pc[t].left = {}
          /\ log' = <<>>
          /\ open' = open \ {"log"}
          /\ lost' = {}
          /\ Finish(t)
          /\ UNCHANGED snap
    /\ UNCHANGED <<memory, rdisk, meta, boot, basever, tlost, bare, bounds>>

\* A commit to the base or to an ancestor changes what lies below the branch.
BaseChanges ==
    /\ boot = "up" /\ \A t \in Thread : ~Busy(t)
    /\ basever < MaxBase
    /\ basever' = basever + 1
    /\ UNCHANGED <<memory, disk, boot, pc, ghosts, bounds>>

\* The branch is aborted, or committed itself: its directory is removed.
RemoveBranch ==
    /\ boot = "up" /\ \A t \in Thread : ~Busy(t)
    /\ ops < MaxOps /\ ops' = ops + 1
    /\ boot' = "absent"
    /\ tombs' = {} /\ touches' = NoTouches
    /\ snap' = {} /\ log' = <<>> /\ tsnap' = NoTouches /\ tlog' = <<>>
    /\ open' = {} /\ content' = [p \in Path |-> NoContent] /\ meta' = FALSE
    /\ lost' = {} /\ tlost' = {} /\ bare' = {}
    /\ UNCHANGED <<pc, basever, faults>>

----------------------------------------------------------------------------
(* Failed writes and crashes                                               *)

Fault == faults < MaxFaults /\ faults' = faults + 1

\* A line is cut short; the logs and the content file as that leaves them.
CutShort(t) ==
    \/ \E line \in TombLine(t) : \E torn \in TornLog("log", log, line) :
          /\ log' = torn.l /\ open' = WithOpen("log", torn.open)
          /\ UNCHANGED <<snap, rdisk, meta, bare>>
    \/ \E line \in TouchLine(t) : \E torn \in TornLog("tlog", tlog, line) :
          /\ tlog' = torn.l /\ open' = WithOpen("tlog", torn.open)
          /\ content' = IF line.rec.key
                        THEN [content EXCEPT ![line.path] = basever] ELSE content
          /\ bare' = BareBefore(line)
          /\ UNCHANGED <<tdisk, tsnap, meta>>

\* The write fails: the operation reports the error and ends, with the set in
\* memory changed already.
WriteFails(t) ==
    /\ boot = "up" /\ Fault
    /\ CutShort(t)
    /\ LET p == pc[t].path IN
          /\ tombs' = IF pc[t].at # "tomb" THEN tombs
                      ELSE IF pc[t].op = "delete" THEN tombs \union {p} ELSE tombs \ {p}
          /\ touches' = IF pc[t].at # "touch" THEN touches
                        ELSE [touches EXCEPT ![p] = [base |-> basever, key |-> pc[t].op = "write"]]
          /\ lost' = IF TombLine(t) = {} THEN lost ELSE lost \union Spoilt("log", log, TombLine(t))
          /\ tlost' = IF TouchLine(t) = {} THEN tlost ELSE tlost \union Spoilt("tlog", tlog, TouchLine(t))
    /\ Finish(t)
    /\ UNCHANGED <<boot, basever, ops>>

\* What a rewrite of the snapshot that fails leaves behind: the set in memory
\* is replaced, the old log is read over what there is of the snapshot, and
\* nothing sets that right but a later rewrite.
Unwritten(new) == {p \in Path : (p \in Replay(snap, log)) # (p \in new)}

\* rewrite_tombstones reports an error: a line of the snapshot cannot be
\* written, or the log cannot be removed.
RewriteFails(t) ==
    /\ boot = "up" /\ Fault
    /\ pc[t].at = "rewrite"
    /\ lost' = lost \union Unwritten(tombs)
    /\ Finish(t)
    /\ UNCHANGED <<memory, disk, boot, basever, tlost, bare, ops>>

\* The same when set_tombstones cannot open the snapshot: the old one is left.
SetTombstonesFails(new) ==
    /\ boot = "up" /\ \A u \in Thread : ~Busy(u)
    /\ ops < MaxOps /\ ops' = ops + 1
    /\ Fault
    /\ tombs' = new
    /\ lost' = lost \union Unwritten(new)
    /\ UNCHANGED <<touches, disk, boot, pc, basever, tlost, bare>>

\* A file is half removed with the directory: what is left of it.
RemovedOrNot ==
    /\ snap' \in {snap, {}} /\ tsnap' \in {tsnap, NoTouches}
    /\ \/ UNCHANGED <<content, bare>>
       \/ content' = [p \in Path |-> NoContent] /\ bare' = Path
    /\ \E l \in SUBSET {"log", "tlog"} :
          /\ log' = IF "log" \in l THEN log ELSE <<>>
          /\ tlog' = IF "tlog" \in l THEN tlog ELSE <<>>
          /\ open' = open \intersect l
    /\ meta' \in BOOLEAN

\* The daemon dies: between two system calls, in the middle of a line, or
\* while the directory is removed.
Crash ==
    /\ boot \notin {"down", "absent"} /\ Fault
    /\ \/ UNCHANGED <<disk, bare>>
       \/ \E t \in Thread : CutShort(t)
       \/ meta /\ boot = "up" /\ (\A t \in Thread : ~Busy(t)) /\ RemovedOrNot
    /\ boot' = "down"
    /\ pc' = [t \in Thread |-> Idle]
    /\ tombs' = {} /\ touches' = NoTouches
    /\ lost' = {} /\ tlost' = {}
    /\ UNCHANGED <<basever, ops>>

----------------------------------------------------------------------------
(* Starting again                                                          *)

\* Mutated form of MigratedTombstones: the snapshot goes behind the log.
MigratedBehind == log \o SetToSeq({Plus(p) : p \in snap})

\* migrate_legacy_tombstones: the snapshot as lines before those of the log.
MigratedTombstones == SetToSeq({Plus(p) : p \in snap}) \o log

MigratedTouches == SetToSeq({Record(p, tsnap[p]) : p \in Touched(tsnap)}) \o tlog

\* Branch::load: the touch records are migrated, then the tombstones, each by
\* replacing the log and then emptying the snapshot; then all is read.
\* Directories without meta.json are passed over.
Load ==
    \/ /\ boot = "down"
       /\ boot' = IF meta THEN "touches" ELSE "absent"
       /\ UNCHANGED <<memory, disk>>
    \/ /\ boot = "touches"
       /\ IF Touched(tsnap) = {} THEN boot' = "tombs" /\ UNCHANGED tlog
          ELSE boot' = "tsnap" /\ tlog' = MigratedTouches
       /\ UNCHANGED <<memory, tdisk, tsnap, content, open, meta>>
    \/ /\ boot = "tsnap"
       /\ boot' = "tombs" /\ tsnap' = NoTouches
       /\ UNCHANGED <<memory, tdisk, tlog, content, open, meta>>
    \/ /\ boot = "tombs"
       /\ IF snap = {} THEN boot' = "load" /\ UNCHANGED log
          ELSE boot' = "snap" /\ log' = MigratedTombstones
       /\ UNCHANGED <<memory, snap, rdisk, open, meta>>
    \/ /\ boot = "snap"
       /\ boot' = "load" /\ snap' = {}
       /\ UNCHANGED <<memory, log, rdisk, open, meta>>
    \/ /\ boot = "load"
       /\ IF Loadable(tlog)
          THEN /\ boot' = "up"
               /\ tombs' = Replay(snap, log)
               /\ touches' = ReplayTouches(tsnap, tlog)
          ELSE /\ boot' = "skipped"
               /\ UNCHANGED memory
       /\ UNCHANGED disk

Boot ==
    /\ Load
    /\ UNCHANGED <<pc, basever, ghosts, bounds>>

\* Branch::new takes over what a directory of that name still holds.
CreateBranch ==
    /\ boot = "absent"
    /\ ops < MaxOps /\ ops' = ops + 1
    /\ Loadable(tlog)
    /\ boot' = "up"
    /\ tombs' = Replay(snap, log)
    /\ touches' = ReplayTouches(tsnap, tlog)
    /\ meta' = TRUE
    /\ UNCHANGED <<tdisk, rdisk, open, pc, basever, ghosts, faults>>

----------------------------------------------------------------------------
\* A store of an earlier release: snapshots and no logs.
Init ==
    /\ snap \in SUBSET Path
    /\ tsnap \in {[p \in Path |-> IF p \in S THEN [base |-> 0, key |-> FALSE] ELSE NoTouch] :
                    S \in SUBSET Path}
    /\ log = <<>> /\ tlog = <<>> /\ open = {}
    /\ content = [p \in Path |-> NoContent]
    /\ meta = TRUE
    /\ boot = "down"
    /\ tombs = {} /\ touches = NoTouches
    /\ pc = [t \in Thread |-> Idle]
    /\ basever = 0
    /\ lost = {} /\ tlost = {} /\ bare = {}
    /\ ops = 0 /\ faults = 0

ThreadStep(t) ==
    \/ RecordFirstTouch(t) \/ SetTombstone(t)
    \/ RemoveTombstonesUnder(t) \/ AppendRemoved(t)
    \/ RemoveTouchesUnder(t) \/ AppendTouchRemoval(t) \/ RemoveContent(t)
    \/ RewriteTombstones(t)

Next ==
    \/ \E t \in Thread :
          \/ ThreadStep(t) \/ WriteFails(t) \/ RewriteFails(t)
          \/ \E u \in Thread : LinesMix(t, u)
          \/ \E p \in Path, op \in Op : Start(t, op, p)
          \/ \E new \in SUBSET Path : SetTombstones(t, new)
    \/ \E new \in SUBSET Path : SetTombstonesFails(new)
    \/ BaseChanges \/ RemoveBranch \/ CreateBranch \/ Crash \/ Boot

Spec == Init /\ [][Next]_vars

----------------------------------------------------------------------------
(* Properties                                                              *)

Types ==
    /\ tombs \subseteq Path /\ snap \subseteq Path
    /\ touches \in Touches /\ tsnap \in Touches
    /\ log \in Seq(LogLine) /\ tlog \in Seq(LogLine)
    /\ open \subseteq {"log", "tlog"}
    /\ content \in [Path -> Version \union {NoContent}]
    /\ meta \in BOOLEAN
    /\ boot \in {"down", "touches", "tsnap", "tombs", "snap", "load", "up", "skipped", "absent"}
    /\ pc \in [Thread -> Threads]
    /\ basever \in Version
    /\ lost \subseteq Path /\ tlost \subseteq Path /\ bare \subseteq Path
    /\ ops \in 0..MaxOps /\ faults \in 0..MaxFaults

\* Branch keeps its types, and the loops of a revert handle no path but those
\* under the one whose stripe the thread holds.
TypeOK ==
    /\ Types
    /\ \A t \in Thread :
          pc[t].at \in {"append", "removal", "content"} => pc[t].left \subseteq Below[pc[t].path]

\* Were the daemon to die now, the next start would find the tombstones that
\* are in memory, but for the paths of a revert whose lines are still being
\* written, and while a commit rewrites the snapshot.  The only other
\* exceptions are lines that failed, were fused with a line without newline,
\* or were mixed with or overtaken by another thread's line after a revert
\* released its lock, and, until the next line about a path, what a rewrite
\* of the snapshot that failed left different on disk.
TombstonesDurable ==
    boot = "up" =>
        \A p \in Path :
            \/ (p \in Replay(snap, log)) <=> (p \in tombs)
            \/ p \in lost
            \/ \E t \in Thread : pc[t].at = "rewrite" \/ p \in pc[t].left

\* The same for touch records, if their log can be read at all: what a commit
\* compares with does not change with a restart, nor does the first touch
\* give way to a later one.
TouchesDurable ==
    boot = "up" /\ Loadable(tlog) =>
        \A p \in Path :
            \/ ReplayTouches(tsnap, tlog)[p] = touches[p]
            \/ p \in tlost
            \/ \E t \in Thread : pc[t].at = "removal" /\ p \in Below[pc[t].path]

\* A touch record with a merge base finds the base as it was at the first
\* touch in its content file, whatever was touched, reverted and touched
\* again before and wherever a crash came, unless a write overtook a revert.
MergeBaseKept ==
    boot = "up" => \A p \in Path : touches[p].key /\ p \notin bare => content[p] = touches[p].base

\* Migrating a legacy snapshot changes nothing of what is read, wherever a
\* crash interrupts it and however often it is begun again.
MigrationChangesNothing ==
    [][boot \notin {"up", "skipped", "absent"} /\ boot' \notin {"absent"} =>
          /\ Replay(snap, log)' = Replay(snap, log)
          /\ Loadable(tlog) => ReplayTouches(tsnap, tlog)' = ReplayTouches(tsnap, tlog)]_vars
=============================================================================
