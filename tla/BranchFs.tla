------------------------------ MODULE BranchFs ------------------------------
(***************************************************************************)
(* One mount of src/src/fs.rs: the request loop, which answers one request *)
(* at a time, its two descriptor caches, the worker that runs first writes *)
(* and deletions, and the control file, together with the manager's        *)
(* clients and other mounts, which act at any time between.                *)
(*                                                                         *)
(* A descriptor stands for a file object: data[o] is the last write that   *)
(* object o holds.  A commit copies objects, a copy-up makes a new one, and *)
(* an object that is unlinked lives on in the cached descriptors.  Every    *)
(* operation takes several steps, for its checks and for what it does, so  *)
(* that a branch may change between them: an operation that has passed     *)
(* is_writable holds the table's lock shared, as freeze and thaw do, and so *)
(* keeps off create, commit and abort only.  All branches fork from main;  *)
(* what a commit does to nested branches is in BranchManager.              *)
(***************************************************************************)
EXTENDS InodeManager, Integers, Sequences, FiniteSets

CONSTANTS
    Branch,     \* branch names
    Main,       \* "main"
    File,       \* files, all there in the base at the start
    Here,       \* the prefix of paths of the mounted branch
    Top,        \* the directory itself
    Hits,       \* Hits[b]: the branches whose @-paths start with /@b
    Allowed,    \* the risks that the properties take on
    MaxReq,     \* bound: requests that change a file or read it
    MaxIno,     \* bound: inode numbers
    MaxEpoch    \* bound: epoch

ASSUME BranchAssumption == Main \in Branch /\ Here \notin Branch /\ Top \notin File
ASSUME FileAssumption  == IsFiniteSet(File)
ASSUME PathAssumption ==
    /\ InoPath = [br : Branch \union {Here}, file : File \union {Top}]
    /\ RootPath = [br |-> Here, file |-> Top]
ASSUME HitsAssumption  == \A b \in Branch : b \in Hits[b] /\ Hits[b] \subseteq Branch
ASSUME BoundAssumption == {MaxReq, MaxIno, MaxEpoch} \subseteq Nat

VARIABLES
    alive,      \* manager: the branch table
    frozen,     \* manager: the branches that are frozen
    base,       \* manager: the base directory, an object for every file
    delta,      \* manager: files/ and tombstones of every branch
    epoch,      \* manager: epoch
    setting,    \* manager: whose state is set, with the epoch still to advance
    data,       \* the file objects
    mounted,    \* the mount's branch in mount_branches
    curEpoch,   \* current_epoch
    rcache,     \* open_cache
    wcache,     \* write_cache
    queue,      \* the jobs of the worker
    worker,     \* what became of the first job: "idle" before its check, then
                \* "checked", or "late" if its branch was frozen since
    pending,    \* the request under way
    other,      \* the operation under way of another mount
    reply,      \* the answer the last step gave (not in the code)
    req,        \* requests so far
    risk        \* what this behaviour has met that the caches are not made
                \* for (not in the code)

manager == <<alive, frozen, base, delta, epoch, data, setting>>
mount   == <<mounted, curEpoch, rcache, wcache>>
jobs    == <<queue, worker, other>>
vars    == <<inodes, manager, mount, jobs, pending, reply, req, risk>>

Gone == 0            \* no such file
Inherit == -1        \* the branch has neither a delta nor a tombstone
Empty == 0           \* the content of an empty file
Original == 1        \* the content of the base at the start
NoCache == [ino |-> 0, epoch |-> 0, obj |-> Gone]
NoReq == [op |-> "none", ino |-> 0, path |-> RootPath, epoch |-> 0, seen |-> {}, raced |-> {}]
Cache == [ino : Nat, epoch : Nat, obj : Nat]
Job == [op : {"write", "delete"}, branch : Branch, path : InoPath, id : Nat]
Other == [op : {"write", "delete"}, branch : Branch, file : File, id : Nat, late : BOOLEAN]
NoReply == [ok |-> FALSE, id |-> 0, data |-> Empty]
Reply == [ok : BOOLEAN, id : Nat, data : Nat]

----------------------------------------------------------------------------
(* The branch manager                                                      *)

\* inherited_resolve_path_locked: main, the base.
Inherited(b, f) == IF b # Main /\ delta[Main][f] # Inherit THEN delta[Main][f] ELSE base[f]

\* resolve_path_locked
Resolve(b, f) == IF delta[b][f] # Inherit THEN delta[b][f] ELSE Inherited(b, f)

HasDelta(b, f) == delta[b][f] > Gone
Writable(b)    == b \in alive \ frozen

\* What a read of f in b must show: no content if there is no such file.
Content(b, f) == {data[o] : o \in {Resolve(b, f)} \ {Gone}}

\* ensure_delta_path_for_write followed by a write of n: to the object the
\* branch has, or to a new one that replaces what it inherits.
PutInDelta(b, f, n) ==
    IF HasDelta(b, f)
    THEN /\ data' = [data EXCEPT ![delta[b][f]] = n]
         /\ UNCHANGED delta
    ELSE /\ data' = Append(data, n)
         /\ delta' = [delta EXCEPT ![b][f] = Len(data) + 1]

\* delete_path_in_branch: a tombstone where there is something to hide.
DropFromDelta(b, f) ==
    /\ delta' = [delta EXCEPT ![b][f] = IF Inherited(b, f) = Gone THEN Inherit ELSE Gone]
    /\ UNCHANGED data

NoDelta == [f \in File |-> Inherit]

\* Nobody holds the lock of the branch table: what freeze, thaw and an
\* operation between its check and its effect hold shared, create, commit and
\* abort need for themselves.
TableFree ==
    /\ setting = {} /\ worker = "idle" /\ other = {}
    /\ pending.op \notin {"create", "truncate"}

\* create_branch, from main.
Create(b) ==
    /\ b \notin alive /\ TableFree
    /\ alive' = alive \union {b}
    /\ epoch' = epoch + 1
    /\ UNCHANGED <<frozen, base, delta, data, setting>>

\* commit: every file of the delta is copied to a new object of the base,
\* and main's own delta of that path goes.  (Where main changed the file
\* meanwhile the copy holds the merge, or the commit is refused: that is in
\* BranchManager.)
Commit(b) ==
    LET copied == {f \in File : HasDelta(b, f)}
        Nth(f) == Cardinality({g \in copied : delta[b][g] <= delta[b][f]})
        From(i) == CHOOSE f \in copied : Nth(f) = i
    IN  /\ b \in alive \ {Main} /\ TableFree
        /\ data' = data \o [i \in 1..Cardinality(copied) |-> data[delta[b][From(i)]]]
        /\ base' = [f \in File |-> IF f \in copied THEN Len(data) + Nth(f)
                                   ELSE IF delta[b][f] = Gone THEN Gone ELSE base[f]]
        /\ delta' = [delta EXCEPT
                        ![b] = NoDelta,
                        ![Main] = [f \in File |-> IF delta[b][f] # Inherit /\ @[f] > Gone
                                                  THEN Inherit ELSE @[f]]]
        /\ alive' = alive \ {b}
        /\ frozen' = frozen \ {b}
        /\ epoch' = epoch + 1
        /\ UNCHANGED setting

\* abort: the epoch stays.
Abort(b) ==
    /\ b \in alive \ {Main} /\ TableFree
    /\ alive' = alive \ {b}
    /\ frozen' = frozen \ {b}
    /\ delta' = [delta EXCEPT ![b] = NoDelta]
    /\ UNCHANGED <<base, epoch, data, setting>>

\* revert_path_in_branch
Revert(b, f) ==
    /\ Writable(b)
    /\ delta' = [delta EXCEPT ![b][f] = Inherit]
    /\ epoch' = epoch + 1
    /\ UNCHANGED <<alive, frozen, base, data, setting>>

\* Mutated form of Freeze: the mounts are not told.
FreezeSilently(b) ==
    /\ b \in alive \ {Main}
    /\ frozen' = frozen \union {b}
    /\ UNCHANGED <<alive, base, delta, epoch, data, setting>>

\* freeze_branch and thaw_branch: the state is set ...
Freeze(b) ==
    /\ b \in alive \ {Main}
    /\ frozen' = frozen \union {b}
    /\ setting' = {b}
    /\ UNCHANGED <<alive, base, delta, epoch, data>>

Thaw(b) ==
    /\ b \in alive \ {Main}
    /\ frozen' = frozen \ {b}
    /\ setting' = {b}
    /\ UNCHANGED <<alive, base, delta, epoch, data>>

\* ... then the epoch advances.
StateSet(b) ==
    /\ b \in setting
    /\ setting' = {}
    /\ epoch' = epoch + 1
    /\ UNCHANGED <<alive, frozen, base, delta, data>>

----------------------------------------------------------------------------
(* The mount                                                               *)

BranchOf(p) == IF p.br = Here THEN mounted ELSE p.br

\* What a program must see of number i now.  A branch that is gone has no
\* delta, and shows what its parent holds.
Visible(i) ==
    IF i \in DOMAIN inoPath THEN Content(BranchOf(inoPath[i]), inoPath[i].file) ELSE {}

InvalidateRead(i)  == rcache' = IF rcache.ino = i THEN NoCache ELSE rcache
InvalidateWrite(i) == wcache' = IF wcache.ino = i THEN NoCache ELSE wcache

Answer(ok, id, d) == reply' = [ok |-> ok, id |-> id, data |-> d]
Silent == reply' = NoReply
Risks(S) == risk' = risk \union S

\* A step of anyone else may change what the request under way must see, and
\* clients may change the branches B themselves.
Meanwhile(B) ==
    pending' = IF pending = NoReq THEN pending
               ELSE [pending EXCEPT !.seen = @ \union UNION {Visible(i)' : i \in {pending.ino}},
                                    !.raced = @ \union B]

\* A job for the same file is in the queue.
Overlap(p) == {"overlap" : k \in {j \in DOMAIN queue : queue[j].path.file = p.file}}

\* Another path of the same file has a number, hence maybe a descriptor.
Alias(p) == {"alias" : q \in {q \in DOMAIN pathIno \ {p} : q.file = p.file}}

\* lookup: a number for a file of the mounted branch, for a directory
\* /@branch, or for a file in one.
Lookup(p) ==
    /\ pending = NoReq /\ p # RootPath /\ p \notin DOMAIN pathIno /\ nextIno <= MaxIno
    /\ BranchOf(p) \in alive
    /\ p.br # Here /\ p.file # Top => [p EXCEPT !.file = Top] \in DOMAIN pathIno
    /\ p.file # Top => Resolve(BranchOf(p), p.file) # Gone
    /\ GetOrCreate(p)
    /\ curEpoch' = IF p.br = Here THEN epoch ELSE curEpoch
    /\ Silent /\ UNCHANGED <<manager, mounted, rcache, wcache, jobs, pending, req, risk>>

\* Mutated form of RefreshEpoch: the check of the branch is all.
KeepEpoch == UNCHANGED curEpoch

\* Mutated form of RefreshEpoch: one ahead.
RefreshEpochAhead == curEpoch' = epoch + 1

\* is_stale stores the manager's epoch ...
RefreshEpoch == curEpoch' = epoch

\* ... and read and write begin with it.  A write drops the read descriptor
\* before anything else.  Numbers the table has forgotten may come too.
Begin(op, i) ==
    /\ pending = NoReq /\ req < MaxReq
    /\ i \in RootIno + 1 .. nextIno - 1
    /\ i \in DOMAIN inoPath => inoPath[i].file # Top
    /\ req' = req + 1
    /\ RefreshEpoch
    /\ IF op = "write" THEN InvalidateRead(i) ELSE UNCHANGED rcache
    /\ IF mounted \in alive
       THEN /\ pending' = [op |-> op, ino |-> i, path |-> RootPath, epoch |-> curEpoch',
                           seen |-> Visible(i), raced |-> setting]
            /\ Silent
       ELSE /\ Answer(FALSE, req', Empty)           \* ESTALE
            /\ UNCHANGED pending
    /\ IF i \in DOMAIN inoPath THEN Risks(Overlap(inoPath[i])) ELSE Risks({"handle"})
    /\ UNCHANGED <<inodes, manager, mounted, wcache, jobs>>

\* get of the two caches
Cached(c, i, e) == c.ino = i /\ c.epoch = e /\ c.obj # Gone

Serve(op) ==
    /\ pending.op = op
    /\ pending' = NoReq
    /\ UNCHANGED <<mounted, req, worker, other>>

Refuse == /\ Answer(FALSE, req, Empty)
          /\ UNCHANGED <<inodes, manager, rcache, wcache, queue, risk>>

ReadCached ==
    /\ Serve("read") /\ Cached(rcache, pending.ino, pending.epoch)
    /\ Answer(TRUE, req, data[rcache.obj])
    /\ UNCHANGED <<inodes, manager, curEpoch, rcache, wcache, queue, risk>>

\* The slow path of read: resolve, open, keep the descriptor.
ReadOpen ==
    LET i == pending.ino
        b == BranchOf(inoPath[i])
        o == Resolve(b, inoPath[i].file)
    IN  /\ Serve("read") /\ ~Cached(rcache, i, pending.epoch)
        /\ IF i \in DOMAIN inoPath /\ inoPath[i].br = Here THEN RefreshEpoch ELSE UNCHANGED curEpoch
        /\ IF i \notin DOMAIN inoPath \/ b \notin alive \/ o = Gone THEN Refuse
           ELSE /\ rcache' = [ino |-> i, epoch |-> pending.epoch, obj |-> o]
                /\ Answer(TRUE, req, data[o])
                /\ UNCHANGED <<inodes, manager, wcache, queue, risk>>

\* Mutated form of WriteCached: it looks at the branch, not at the epoch.
WriteCachedWhileOpen ==
    /\ Serve("write") /\ wcache.ino = pending.ino /\ wcache.obj # Gone /\ Writable(mounted)
    /\ data' = [data EXCEPT ![wcache.obj] = req + Original]
    /\ Answer(TRUE, req, req + Original)
    /\ UNCHANGED <<inodes, alive, frozen, base, delta, epoch, setting, curEpoch, rcache, wcache,
                   queue, risk>>

\* The fast path of write.  The data written is the number of the request.
WriteCached ==
    /\ Serve("write") /\ Cached(wcache, pending.ino, pending.epoch)
    /\ data' = [data EXCEPT ![wcache.obj] = req + Original]
    /\ Answer(TRUE, req, req + Original)
    /\ UNCHANGED <<inodes, alive, frozen, base, delta, epoch, setting, curEpoch, rcache, wcache,
                   queue, risk>>

\* The slow path of write: the first write of a file is a job for the
\* worker; later ones open the delta and keep the descriptor ...
WriteOpen ==
    LET i == pending.ino
        p == inoPath[i]
        b == BranchOf(p)
    IN  /\ pending.op = "write" /\ ~Cached(wcache, i, pending.epoch)
        /\ IF i \notin DOMAIN inoPath \/ (~Writable(b) /\ (p.br # Here \/ HasDelta(b, p.file)))
           THEN Serve("write") /\ Refuse
           ELSE IF ~HasDelta(b, p.file)
           THEN /\ Serve("write")
                /\ queue' = Append(queue, [op |-> "write", branch |-> b, path |-> p, id |-> req])
                /\ Risks(Alias(p))
                /\ Silent /\ UNCHANGED <<inodes, manager, rcache, wcache>>
           ELSE /\ wcache' = [ino |-> i, epoch |-> pending.epoch, obj |-> delta[b][p.file]]
                /\ pending' = [pending EXCEPT !.op = "opened", !.path = p]
                /\ Silent /\ UNCHANGED <<inodes, manager, mounted, rcache, jobs, req, risk>>
        /\ UNCHANGED curEpoch

\* ... and write to it, whatever became of the branch since: only a mount
\* whose branch is gone notices.
WriteOpened ==
    /\ Serve("opened")
    /\ data' = [data EXCEPT ![wcache.obj] = req + Original]
    /\ IF pending.path.br = Here THEN RefreshEpoch ELSE UNCHANGED curEpoch
    /\ IF pending.path.br = Here /\ mounted \notin alive
       THEN Answer(FALSE, req, Empty)               \* ESTALE
       ELSE Answer(TRUE, req, req + Original)
    /\ UNCHANGED <<inodes, alive, frozen, base, delta, epoch, setting, rcache, wcache, queue, risk>>

\* A request for path p that changes its file begins: the branch must be
\* writable when its checks come (the second is that of
\* ensure_delta_path_for_write).
Checked(op, p) ==
    /\ req' = req + 1
    /\ IF Writable(BranchOf(p))
       THEN /\ pending' = [op |-> op, ino |-> 0, path |-> p, epoch |-> epoch, seen |-> {},
                           raced |-> setting]
            /\ Silent
       ELSE /\ Answer(FALSE, req', Empty)
            /\ UNCHANGED pending
    /\ Risks(Overlap(p) \union Alias(p))

\* create: the kernel asks for it when its lookup found nothing.
CreateFile(p) ==
    /\ pending = NoReq /\ req < MaxReq /\ p.file # Top /\ nextIno <= MaxIno
    /\ p.br # Here => [p EXCEPT !.file = Top] \in DOMAIN pathIno
    /\ BranchOf(p) \in alive => Resolve(BranchOf(p), p.file) = Gone
    /\ Checked("create", p)
    /\ UNCHANGED <<inodes, manager, mount, jobs>>

\* setattr with a size of 0.
Truncate(i) ==
    /\ pending = NoReq /\ req < MaxReq /\ i \in DOMAIN inoPath /\ inoPath[i].file # Top
    /\ InvalidateRead(i) /\ InvalidateWrite(i)
    /\ Checked("truncate", inoPath[i])
    /\ UNCHANGED <<inodes, manager, mounted, curEpoch, jobs>>

\* The rest of create and setattr: the copy-up, and File::create or set_len.
\* (Taken together: what a commit does between the two is left out.)
EmptyFile(op) ==
    LET p == pending.path IN
    /\ Serve(op)
    /\ PutInDelta(BranchOf(p), p.file, Empty)
    /\ IF op = "create" THEN GetOrCreate(p) ELSE UNCHANGED inodes
    /\ IF p.br = Here THEN RefreshEpoch ELSE UNCHANGED curEpoch
    /\ Answer(TRUE, req, Empty)
    /\ UNCHANGED <<alive, frozen, base, epoch, setting, rcache, wcache, queue, risk>>

\* unlink: a job for the worker.
Unlink(p) ==
    LET b == BranchOf(p) IN
    /\ pending = NoReq /\ req < MaxReq /\ p.file # Top /\ p \in DOMAIN pathIno
    /\ b \in alive => Resolve(b, p.file) # Gone
    /\ req' = req + 1
    /\ IF Writable(b)
       THEN /\ queue' = Append(queue, [op |-> "delete", branch |-> b, path |-> p, id |-> req'])
            /\ Silent
       ELSE /\ Answer(FALSE, req', Empty)
            /\ UNCHANGED queue
    /\ Risks(Overlap(p) \union Alias(p))
    /\ UNCHANGED <<inodes, manager, mount, worker, pending, other>>

\* Mutated form of StartJob: a job whose branch is gone is kept for later.
StartJobOrWait ==
    /\ queue # <<>> /\ worker = "idle" /\ Writable(Head(queue).branch)
    /\ worker' = "checked"
    /\ Silent /\ UNCHANGED <<inodes, manager, mount, queue, other, pending, req, risk>>

\* The worker takes on the first job of its queue, or refuses it.
StartJob ==
    /\ queue # <<>> /\ worker = "idle"
    /\ IF Writable(Head(queue).branch)
       THEN /\ worker' = "checked"
            /\ Silent /\ UNCHANGED queue
       ELSE /\ queue' = Tail(queue)
            /\ Answer(FALSE, Head(queue).id, Empty)
            /\ UNCHANGED worker
    /\ UNCHANGED <<inodes, manager, mount, other, pending, req, risk>>

\* The worker does and answers it.
RunJob ==
    LET j == Head(queue)
        f == j.path.file
    IN  /\ worker # "idle"
        /\ worker' = "idle"
        /\ queue' = Tail(queue)
        /\ IF j.op = "write"
           THEN /\ PutInDelta(j.branch, f, j.id + Original)
                /\ Answer(TRUE, j.id, j.id + Original)
                /\ UNCHANGED inodes
           ELSE /\ DropFromDelta(j.branch, f)
                /\ Forget({j.path})
                /\ Answer(TRUE, j.id, Empty)
        /\ UNCHANGED <<alive, frozen, base, epoch, setting, mount, other, req, risk>>
        /\ Meanwhile({})

----------------------------------------------------------------------------
(* The control file and ioctl                                              *)

\* switch: of the root control file, and switch_to_branch.
Switch(b) ==
    /\ pending = NoReq /\ b \in alive \ {mounted}
    /\ mounted' = b
    /\ RefreshEpoch
    /\ Clear
    /\ Silent /\ UNCHANGED <<manager, rcache, wcache, jobs, pending, req, risk>>

\* create: of a control file and by ioctl, here always from main.
CtlCreate(b) ==
    /\ pending = NoReq /\ epoch < MaxEpoch
    /\ Create(b)
    /\ curEpoch' = epoch'
    /\ Silent /\ UNCHANGED <<inodes, mounted, rcache, wcache, jobs, pending, req, risk>>

\* clear_prefix("/@b") takes the branches with a longer name along.
ForgetBranch(b) == Forget({p \in DOMAIN pathIno : p.br \in Hits[b]})

\* The caches know nothing of an abort, which leaves the epoch alone: of the
\* mounted branch when the mount goes on with main, of another when it has
\* numbers below /@b.
AbortRisk(b, goesOn) ==
    {"abort" : q \in {q \in DOMAIN pathIno : q.file # Top /\ BranchOf(q) = b
                                              /\ (q.br = Here => goesOn)}}

\* finalize_branch_op: the mount of the branch goes on with the parent.
CtlFinish(b) ==
    /\ pending = NoReq
    /\ \/ Commit(b) /\ epoch < MaxEpoch /\ UNCHANGED risk
       \/ Abort(b) /\ Risks(AbortRisk(b, TRUE))
    /\ ForgetBranch(b)
    /\ curEpoch' = epoch'
    /\ mounted' = IF mounted = b THEN Main ELSE mounted
    /\ Silent /\ UNCHANGED <<rcache, wcache, jobs, pending, req>>

\* FS_IOC_BRANCH_COMMIT and FS_IOC_BRANCH_ABORT: the mount stays where it is.
IoctlFinish(b) ==
    /\ pending = NoReq
    /\ \/ Commit(b) /\ epoch < MaxEpoch /\ UNCHANGED risk
       \/ Abort(b) /\ Risks(AbortRisk(b, FALSE))
    /\ ForgetBranch(b)
    /\ curEpoch' = epoch'
    /\ Silent /\ UNCHANGED <<mounted, rcache, wcache, jobs, pending, req>>

----------------------------------------------------------------------------
(* Clients of the daemon and other mounts, at any time                     *)

\* The requests of clients come one after the other; those that freeze or thaw
\* have two steps.  A job and another mount's operation that the branch let
\* through go on when it is frozen.
Client(b) ==
    /\ \/ Abort(b) /\ Risks(AbortRisk(b, FALSE)) /\ UNCHANGED <<worker, other>>
       \/ /\ epoch < MaxEpoch
          /\ \/ Create(b) \/ Commit(b) \/ StateSet(b)
             \/ setting = {} /\ (Thaw(b) \/ \E f \in File : Revert(b, f))
          /\ UNCHANGED <<risk, worker, other>>
       \/ /\ epoch < MaxEpoch
          /\ setting = {} /\ Freeze(b)
          /\ worker' = IF worker # "idle" /\ Head(queue).branch = b THEN "late" ELSE worker
          /\ other' = {[o EXCEPT !.late = @ \/ o.branch = b] : o \in other}
          /\ UNCHANGED risk
    /\ Silent /\ UNCHANGED <<inodes, mount, queue, req>>
    /\ Meanwhile({b})

\* Another mount begins a write or a deletion.  A write through a cached
\* descriptor looks at the epoch, everything else at the state.
OtherBegins(op, b, f) ==
    /\ req < MaxReq /\ req' = req + 1
    /\ other = {}
    /\ Writable(b) \/ (op = "write" /\ b \in setting \intersect frozen /\ HasDelta(b, f))
    /\ other' = {[op |-> op, branch |-> b, file |-> f, id |-> req', late |-> b \in setting]}
    /\ Silent /\ UNCHANGED <<inodes, manager, mount, queue, worker, pending, risk>>

\* ... and does it.
OtherEnds(o) ==
    /\ o \in other
    /\ other' = {}
    /\ \/ /\ o.op = "write" /\ PutInDelta(o.branch, o.file, o.id + Original)
          /\ Risks(IF HasDelta(o.branch, o.file) THEN {} ELSE {"shared"})
       \/ o.op = "delete" /\ DropFromDelta(o.branch, o.file) /\ Risks({"shared"})
    /\ Silent /\ UNCHANGED <<inodes, alive, frozen, base, epoch, setting, mount, queue, worker, req>>
    /\ Meanwhile({})

----------------------------------------------------------------------------
(* The specification                                                       *)

Init ==
    /\ InodeInit
    /\ alive = Branch /\ frozen = {} /\ epoch = 0
    /\ data = [o \in 1..Cardinality(File) |-> Original]
    /\ base \in [File -> 1..Cardinality(File)]
    /\ \A f, g \in File : base[f] = base[g] => f = g
    /\ delta = [b \in Branch |-> NoDelta]
    /\ mounted \in Branch /\ curEpoch = 0
    /\ rcache = NoCache /\ wcache = NoCache
    /\ queue = <<>> /\ worker = "idle" /\ pending = NoReq
    /\ setting = {} /\ other = {}
    /\ reply = NoReply
    /\ req = 0 /\ risk = {}

Next ==
    \/ \E p \in InoPath : Lookup(p) \/ CreateFile(p) \/ Unlink(p)
    \/ \E i \in RootIno + 1 .. nextIno - 1 : Begin("read", i) \/ Begin("write", i) \/ Truncate(i)
    \/ ReadCached \/ ReadOpen \/ WriteCached \/ WriteOpen \/ WriteOpened
    \/ EmptyFile("create") \/ EmptyFile("truncate")
    \/ StartJob \/ RunJob
    \/ \E b \in Branch : Switch(b) \/ CtlCreate(b) \/ CtlFinish(b) \/ IoctlFinish(b) \/ Client(b)
    \/ \E b \in Branch, f \in File : OtherBegins("write", b, f) \/ OtherBegins("delete", b, f)
    \/ \E o \in other : OtherEnds(o)

\* The worker thread runs as long as the daemon, and a request that was read
\* from the kernel is served to its end.
Spec ==
    /\ Init /\ [][Next]_vars
    /\ WF_vars(StartJob \/ RunJob)
    /\ WF_vars(ReadCached \/ ReadOpen \/ WriteCached \/ WriteOpen \/ WriteOpened
                  \/ EmptyFile("create") \/ EmptyFile("truncate"))

\* Behaviours are followed as long as their risks are among Allowed.
WithinAllowed == risk \subseteq Allowed

----------------------------------------------------------------------------
(* Properties                                                              *)

\* Objects, epochs and requests are well formed; no descriptor and no mount
\* is ahead of the manager's epoch.
TypeOK ==
    /\ alive \subseteq Branch /\ Main \in alive /\ frozen \subseteq alive \ {Main}
    /\ base \in [File -> Gone..Len(data)]
    /\ delta \in [Branch -> [File -> Inherit..Len(data)]]
    /\ mounted \in Branch /\ curEpoch <= epoch
    /\ \A c \in {rcache, wcache} : c \in Cache /\ c.epoch <= epoch /\ c.obj <= Len(data)
    /\ \A k \in DOMAIN queue : queue[k] \in Job
    /\ worker # "idle" => queue # <<>>
    /\ other \subseteq Other /\ setting \subseteq alive
    /\ pending.op \in {"none", "read", "write", "opened", "create", "truncate"}
    /\ pending.epoch <= epoch
    /\ reply \in Reply

Ends(op) == pending.op = op /\ pending' = NoReq

\* A read shows what the file held at some moment of the request (the file
\* of the parent, once the branch is gone), whatever commits, reverts,
\* switches, truncations and first writes came before it: the cached
\* descriptor is never one of a file that has been replaced.
\* (read, and the comment on OpenFileCache.)
FreshReads ==
    [][Ends("read") /\ reply'.ok /\ risk' = {} => reply'.data \in pending.seen]_vars

\* A write that is acknowledged is what the file holds, unless the branch
\* was changed by a client in the middle of the request: the cached write
\* descriptor is the branch's own delta (write, WriteFileCache).
AckedWrites ==
    [][Ends("write") \/ Ends("opened") =>
          (reply' # reply /\ reply'.ok /\ risk' = {} /\ pending.raced = {}
             => \A i \in {pending.ino} : Visible(i)' = {reply'.data})]_vars

\* An operation on file f of b is under way that b let through before it was
\* frozen, or a request that began before freeze_branch had advanced the epoch.
UnderWay(b, f) ==
    \/ b \in pending.raced
    \/ worker = "late" /\ Head(queue).branch = b /\ Head(queue).path.file = f
    \/ \E o \in other : o.late /\ o.branch = b /\ o.file = f

\* The files of a frozen branch keep their content, though write does not
\* look at the state of the branch when it has a descriptor, and no lock keeps
\* freeze_branch away between the check of an operation and its effect: only
\* what was under way when the branch was frozen may still land, once.
FrozenKeepsContent ==
    [][\A b \in frozen \intersect frozen', f \in File :
          \/ /\ delta'[b][f] = delta[b][f]
             /\ HasDelta(b, f) => data'[delta[b][f]] = data[delta[b][f]]
          \/ UnderWay(b, f)]_vars

\* Every job is answered: the queue is empty again and again, also when the
\* branch of a job was committed, aborted or frozen meanwhile
\* (spawn_blocking_work; requests are bounded here by MaxReq).
JobsAnswered == []<>(queue = <<>>)

\* After an abort the mount has gone on with the parent, and a read of a
\* file that the parent has shows what the parent holds (finalize_branch_op;
\* README: "Aborting discards only the leaf branch").
AbortDiscards ==
    [][Ends("read") /\ reply'.ok /\ risk' \subseteq {"abort"} /\ pending.seen # {}
         => reply'.data \in pending.seen]_vars
=============================================================================
