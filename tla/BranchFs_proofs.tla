--------------------------- MODULE BranchFs_proofs ---------------------------
(***************************************************************************)
(* A mount, for any branches, files and number of requests.                *)
(*                                                                         *)
(* It uses its inode table as InodeManager allows: every step of the       *)
(* mount, its worker and its clients is a step of the table or leaves it   *)
(* alone.  The worker forgets a path long after the request that named it, *)
(* so the queue has to be known to name files only.                        *)
(*                                                                         *)
(* Then its descriptor caches.  The store comes first: no two places share *)
(* a file object.  From it follow the types, that frozen branches keep     *)
(* their content, that an acknowledged write is what the file holds and    *)
(* that reads are fresh.                                                   *)
(***************************************************************************)
EXTENDS BranchFs, FiniteSetTheorems, TLAPS

-----------------------------------------------------------------------------
(***************************************************************************)
(* The inode table for every set of paths: its two maps stay inverse and a *)
(* number means one path for ever.                                         *)
(***************************************************************************)
\* What an operation of the table may do to the numbers: NumbersNeverReused
\* as a step.
NumbersKept ==
    /\ nextIno' >= nextIno
    /\ \A i \in DOMAIN inoPath' :
          IF i \in DOMAIN inoPath THEN inoPath'[i] = inoPath[i] ELSE i >= nextIno

\* The table that new() builds holds the root under its number and nothing
\* else, so its maps are inverse.
LEMMA InitInverse == InodeInit => InodesInverse
  BY RootAssumption DEF InodeInit, InodesInverse, RootIno

\* get_or_create of a path keeps the maps inverse and gives out a number that
\* was never given before.
LEMMA GetOrCreateKeeps ==
    ASSUME InodesInverse, NEW p \in InoPath, GetOrCreate(p)
    PROVE  InodesInverse' /\ NumbersKept
<1>1. CASE p \in DOMAIN pathIno
  BY <1>1 DEF GetOrCreate, InodesInverse, NumbersKept, inodes, RootIno
<1>2. CASE p \notin DOMAIN pathIno
  <2>1. /\ nextIno' = nextIno + 1
        /\ pathIno' = [q \in DOMAIN pathIno \union {p} |->
                           IF q = p THEN nextIno ELSE pathIno[q]]
        /\ inoPath' = [i \in DOMAIN inoPath \union {nextIno} |->
                           IF i = nextIno THEN p ELSE inoPath[i]]
    BY <1>2 DEF GetOrCreate
  <2>2. nextIno \in Nat /\ nextIno \notin DOMAIN inoPath
    BY DEF InodesInverse
  <2>3. \A q \in DOMAIN pathIno' :
            pathIno'[q] \in DOMAIN inoPath' /\ inoPath'[pathIno'[q]] = q
    BY <2>1, <2>2, <1>2 DEF InodesInverse
  <2>4. \A i \in DOMAIN inoPath' :
            /\ i \in Nat /\ 0 < i /\ i < nextIno'
            /\ inoPath'[i] \in DOMAIN pathIno' /\ pathIno'[inoPath'[i]] = i
    <3> SUFFICES ASSUME NEW i \in DOMAIN inoPath'
                 PROVE  /\ i \in Nat /\ 0 < i /\ i < nextIno'
                        /\ inoPath'[i] \in DOMAIN pathIno' /\ pathIno'[inoPath'[i]] = i
      OBVIOUS
    <3>1. CASE i = nextIno
      <4>1. pathIno[RootPath] \in DOMAIN inoPath /\ pathIno[RootPath] = 1
        BY DEF InodesInverse, RootIno
      <4>2. 1 < nextIno
        BY <4>1 DEF InodesInverse
      <4> QED BY <3>1, <4>2, <2>1, <2>2, <1>2
    <3>2. CASE i # nextIno
      <4>1. i \in DOMAIN inoPath /\ inoPath'[i] = inoPath[i]
        BY <3>2, <2>1
      <4>2. i \in Nat /\ 0 < i /\ i < nextIno /\ inoPath[i] \in DOMAIN pathIno
               /\ pathIno[inoPath[i]] = i
        BY <4>1 DEF InodesInverse
      <4> QED BY <4>1, <4>2, <2>1, <2>2, <1>2
    <3> QED BY <3>1, <3>2
  <2>5. DOMAIN pathIno' \subseteq InoPath /\ nextIno' \in Nat
    BY <2>1, <2>2 DEF InodesInverse
  <2>6. RootPath \in DOMAIN pathIno' /\ pathIno'[RootPath] = RootIno
    BY <2>1, <1>2 DEF InodesInverse
  <2>7. NumbersKept
    BY <2>1, <2>2 DEF NumbersKept
  <2> QED BY <2>3, <2>4, <2>5, <2>6, <2>7 DEF InodesInverse
<1> QED BY <1>1, <1>2

\* remove and clear_prefix take a path and its number together.
LEMMA ForgetKeeps ==
    ASSUME InodesInverse, NEW S \in SUBSET (InoPath \ {RootPath}), Forget(S)
    PROVE  InodesInverse' /\ NumbersKept
<1> DEFINE Lost == {pathIno[q] : q \in S \intersect DOMAIN pathIno}
<1>1. /\ pathIno' = [q \in DOMAIN pathIno \ S |-> pathIno[q]]
      /\ inoPath' = [i \in DOMAIN inoPath \ Lost |-> inoPath[i]]
      /\ nextIno' = nextIno
  BY DEF Forget
<1>2. \A i \in DOMAIN inoPath : i \in Lost <=> inoPath[i] \in S
  BY DEF InodesInverse
<1> HIDE DEF Lost
<1>3. \A q \in DOMAIN pathIno' :
          pathIno'[q] \in DOMAIN inoPath' /\ inoPath'[pathIno'[q]] = q
  <2> SUFFICES ASSUME NEW q \in DOMAIN pathIno'
               PROVE  pathIno'[q] \in DOMAIN inoPath' /\ inoPath'[pathIno'[q]] = q
    OBVIOUS
  <2>1. q \in DOMAIN pathIno /\ q \notin S /\ pathIno'[q] = pathIno[q]
    BY <1>1
  <2>2. pathIno[q] \in DOMAIN inoPath /\ inoPath[pathIno[q]] = q
    BY <2>1 DEF InodesInverse
  <2>3. pathIno[q] \notin Lost
    BY <2>1, <2>2, <1>2
  <2> QED BY <2>1, <2>2, <2>3, <1>1
<1>4. \A i \in DOMAIN inoPath' :
          /\ i \in Nat /\ 0 < i /\ i < nextIno'
          /\ inoPath'[i] \in DOMAIN pathIno' /\ pathIno'[inoPath'[i]] = i
  BY <1>1, <1>2 DEF InodesInverse
<1>5. RootPath \in DOMAIN pathIno' /\ pathIno'[RootPath] = RootIno
  BY <1>1 DEF InodesInverse
<1>6. nextIno' \in Nat /\ DOMAIN pathIno' \subseteq InoPath /\ NumbersKept
  BY <1>1 DEF InodesInverse, NumbersKept
<1> QED BY <1>3, <1>4, <1>5, <1>6 DEF InodesInverse

\* clear keeps the root and the next number.
LEMMA ClearKeeps ==
    ASSUME InodesInverse, Clear
    PROVE  InodesInverse' /\ NumbersKept
<1>1. /\ pathIno' = [q \in {RootPath} |-> RootIno]
      /\ inoPath' = [i \in {RootIno} |-> RootPath]
      /\ nextIno' = nextIno
  BY DEF Clear
<1>2. RootIno \in DOMAIN inoPath /\ inoPath[RootIno] = RootPath /\ 0 < RootIno
         /\ RootIno < nextIno /\ nextIno \in Nat /\ RootIno \in Nat
  BY DEF InodesInverse, RootIno
<1>3. InodesInverse'
  BY <1>1, <1>2, RootAssumption DEF InodesInverse
<1>4. NumbersKept
  BY <1>1, <1>2 DEF NumbersKept
<1> QED BY <1>3, <1>4

\* A step of the table, or none.
LEMMA InodeStepKeeps ==
    ASSUME InodesInverse, [InodeNext]_inodes
    PROVE  InodesInverse' /\ (NumbersKept \/ UNCHANGED inodes)
<1>1. CASE \E p \in InoPath : GetOrCreate(p)
  BY <1>1, GetOrCreateKeeps
<1>2. CASE \E S \in SUBSET (InoPath \ {RootPath}) : Forget(S)
  BY <1>2, ForgetKeeps
<1>3. CASE Clear
  BY <1>3, ClearKeeps
<1>4. CASE UNCHANGED inodes
  BY <1>4 DEF inodes, InodesInverse
<1> QED BY <1>1, <1>2, <1>3, <1>4 DEF InodeNext

\* Whatever paths are looked up, removed or cleared, in whatever order, the
\* two maps of the inode table stay inverse and keep the root.
THEOREM InodesStayInverse == InodeSpec => []InodesInverse
<1>1. InodesInverse /\ [InodeNext]_inodes => InodesInverse'
  BY InodeStepKeeps
<1> QED BY <1>1, InitInverse, PTL DEF InodeSpec

\* Whatever paths are looked up, removed or cleared, in whatever order, a
\* number the table gave out never comes to mean another path.
THEOREM NumbersUnique == InodeSpec => NumbersNeverReused
<1>1. InodesInverse /\ [InodeNext]_inodes => [NumbersKept]_inodes
  BY InodeStepKeeps
<1>2. NumbersNeverReused <=> [][NumbersKept]_inodes
  BY PTL DEF NumbersNeverReused, NumbersKept
<1> QED BY <1>1, <1>2, InodesStayInverse, PTL DEF InodeSpec

----------------------------------------------------------------------------
(* The inode table of a mount                                              *)

\* What the steps of the mount need to know of each other: the worker's jobs
\* are about files, and the request under way is not about the root.
MountInv ==
    /\ mounted \in Branch
    /\ req \in Nat
    /\ queue \in Seq(Job)
    /\ \A k \in 1..Len(queue) : queue[k].path # RootPath
    /\ worker # "idle" => queue # <<>>
    /\ "ino" \in DOMAIN pending /\ pending.ino # RootIno
    /\ pending.path \in InoPath

\* A path that the root control file or an @-directory leads to has a branch.
LEMMA BranchOfType ==
    ASSUME MountInv, NEW p \in InoPath
    PROVE  BranchOf(p) \in Branch
  BY PathAssumption DEF MountInv, BranchOf

\* Files are not the root.
LEMMA FileIsNotRoot ==
    ASSUME NEW p \in InoPath, p.file # Top
    PROVE  p # RootPath
  BY PathAssumption

\* The paths below /@b, for any b, do not include the root.
LEMMA ForgetBranchIsForget ==
    ASSUME InodesInverse, NEW b \in Branch, ForgetBranch(b)
    PROVE  InodeNext
<1> DEFINE S == {p \in DOMAIN pathIno : p.br \in Hits[b]}
<1>1. S \in SUBSET (InoPath \ {RootPath})
  BY PathAssumption, HitsAssumption, BranchAssumption DEF InodesInverse
<1>2. Forget(S)
  BY DEF ForgetBranch
<1> QED BY <1>1, <1>2 DEF InodeNext

\* A job joins the queue.
LEMMA QueueGrows ==
    ASSUME MountInv, NEW j \in Job, j.path # RootPath, queue' = Append(queue, j)
    PROVE  /\ queue' \in Seq(Job) /\ \A k \in 1..Len(queue') : queue'[k].path # RootPath
           /\ queue' # <<>>
  BY DEF MountInv

\* A job leaves the queue.
LEMMA QueueShrinks ==
    ASSUME MountInv, queue # <<>>, queue' = Tail(queue)
    PROVE  /\ queue' \in Seq(Job) /\ \A k \in 1..Len(queue') : queue'[k].path # RootPath
           /\ Head(queue) \in Job /\ Head(queue).path # RootPath
  BY DEF MountInv

\* What the request under way names.
PendingNames ==
    "ino" \in DOMAIN pending /\ pending.ino # RootIno /\ pending.path \in InoPath

\* The worker and the clients leave what the request under way names.
LEMMA MeanwhileKeeps ==
    ASSUME MountInv, NEW B, Meanwhile(B)
    PROVE  PendingNames'
  BY DEF MountInv, Meanwhile, PendingNames

\* A request ends.
LEMMA ServeKeeps ==
    ASSUME NEW op, Serve(op)
    PROVE  PendingNames' /\ UNCHANGED <<mounted, req, worker, other>>
  BY PathAssumption DEF Serve, NoReq, RootIno, PendingNames

\* A request that names a path begins, or is refused.
LEMMA CheckedKeeps ==
    ASSUME MountInv, NEW op, NEW p \in InoPath, Checked(op, p)
    PROVE  PendingNames' /\ req' = req + 1
<1>1. \/ UNCHANGED pending
      \/ pending' = [op |-> op, ino |-> 0, path |-> p, epoch |-> epoch, seen |-> {},
                     raced |-> setting]
  BY DEF Checked
<1> QED BY <1>1 DEF Checked, MountInv, PendingNames, RootIno

\* Requests that name a path.
LEMMA PathRequests ==
    ASSUME MountInv, InodesInverse, NEW p \in InoPath,
           Lookup(p) \/ CreateFile(p) \/ Unlink(p)
    PROVE  MountInv' /\ [InodeNext]_inodes
<1>1. CASE Lookup(p)
  BY <1>1 DEF Lookup, InodeNext, MountInv, jobs
<1>2. CASE CreateFile(p)
  <2>1. UNCHANGED <<inodes, mounted, queue, worker>> /\ PendingNames' /\ req' = req + 1
    BY <1>2, CheckedKeeps DEF CreateFile, mount, jobs
  <2> QED BY <2>1 DEF MountInv, PendingNames
<1>3. CASE Unlink(p)
  <2>1. UNCHANGED <<inodes, mounted, pending, worker>> /\ req' = req + 1 /\ p # RootPath
    BY <1>3, FileIsNotRoot DEF Unlink, mount
  <2>2. CASE Writable(BranchOf(p))
    <3> DEFINE j == [op |-> "delete", branch |-> BranchOf(p), path |-> p, id |-> req']
    <3>1. j \in Job /\ j.path # RootPath
      BY <2>1, BranchOfType DEF MountInv, Job
    <3>2. queue' = Append(queue, j)
      BY <1>3, <2>2 DEF Unlink
    <3> QED BY <3>1, <3>2, <2>1, QueueGrows DEF MountInv
  <2>3. CASE ~Writable(BranchOf(p))
    BY <1>3, <2>1, <2>3 DEF Unlink, MountInv
  <2> QED BY <2>2, <2>3
<1> QED BY <1>1, <1>2, <1>3

\* Requests that name a number: the first half of read, write and setattr.
LEMMA NumberRequests ==
    ASSUME MountInv, InodesInverse, NEW i \in RootIno + 1 .. nextIno - 1,
           Begin("read", i) \/ Begin("write", i) \/ Truncate(i)
    PROVE  MountInv' /\ [InodeNext]_inodes
<1>1. i # RootIno
  BY DEF RootIno, InodesInverse
<1>2. ASSUME NEW op, Begin(op, i) PROVE MountInv' /\ [InodeNext]_inodes
  <2>1. UNCHANGED <<inodes, mounted, queue, worker>> /\ req' = req + 1
    BY <1>2 DEF Begin, jobs
  <2>2. PendingNames'
    <3>1. CASE mounted \in alive
      <4>1. pending' = [op |-> op, ino |-> i, path |-> RootPath, epoch |-> curEpoch',
                        seen |-> Visible(i), raced |-> setting]
        BY <1>2, <3>1 DEF Begin
      <4> QED BY <4>1, <1>1, PathAssumption DEF PendingNames
    <3>2. CASE mounted \notin alive
      BY <1>2, <3>2 DEF Begin, MountInv, PendingNames
    <3> QED BY <3>1, <3>2
  <2> QED BY <2>1, <2>2 DEF MountInv, PendingNames
<1>3. CASE Truncate(i)
  <2>1. PICK p \in InoPath : Checked("truncate", p)
    BY <1>3 DEF Truncate, InodesInverse
  <2>2. UNCHANGED <<inodes, mounted, queue, worker>> /\ PendingNames' /\ req' = req + 1
    BY <1>3, <2>1, CheckedKeeps DEF Truncate, jobs
  <2> QED BY <2>2 DEF MountInv, PendingNames
<1> QED BY <1>2, <1>3

\* The second half of a request.
LEMMA Services ==
    ASSUME MountInv, InodesInverse,
           \/ ReadCached \/ ReadOpen \/ WriteCached \/ WriteOpen \/ WriteOpened
           \/ EmptyFile("create") \/ EmptyFile("truncate")
    PROVE  MountInv' /\ [InodeNext]_inodes
<1>1. CASE ReadCached \/ ReadOpen \/ WriteCached \/ WriteOpened
  <2>1. PICK op : Serve(op)
    BY <1>1 DEF ReadCached, ReadOpen, WriteCached, WriteOpened
  <2>2. UNCHANGED <<inodes, queue>>
    BY <1>1 DEF ReadCached, ReadOpen, WriteCached, WriteOpened, Refuse
  <2> QED BY <2>1, <2>2, ServeKeeps DEF MountInv, PendingNames
<1>2. ASSUME NEW op, EmptyFile(op) PROVE MountInv' /\ [InodeNext]_inodes
  <2>1. Serve(op) /\ UNCHANGED queue /\ (GetOrCreate(pending.path) \/ UNCHANGED inodes)
    BY <1>2 DEF EmptyFile
  <2>2. pending.path \in InoPath
    BY DEF MountInv
  <2>3. MountInv'
    BY <2>1, ServeKeeps DEF MountInv, PendingNames
  <2> QED BY <2>1, <2>2, <2>3 DEF InodeNext
<1>4. CASE WriteOpen
  <2> DEFINE p == inoPath[pending.ino]
             j == [op |-> "write", branch |-> BranchOf(p), path |-> p, id |-> req]
  <2>1. \/ Serve("write") /\ UNCHANGED <<inodes, queue>>
        \/ /\ Serve("write") /\ UNCHANGED inodes
           /\ pending.ino \in DOMAIN inoPath /\ queue' = Append(queue, j)
        \/ /\ pending.ino \in DOMAIN inoPath /\ pending' = [pending EXCEPT !.op = "opened", !.path = p]
           /\ UNCHANGED <<inodes, mounted, req, queue, worker>>
    BY <1>4 DEF WriteOpen, Refuse, jobs
  <2>2. pending.ino \in DOMAIN inoPath => p \in InoPath /\ p # RootPath
    BY DEF InodesInverse, MountInv
  <2>3. CASE Serve("write") /\ UNCHANGED <<inodes, queue>>
    BY <2>3, ServeKeeps DEF MountInv, PendingNames
  <2>4. CASE /\ Serve("write") /\ UNCHANGED inodes
             /\ pending.ino \in DOMAIN inoPath /\ queue' = Append(queue, j)
    <3>1. j \in Job /\ j.path # RootPath
      BY <2>2, <2>4, BranchOfType DEF MountInv, Job
    <3> HIDE DEF p, j
    <3> QED BY <2>4, <3>1, QueueGrows, ServeKeeps DEF MountInv, PendingNames
  <2>5. CASE /\ pending.ino \in DOMAIN inoPath /\ pending' = [pending EXCEPT !.op = "opened", !.path = p]
             /\ UNCHANGED <<inodes, mounted, req, queue, worker>>
    <3>1. p \in InoPath
      BY <2>2, <2>5
    <3> HIDE DEF p
    <3>2. PendingNames'
      BY <2>5, <3>1 DEF MountInv, PendingNames
    <3> QED BY <2>5, <3>2 DEF MountInv, PendingNames
  <2> QED BY <2>1, <2>3, <2>4, <2>5
<1> QED BY <1>1, <1>2, <1>4

\* The worker's steps.
LEMMA JobStep ==
    ASSUME MountInv, InodesInverse, StartJob \/ RunJob
    PROVE  MountInv' /\ [InodeNext]_inodes
<1>1. CASE StartJob
  <2>1. UNCHANGED <<inodes, mounted, req, pending>>
    BY <1>1 DEF StartJob, mount
  <2>2. \/ queue # <<>> /\ UNCHANGED queue
        \/ queue # <<>> /\ queue' = Tail(queue) /\ worker' = "idle"
    BY <1>1 DEF StartJob
  <2> QED BY <2>1, <2>2, QueueShrinks DEF MountInv
<1>2. CASE RunJob
  <2>1. /\ queue # <<>> /\ queue' = Tail(queue) /\ worker' = "idle"
        /\ UNCHANGED <<mounted, req>> /\ Meanwhile({})
    BY <1>2 DEF RunJob, mount, MountInv
  <2>2. MountInv'
    BY <2>1, QueueShrinks, MeanwhileKeeps DEF MountInv, PendingNames
  <2>3. UNCHANGED inodes \/ Forget({Head(queue).path})
    BY <1>2 DEF RunJob
  <2>4. {Head(queue).path} \in SUBSET (InoPath \ {RootPath})
    BY <2>1, QueueShrinks DEF Job
  <2> QED BY <2>2, <2>3, <2>4 DEF InodeNext
<1> QED BY <1>1, <1>2

\* The control file, ioctl and the clients of the daemon.
LEMMA Controls ==
    ASSUME MountInv, InodesInverse, NEW b \in Branch,
           Switch(b) \/ CtlCreate(b) \/ CtlFinish(b) \/ IoctlFinish(b) \/ Client(b)
    PROVE  MountInv' /\ [InodeNext]_inodes
<1>1. CASE Switch(b)
  BY <1>1 DEF Switch, InodeNext, MountInv, jobs
<1>2. CASE CtlCreate(b)
  BY <1>2 DEF CtlCreate, MountInv, jobs
<1>3. CASE CtlFinish(b)
  BY <1>3, ForgetBranchIsForget, BranchAssumption DEF CtlFinish, MountInv, jobs
<1>4. CASE IoctlFinish(b)
  BY <1>4, ForgetBranchIsForget DEF IoctlFinish, MountInv, jobs
<1>5. CASE Client(b)
  <2>1. UNCHANGED <<inodes, mounted, queue, req>> /\ Meanwhile({b})
    BY <1>5 DEF Client, mount
  <2>2. UNCHANGED worker \/ worker # "idle"
    BY <1>5 DEF Client
  <2> QED BY <2>1, <2>2, MeanwhileKeeps DEF MountInv, PendingNames
<1> QED BY <1>1, <1>2, <1>3, <1>4, <1>5

\* Another mount begins a write or a deletion, and does it.
LEMMA Others ==
    ASSUME MountInv, InodesInverse,
           \/ \E op, b, f : OtherBegins(op, b, f)
           \/ \E o \in other : OtherEnds(o)
    PROVE  MountInv' /\ [InodeNext]_inodes
<1>1. ASSUME NEW op, NEW b, NEW f, OtherBegins(op, b, f) PROVE MountInv' /\ UNCHANGED inodes
  BY <1>1 DEF OtherBegins, mount, MountInv
<1>2. ASSUME NEW o, OtherEnds(o) PROVE MountInv' /\ UNCHANGED inodes
  <2>1. UNCHANGED <<inodes, mounted, queue, worker, req>> /\ Meanwhile({})
    BY <1>2 DEF OtherEnds, mount
  <2> QED BY <2>1, MeanwhileKeeps DEF MountInv, PendingNames
<1> QED BY <1>1, <1>2

\* Every step of the mount is a step of its inode table.
LEMMA MountStep ==
    ASSUME MountInv, InodesInverse, [Next]_vars
    PROVE  MountInv' /\ [InodeNext]_inodes
<1>1. CASE \E p \in InoPath : Lookup(p) \/ CreateFile(p) \/ Unlink(p)
  BY <1>1, PathRequests
<1>2. CASE \E i \in RootIno + 1 .. nextIno - 1 :
               Begin("read", i) \/ Begin("write", i) \/ Truncate(i)
  BY <1>2, NumberRequests
<1>3. CASE \/ ReadCached \/ ReadOpen \/ WriteCached \/ WriteOpen \/ WriteOpened
           \/ EmptyFile("create") \/ EmptyFile("truncate")
  BY <1>3, Services
<1>4. CASE StartJob \/ RunJob
  BY <1>4, JobStep
<1>5. CASE \E b \in Branch : Switch(b) \/ CtlCreate(b) \/ CtlFinish(b) \/ IoctlFinish(b)
                              \/ Client(b)
  BY <1>5, Controls
<1>6. CASE \/ \E b \in Branch, f \in File : OtherBegins("write", b, f) \/ OtherBegins("delete", b, f)
           \/ \E o \in other : OtherEnds(o)
  BY <1>6, Others
<1>7. CASE UNCHANGED vars
  BY <1>7 DEF vars, MountInv, mount, jobs
<1> QED BY <1>1, <1>2, <1>3, <1>4, <1>5, <1>6, <1>7 DEF Next

\* A mount starts with the table of new() and no work.
LEMMA MountStarts == Init => MountInv /\ InodesInverse
  BY InitInverse, PathAssumption DEF Init, MountInv, NoReq, RootIno

\* Whatever requests, jobs, control commands and clients interleave, the two
\* maps of the mount's inode table stay inverse: remove by the worker and
\* clear_prefix by the control file never leave half an entry or the root out.
THEOREM MountInodesInverse == Spec => []InodesInverse
<1>1. (MountInv /\ InodesInverse) /\ [Next]_vars => (MountInv /\ InodesInverse)'
  BY MountStep, InodeStepKeeps
<1> QED BY <1>1, MountStarts, PTL DEF Spec

\* Whatever requests, jobs, control commands and clients interleave, a number
\* that a mount gave out never comes to mean another path, so that a cached
\* descriptor is never taken for another file's.
THEOREM MountNumbersUnique == Spec => NumbersNeverReused
<1>1. (MountInv /\ InodesInverse) /\ [Next]_vars => (MountInv /\ InodesInverse)'
  BY MountStep, InodeStepKeeps
<1>2. (MountInv /\ InodesInverse) /\ [Next]_vars => [NumbersKept]_inodes
  BY MountStep, InodeStepKeeps
<1>3. NumbersNeverReused <=> [][NumbersKept]_inodes
  BY PTL DEF NumbersNeverReused, NumbersKept
<1> QED BY <1>1, <1>2, <1>3, MountStarts, PTL DEF Spec

----------------------------------------------------------------------------
(* The inductive invariant of the descriptors                              *)

\* The store: a file object has one place at most, in one delta or the base.
StoreInv ==
    /\ data \in Seq(Nat)
    /\ base \in [File -> Gone..Len(data)]
    /\ delta \in [Branch -> [File -> Inherit..Len(data)]]
    /\ \A b, c \in Branch, f, g \in File :
          HasDelta(b, f) /\ delta[b][f] = delta[c][g] => b = c /\ f = g
    /\ \A b \in Branch, f, g \in File : HasDelta(b, f) => base[g] # delta[b][f]

\* The manager's table and the counters.
TableInv ==
    /\ alive \subseteq Branch /\ Main \in alive /\ frozen \subseteq alive \ {Main}
    /\ setting \subseteq alive /\ other \subseteq Other
    /\ epoch \in Nat /\ curEpoch \in Nat /\ curEpoch <= epoch
    /\ reply \in Reply

PendingOf(S) ==
    [op : {"none", "read", "write", "opened", "create", "truncate"}, ino : Nat, path : InoPath,
     epoch : Nat, seen : {S}, raced : SUBSET Branch]

\* The request under way is one of a number, with a descriptor to use.
Serving == pending.op \in {"read", "write", "opened"}

\* It is one of a path, with a check behind it.
Emptying == pending.op \in {"create", "truncate"}

\* The request under way.  Its epoch is the manager's until a client
\* interferes, and the mount stays on its branch.
PendingInv ==
    /\ pending \in PendingOf(pending.seen) /\ pending.epoch <= epoch
    /\ pending.op = "none" <=> pending = NoReq
    /\ Serving /\ pending.raced = {} => pending.epoch = epoch /\ mounted \in alive
    /\ Serving =>
          /\ pending.ino < nextIno
          /\ pending.ino \in DOMAIN inoPath => inoPath[pending.ino].file # Top
    /\ Emptying => pending.path.file \in File

\* The descriptor that a write has opened is there until it is used.
OpenedInv ==
    pending.op = "opened" => Cached(wcache, pending.ino, pending.epoch)

\* The worker's jobs are about files.
QueueInv == \A k \in 1..Len(queue) : queue[k].path.file \in File

\* It has seen what is visible now, and nothing waits for its file.
SeenInv ==
    Serving =>
        /\ Visible(pending.ino) \subseteq pending.seen
        /\ risk = {} =>
              /\ pending.ino \in DOMAIN inoPath
              /\ \A k \in DOMAIN queue : queue[k].path.file # inoPath[pending.ino].file

\* A descriptor is of a number that was given out and is not the root, and
\* of an epoch not after that of the request under way.
CacheInv(c) ==
    /\ c \in Cache /\ c.epoch <= epoch /\ c.obj <= Len(data)
    /\ c.obj # Gone => c.ino < nextIno /\ c.ino # RootIno
    /\ pending # NoReq => c.epoch <= pending.epoch

\* The descriptor c will be taken for the file p of branch b.
Fresh(c, p, b) ==
    /\ c.ino \in DOMAIN inoPath /\ inoPath[c.ino] = p /\ BranchOf(p) = b
    /\ c.epoch = epoch /\ c.obj # Gone

\* Nothing that waits will change p of b under a descriptor, except for the
\* deletion of p, which takes the number along; and no create or setattr that
\* is under way will.
Steady(p, b) ==
    /\ p.file \in File
    /\ p.br # Here => b \in alive
    /\ Emptying => pending.path.file # p.file
    /\ \A k \in DOMAIN queue :
          queue[k].path.file = p.file => queue[k].op = "delete" /\ queue[k].path = p

\* A fresh read descriptor is what a read resolves to.
ReadInv ==
    risk = {} => \A p \in InoPath, b \in Branch :
        Fresh(rcache, p, b) =>
            /\ Steady(p, b)
            /\ b \in alive => Resolve(b, p.file) = rcache.obj

\* A fresh write descriptor is the branch's own.
WriteInv ==
    risk = {} => \A p \in InoPath, b \in Branch :
        Fresh(wcache, p, b) =>
            /\ Steady(p, b)
            /\ b \in alive => delta[b][p.file] = wcache.obj

\* The descriptor of a file of b that is frozen is of an epoch before the
\* manager's, once freeze_branch is through, and before that of the request
\* under way, unless the request met freeze_branch.
Outdated(b) ==
    /\ b \in setting \/ wcache.epoch < epoch
    /\ pending.op \in {"write", "opened"} => b \in pending.raced \/ wcache.epoch < pending.epoch

\* No write descriptor that may still be used is that of a frozen branch.
DescriptorInv ==
    wcache.obj # Gone =>
        \A b \in frozen, f \in File : delta[b][f] = wcache.obj => Outdated(b)

\* What was checked for a branch that is frozen now is known to be late.
LateInv ==
    /\ worker # "idle" /\ Head(queue).branch \in frozen => worker = "late"
    /\ \A o \in other : o.branch \in frozen => o.late
    /\ Emptying /\ BranchOf(pending.path) \in frozen => BranchOf(pending.path) \in pending.raced

FrozenInv == DescriptorInv /\ LateInv

\* The descriptor that the read under way will use: what it holds was to be
\* seen, and whoever may still write to it writes to the file that is read.
ServeInv ==
    /\ pending.op = "write" => rcache.ino # pending.ino
    /\ pending.op = "read" /\ Cached(rcache, pending.ino, pending.epoch) /\ risk = {} =>
          /\ data[rcache.obj] \in pending.seen
          /\ \A p \in InoPath, b, c \in Branch, g \in File :
                inoPath[pending.ino] = p /\ BranchOf(p) = b /\ delta[c][g] = rcache.obj
                    => Resolve(b, p.file) = rcache.obj

\* Types: what every behaviour keeps, and the rest of the proof rests on.
TypeInv ==
    /\ StoreInv /\ TableInv /\ PendingInv /\ OpenedInv /\ QueueInv
    /\ CacheInv(rcache) /\ CacheInv(wcache)

IInv ==
    /\ MountInv /\ InodesInverse /\ TypeInv
    /\ SeenInv /\ ReadInv /\ WriteInv /\ FrozenInv /\ ServeInv

----------------------------------------------------------------------------
(* What the manager's operations do to the store                           *)

\* A write to an object changes that object.
LEMMA Overwritten ==
    ASSUME StoreInv, NEW o \in 1..Len(data), NEW n \in Nat,
           data' = [data EXCEPT ![o] = n], UNCHANGED <<delta, base>>
    PROVE  /\ StoreInv' /\ Len(data') = Len(data) /\ data'[o] = n
           /\ \A x \in 1..Len(data) : x # o => data'[x] = data[x]
<1>1. data' \in Seq(Nat) /\ Len(data') = Len(data) /\ data'[o] = n
         /\ \A x \in 1..Len(data) : x # o => data'[x] = data[x]
  BY DEF StoreInv
<1> QED BY <1>1 DEF StoreInv, HasDelta

\* A copy-up makes an object that no place has.
LEMMA Added ==
    ASSUME StoreInv, NEW b \in Branch, NEW f \in File, NEW n \in Nat, ~HasDelta(b, f),
           data' = Append(data, n), delta' = [delta EXCEPT ![b][f] = Len(data) + 1],
           UNCHANGED base
    PROVE  /\ StoreInv' /\ Len(data') = Len(data) + 1
           /\ delta'[b][f] = Len(data) + 1 /\ data'[Len(data) + 1] = n
           /\ \A c \in Branch, g \in File : c # b \/ g # f => delta'[c][g] = delta[c][g]
           /\ \A x \in 1..Len(data) : data'[x] = data[x]
<1>1. data' \in Seq(Nat) /\ Len(data') = Len(data) + 1 /\ data'[Len(data) + 1] = n
         /\ \A x \in 1..Len(data) : data'[x] = data[x]
  BY DEF StoreInv
<1>2. Len(data) \in Nat
  BY DEF StoreInv
<1>3. delta'[b][f] = Len(data) + 1
         /\ \A c \in Branch, g \in File : c # b \/ g # f => delta'[c][g] = delta[c][g]
  BY DEF StoreInv
<1>4. delta' \in [Branch -> [File -> Inherit..Len(data')]]
  BY <1>1, <1>2 DEF StoreInv, Inherit
<1>5. base' \in [File -> Gone..Len(data')]
  BY <1>1, <1>2 DEF StoreInv, Gone
<1>6. ASSUME NEW c \in Branch, NEW d \in Branch, NEW g \in File, NEW h \in File,
             HasDelta(c, g)', delta'[c][g] = delta'[d][h]
      PROVE  c = d /\ g = h
  BY <1>2, <1>3, <1>6 DEF StoreInv, HasDelta, Inherit, Gone
<1>7. ASSUME NEW c \in Branch, NEW g \in File, NEW h \in File, HasDelta(c, g)'
      PROVE  base'[h] # delta'[c][g]
  BY <1>2, <1>3, <1>7 DEF StoreInv, HasDelta, Inherit, Gone
<1>8. StoreInv'
  BY <1>1, <1>4, <1>5, <1>6, <1>7 DEF StoreInv
<1> QED BY <1>1, <1>3, <1>8

\* ensure_delta_path_for_write and the write.
LEMMA PutKeeps ==
    ASSUME StoreInv, NEW b \in Branch, NEW f \in File, NEW n \in Nat,
           PutInDelta(b, f, n), UNCHANGED base
    PROVE  /\ StoreInv' /\ Len(data') >= Len(data)
           /\ delta'[b][f] \in 1..Len(data') /\ data'[delta'[b][f]] = n
           /\ \A c \in Branch, g \in File : c # b \/ g # f => delta'[c][g] = delta[c][g]
           /\ \A x \in 1..Len(data) : x # delta[b][f] => data'[x] = data[x]
           /\ HasDelta(b, f) => delta' = delta
           /\ ~HasDelta(b, f) => /\ \A x \in 1..Len(data) : data'[x] = data[x]
                                 /\ delta'[b][f] > Len(data)
<1>0. Len(data) \in Nat /\ delta[b][f] \in Inherit..Len(data)
  BY DEF StoreInv
<1>1. CASE HasDelta(b, f)
  <2>1. delta[b][f] \in 1..Len(data)
    BY <1>0, <1>1 DEF HasDelta, Gone, Inherit
  <2>2. data' = [data EXCEPT ![delta[b][f]] = n] /\ UNCHANGED <<delta, base>>
    BY <1>1 DEF PutInDelta
  <2>3. /\ StoreInv' /\ Len(data') = Len(data) /\ data'[delta[b][f]] = n
        /\ \A x \in 1..Len(data) : x # delta[b][f] => data'[x] = data[x]
    BY <2>1, <2>2, Overwritten
  <2> QED BY <1>0, <1>1, <2>1, <2>2, <2>3
<1>2. CASE ~HasDelta(b, f)
  <2>1. /\ data' = Append(data, n)
        /\ delta' = [delta EXCEPT ![b][f] = Len(data) + 1]
    BY <1>2 DEF PutInDelta
  <2>2. /\ StoreInv' /\ Len(data') = Len(data) + 1
        /\ delta'[b][f] = Len(data) + 1 /\ data'[Len(data) + 1] = n
        /\ \A c \in Branch, g \in File : c # b \/ g # f => delta'[c][g] = delta[c][g]
        /\ \A x \in 1..Len(data) : data'[x] = data[x]
    BY <1>2, <2>1, Added
  <2> QED BY <1>0, <1>2, <2>2
<1> QED BY <1>1, <1>2

\* A place is emptied: a deletion, or a revert.
LEMMA DropKeeps ==
    ASSUME StoreInv, NEW b \in Branch, NEW f \in File, NEW x \in {Gone, Inherit},
           delta' = [delta EXCEPT ![b][f] = x], UNCHANGED <<base, data>>
    PROVE  /\ StoreInv' /\ delta'[b][f] = x
           /\ \A c \in Branch, g \in File : c # b \/ g # f => delta'[c][g] = delta[c][g]
<1>2. Len(data) \in Nat
  BY DEF StoreInv
<1>3. delta'[b][f] = x
         /\ \A c \in Branch, g \in File : c # b \/ g # f => delta'[c][g] = delta[c][g]
  BY DEF StoreInv
<1>4. delta' \in [Branch -> [File -> Inherit..Len(data')]]
  BY <1>2 DEF StoreInv, Inherit, Gone
<1>6. ASSUME NEW c \in Branch, NEW d \in Branch, NEW g \in File, NEW h \in File,
             HasDelta(c, g)', delta'[c][g] = delta'[d][h]
      PROVE  c = d /\ g = h
  BY <1>3, <1>6 DEF StoreInv, HasDelta, Inherit, Gone
<1>7. ASSUME NEW c \in Branch, NEW g \in File, NEW h \in File, HasDelta(c, g)'
      PROVE  base'[h] # delta'[c][g]
  BY <1>3, <1>7 DEF StoreInv, HasDelta, Inherit, Gone
<1> QED BY <1>3, <1>4, <1>6, <1>7 DEF StoreInv

\* delete_path_in_branch
LEMMA DropFromKeeps ==
    ASSUME StoreInv, NEW b \in Branch, NEW f \in File, DropFromDelta(b, f), UNCHANGED base
    PROVE  /\ StoreInv' /\ UNCHANGED data /\ delta'[b][f] <= Gone
           /\ \A c \in Branch, g \in File : c # b \/ g # f => delta'[c][g] = delta[c][g]
<1> DEFINE x == IF Inherited(b, f) = Gone THEN Inherit ELSE Gone
<1>1. delta' = [delta EXCEPT ![b][f] = x] /\ UNCHANGED data
  BY DEF DropFromDelta, StoreInv
<1>2. x \in {Gone, Inherit} /\ x <= Gone
  BY DEF Gone, Inherit
<1> HIDE DEF x
<1> QED BY <1>1, <1>2, DropKeeps

\* The delta of a branch goes.
LEMMA AbortKeeps ==
    ASSUME StoreInv, NEW b \in Branch,
           delta' = [delta EXCEPT ![b] = NoDelta], UNCHANGED <<base, data>>
    PROVE  /\ StoreInv' /\ \A g \in File : delta'[b][g] = Inherit
           /\ \A c \in Branch \ {b} : delta'[c] = delta[c]
<1>2. Len(data) \in Nat
  BY DEF StoreInv
<1>3. /\ \A g \in File : delta'[b][g] = Inherit
      /\ \A c \in Branch \ {b} : delta'[c] = delta[c]
  BY DEF StoreInv, NoDelta
<1>4. delta' \in [Branch -> [File -> Inherit..Len(data')]]
  BY <1>2 DEF StoreInv, Inherit, NoDelta
<1>6. ASSUME NEW c \in Branch, NEW d \in Branch, NEW g \in File, NEW h \in File,
             HasDelta(c, g)', delta'[c][g] = delta'[d][h]
      PROVE  c = d /\ g = h
  BY <1>3, <1>6 DEF StoreInv, HasDelta, Inherit, Gone
<1>7. ASSUME NEW c \in Branch, NEW g \in File, NEW h \in File, HasDelta(c, g)'
      PROVE  base'[h] # delta'[c][g]
  BY <1>3, <1>7 DEF StoreInv, HasDelta, Inherit, Gone
<1> QED BY <1>3, <1>4, <1>6, <1>7 DEF StoreInv

\* Counting the members of a finite set of numbers from below numbers them
\* from 1 without gaps.
LEMMA Numbering ==
    ASSUME NEW S, IsFiniteSet(S), NEW d \in [S -> Int], NEW L \in [S -> SUBSET S],
           \A f, g \in S : d[f] = d[g] => f = g,
           \A f, g \in S : g \in L[f] <=> d[g] <= d[f]
    PROVE  /\ Cardinality(S) \in Nat
           /\ \A f \in S : Cardinality(L[f]) \in 1..Cardinality(S)
           /\ \A i \in 1..Cardinality(S) : \E f \in S : Cardinality(L[f]) = i
<1> DEFINE Low(f) == L[f]
           N == [f \in S |-> Cardinality(Low(f))]
           T == 1..Cardinality(S)
<1>1. Cardinality(S) \in Nat
  BY FS_CardinalityType
<1>2. \A f \in S : IsFiniteSet(Low(f)) /\ Low(f) \in SUBSET S /\ f \in Low(f)
  BY FS_Subset
<1>3. \A f \in S : Cardinality(Low(f)) \in T
  <2> SUFFICES ASSUME NEW f \in S PROVE Cardinality(Low(f)) \in T
    OBVIOUS
  <2>1. IsFiniteSet(Low(f)) /\ Low(f) \in SUBSET S /\ f \in Low(f)
    BY <1>2
  <2> HIDE DEF Low
  <2>2. Cardinality(Low(f)) \in Nat /\ Cardinality(Low(f)) <= Cardinality(S)
    BY <2>1, FS_CardinalityType, FS_Subset
  <2>3. Cardinality(Low(f)) # 0
    BY <2>1, FS_EmptySet
  <2> QED BY <1>1, <2>2, <2>3
<1>4. ASSUME NEW f \in S, NEW g \in S, d[f] < d[g]
      PROVE  Cardinality(Low(f)) # Cardinality(Low(g))
  <2>1. Low(f) \in SUBSET Low(g) /\ g \in Low(g) /\ g \notin Low(f)
    BY <1>4
  <2>2. IsFiniteSet(Low(g))
    BY <1>2
  <2> HIDE DEF Low
  <2> QED BY <2>1, <2>2, FS_Subset
<1>5. ASSUME NEW f \in S, NEW g \in S, N[f] = N[g]
      PROVE  f = g
  <2>1. Cardinality(Low(f)) = Cardinality(Low(g))
    BY <1>5
  <2>2. d[f] \in Int /\ d[g] \in Int
    OBVIOUS
  <2>3. ~(d[f] < d[g]) /\ ~(d[g] < d[f])
    BY <2>1, <1>4
  <2> QED BY <2>2, <2>3
<1>6. N \in Injection(S, T)
  BY <1>3, <1>5 DEF Injection, IsInjective
<1>7. IsFiniteSet(T) /\ Cardinality(T) = Cardinality(S)
  BY <1>1, FS_Interval
<1>8. N \in Surjection(S, T)
  BY <1>6, <1>7, FS_Injection
<1>9. \A i \in T : \E f \in S : Cardinality(Low(f)) = i
  BY <1>8 DEF Surjection
<1> QED BY <1>1, <1>3, <1>9

\* What is put at the end of the store leaves the rest alone.
LEMMA Joined ==
    ASSUME NEW s \in Seq(Nat), NEW t \in Seq(Nat)
    PROVE  /\ s \o t \in Seq(Nat) /\ Len(s \o t) = Len(s) + Len(t)
           /\ \A x \in 1..Len(s) : (s \o t)[x] = s[x]
  OBVIOUS

\* commit copies the delta to new objects of the base; every other place
\* keeps its object or loses it.
LEMMA CommitKeeps ==
    ASSUME StoreInv, NEW b \in Branch, Commit(b)
    PROVE  /\ StoreInv' /\ Len(data') >= Len(data)
           /\ \A x \in 1..Len(data) : data'[x] = data[x]
           /\ \A c \in Branch, g \in File : delta'[c][g] \in {delta[c][g], Inherit}
           /\ \A c \in Branch \ {b, Main} : delta'[c] = delta[c]
<1> DEFINE copied == {f \in File : HasDelta(b, f)}
           Nth(f) == Cardinality({g \in copied : delta[b][g] <= delta[b][f]})
           From(i) == CHOOSE f \in copied : Nth(f) = i
           n == Cardinality(copied)
           new == [i \in 1..n |-> data[delta[b][From(i)]]]
<1>1. /\ b # Main
      /\ data' = data \o new
      /\ base' = [f \in File |-> IF f \in copied THEN Len(data) + Nth(f)
                                 ELSE IF delta[b][f] = Gone THEN Gone ELSE base[f]]
      /\ delta' = [delta EXCEPT
                      ![b] = NoDelta,
                      ![Main] = [f \in File |-> IF delta[b][f] # Inherit /\ @[f] > Gone
                                                THEN Inherit ELSE @[f]]]
  BY DEF Commit
<1>2. \A f \in copied : delta[b][f] \in 1..Len(data) /\ data[delta[b][f]] \in Nat
  BY DEF StoreInv, HasDelta, Gone, Inherit
<1>3. n \in Nat /\ (\A f \in copied : Nth(f) \in 1..n)
         /\ \A i \in 1..n : \E f \in copied : Nth(f) = i
  <2> DEFINE d == [f \in copied |-> delta[b][f]]
  <2>1. IsFiniteSet(copied)
    BY FileAssumption, FS_Subset
  <2>2. d \in [copied -> Int]
    BY <1>2
  <2>3. \A f, g \in copied : d[f] = d[g] => f = g
    BY DEF StoreInv
  <2> DEFINE L == [f \in copied |-> {g \in copied : delta[b][g] <= delta[b][f]}]
  <2>4. L \in [copied -> SUBSET copied] /\ \A f, g \in copied : g \in L[f] <=> d[g] <= d[f]
    OBVIOUS
  <2>5. \A f \in copied : Nth(f) = Cardinality(L[f])
    OBVIOUS
  <2> HIDE DEF copied, d, L, Nth
  <2> QED BY <2>1, <2>2, <2>3, <2>4, <2>5, Numbering
<1>4. new \in Seq(Nat) /\ Len(new) = n
  <2>1. \A i \in 1..n : From(i) \in copied
    BY <1>3
  <2>2. \A i \in 1..n : data[delta[b][From(i)]] \in Nat
    BY <2>1, <1>2
  <2> HIDE DEF copied, From
  <2> QED BY <2>2, <1>3
<1> HIDE DEF copied, Nth, From, n, new
<1>5. /\ data' \in Seq(Nat) /\ Len(data') = Len(data) + n /\ Len(data) \in Nat
      /\ \A x \in 1..Len(data) : data'[x] = data[x]
  <2>1. data \in Seq(Nat) /\ Len(data) \in Nat
    BY DEF StoreInv
  <2>2. data' = data \o new
    BY <1>1
  <2> QED BY <1>4, <2>1, <2>2, Joined
<1>6. /\ \A c \in Branch, g \in File : delta'[c][g] \in {delta[c][g], Inherit}
      /\ \A c \in Branch \ {b, Main} : delta'[c] = delta[c]
      /\ \A g \in File : delta'[b][g] = Inherit
  BY <1>1, BranchAssumption DEF StoreInv, NoDelta
<1>7. delta' \in [Branch -> [File -> Inherit..Len(data')]]
  <2>1. [f \in File |-> IF delta[b][f] # Inherit /\ delta[Main][f] > Gone
                        THEN Inherit ELSE delta[Main][f]] \in [File -> Inherit..Len(data')]
    BY <1>3, <1>5, BranchAssumption DEF StoreInv, Inherit
  <2>2. NoDelta \in [File -> Inherit..Len(data')]
    BY <1>3, <1>5 DEF NoDelta, Inherit
  <2>3. \A c \in Branch : delta[c] \in [File -> Inherit..Len(data')]
    BY <1>3, <1>5 DEF StoreInv, Inherit
  <2>4. \A c \in Branch : delta'[c] \in [File -> Inherit..Len(data')]
    BY <1>1, <2>1, <2>2, <2>3, BranchAssumption DEF StoreInv
  <2>5. DOMAIN delta' = Branch /\ delta' = [c \in Branch |-> delta'[c]]
    BY <1>1 DEF StoreInv
  <2> QED BY <2>4, <2>5
<1>8. /\ base' \in [File -> Gone..Len(data')]
      /\ \A g \in File : base'[g] > Len(data) \/ base'[g] = Gone \/ base'[g] = base[g]
  BY <1>1, <1>3, <1>5 DEF StoreInv, Gone
<1>9. ASSUME NEW c \in Branch, NEW d \in Branch, NEW g \in File, NEW h \in File,
             HasDelta(c, g)', delta'[c][g] = delta'[d][h]
      PROVE  c = d /\ g = h
  <2>1. HasDelta(c, g) /\ delta[c][g] = delta[d][h]
    BY <1>6, <1>9 DEF HasDelta, Inherit, Gone
  <2> QED BY <2>1 DEF StoreInv
<1>10. ASSUME NEW c \in Branch, NEW g \in File, NEW h \in File, HasDelta(c, g)'
       PROVE  base'[h] # delta'[c][g]
  <2>1. HasDelta(c, g) /\ delta'[c][g] = delta[c][g]
    BY <1>6, <1>10 DEF HasDelta, Inherit, Gone
  <2>2. base[h] # delta[c][g]
    BY <2>1 DEF StoreInv
  <2>3. delta[c][g] # Gone /\ ~(delta[c][g] > Len(data))
    BY <2>1, <1>5 DEF StoreInv, HasDelta, Inherit, Gone
  <2> QED BY <2>1, <2>2, <2>3, <1>8
<1>11. StoreInv'
  BY <1>5, <1>7, <1>8, <1>9, <1>10 DEF StoreInv
<1> QED BY <1>3, <1>5, <1>6, <1>11

\* A write or a deletion of f in b leaves every other place and every other
\* object alone.
FileStep(b, f) ==
    /\ StoreInv' /\ Len(data') >= Len(data) /\ UNCHANGED base
    /\ \A c \in Branch, g \in File : c # b \/ g # f => delta'[c][g] = delta[c][g]
    /\ \A x \in 1..Len(data) : x # delta[b][f] => data'[x] = data[x]
    /\ delta' = delta \/ \A x \in 1..Len(data) : data'[x] = data[x]
    /\ delta' = delta \/ delta'[b][f] <= Gone \/ delta'[b][f] > Len(data)

\* Putting an object into a delta is a step on that file.
LEMMA PutIsFileStep ==
    ASSUME StoreInv, NEW b \in Branch, NEW f \in File, NEW n \in Nat,
           PutInDelta(b, f, n), UNCHANGED base
    PROVE  FileStep(b, f)
  BY PutKeeps DEF FileStep

\* Removing a file from a delta is a step on that file.
LEMMA DropIsFileStep ==
    ASSUME StoreInv, NEW b \in Branch, NEW f \in File, DropFromDelta(b, f), UNCHANGED base
    PROVE  FileStep(b, f)
<1>1. Len(data) \in Nat
  BY DEF StoreInv
<1> QED BY <1>1, DropFromKeeps DEF FileStep

\* An operation on a branch makes no place of a delta anew, and takes none of
\* a branch that stays frozen; only an abort, and the first half of freeze and
\* thaw, keep the epoch.
BranchStep(b) ==
    /\ StoreInv' /\ Len(data') >= Len(data)
    /\ \A x \in 1..Len(data) : data'[x] = data[x]
    /\ \A c \in Branch, g \in File : delta'[c][g] \in {delta[c][g], Inherit}
    /\ \A c \in frozen \intersect frozen', g \in File : delta'[c][g] = delta[c][g]
    /\ alive' \subseteq Branch /\ Main \in alive' /\ frozen' \subseteq alive' \ {Main}
    /\ setting' \subseteq alive'
    /\ \/ epoch' = epoch + 1
       \/ epoch' = epoch /\ UNCHANGED <<alive, base, delta>>
       \/ /\ epoch' = epoch /\ b # Main /\ alive' = alive \ {b} /\ frozen' = frozen \ {b}
          /\ UNCHANGED base
          /\ \A c \in Branch \ {b} : delta'[c] = delta[c]

\* The operations of the manager.
Operation(b) ==
    \/ Create(b) \/ Commit(b) \/ Abort(b) \/ Freeze(b) \/ Thaw(b) \/ StateSet(b)
    \/ \E f \in File : Revert(b, f)

\* Every operation of the manager is a step on its branch.
LEMMA OperationIsBranchStep ==
    ASSUME StoreInv, TableInv, NEW b \in Branch,
           Operation(b)
    PROVE  BranchStep(b)
<1>0. Len(data) \in Nat
  BY DEF StoreInv
<1>1. CASE Create(b)
  BY <1>0, <1>1 DEF Create, BranchStep, StoreInv, HasDelta, TableInv
<1>2. CASE Commit(b)
  <2>1. /\ alive' = alive \ {b} /\ frozen' = frozen \ {b} /\ epoch' = epoch + 1
        /\ b # Main /\ setting' = {}
    BY <1>2 DEF Commit, TableFree
  <2> QED BY <1>2, <2>1, CommitKeeps DEF BranchStep, TableInv
<1>3. CASE Abort(b)
  <2>1. /\ b # Main /\ alive' = alive \ {b} /\ frozen' = frozen \ {b}
        /\ delta' = [delta EXCEPT ![b] = NoDelta] /\ UNCHANGED <<base, epoch, data>>
        /\ setting' = {}
    BY <1>3 DEF Abort, TableFree
  <2>2. /\ StoreInv' /\ \A g \in File : delta'[b][g] = Inherit
        /\ \A c \in Branch \ {b} : delta'[c] = delta[c]
    BY <2>1, AbortKeeps
  <2>3. \A c \in Branch, g \in File : delta'[c][g] \in {delta[c][g], Inherit}
    BY <2>2
  <2>4. \A c \in frozen \intersect frozen', g \in File : delta'[c][g] = delta[c][g]
    BY <2>1, <2>2 DEF TableInv
  <2> QED BY <1>0, <2>1, <2>2, <2>3, <2>4 DEF BranchStep, TableInv
<1>4. CASE Freeze(b)
  BY <1>0, <1>4 DEF Freeze, BranchStep, StoreInv, HasDelta, TableInv
<1>5. CASE Thaw(b)
  BY <1>0, <1>5 DEF Thaw, BranchStep, StoreInv, HasDelta, TableInv
<1>7. CASE StateSet(b)
  BY <1>0, <1>7 DEF StateSet, BranchStep, StoreInv, HasDelta, TableInv
<1>6. ASSUME NEW f \in File, Revert(b, f) PROVE BranchStep(b)
  <2>1. /\ b \notin frozen /\ delta' = [delta EXCEPT ![b][f] = Inherit]
        /\ UNCHANGED <<alive, frozen, base, data, setting>> /\ epoch' = epoch + 1
    BY <1>6 DEF Revert, Writable
  <2>2. /\ StoreInv' /\ delta'[b][f] = Inherit
        /\ \A c \in Branch, g \in File : c # b \/ g # f => delta'[c][g] = delta[c][g]
    BY <2>1, DropKeeps
  <2> QED BY <1>0, <2>1, <2>2 DEF BranchStep, TableInv
<1> QED BY <1>1, <1>2, <1>3, <1>4, <1>5, <1>6, <1>7 DEF Operation

----------------------------------------------------------------------------
(* The types                                                               *)

\* Descriptors that are kept or dropped, while the counters grow.
LEMMA CachesKept ==
    ASSUME TypeInv, epoch' \in Nat, epoch' >= epoch, Len(data') >= Len(data),
           Len(data') \in Nat, nextIno \in Nat, nextIno' \in Nat, nextIno' >= nextIno,
           \/ pending' = NoReq \/ pending'.epoch = epoch'
           \/ pending # NoReq /\ pending'.epoch = pending.epoch
    PROVE  /\ rcache' \in {rcache, NoCache} => CacheInv(rcache)'
           /\ wcache' \in {wcache, NoCache} => CacheInv(wcache)'
<1>1. Len(data) \in Nat /\ epoch \in Nat /\ pending.epoch \in Nat
  BY DEF TypeInv, StoreInv, TableInv, PendingInv, PendingOf
<1>2. ASSUME NEW c \in {rcache, NoCache}
      PROVE  /\ c \in Cache /\ c.epoch <= epoch' /\ c.obj <= Len(data')
             /\ c.obj # Gone => c.ino < nextIno' /\ c.ino # RootIno
             /\ pending' # NoReq => c.epoch <= pending'.epoch
  BY <1>1 DEF TypeInv, CacheInv, Cache, NoCache, Gone
<1>3. ASSUME NEW c \in {wcache, NoCache}
      PROVE  /\ c \in Cache /\ c.epoch <= epoch' /\ c.obj <= Len(data')
             /\ c.obj # Gone => c.ino < nextIno' /\ c.ino # RootIno
             /\ pending' # NoReq => c.epoch <= pending'.epoch
  BY <1>1 DEF TypeInv, CacheInv, Cache, NoCache, Gone
<1> QED BY <1>2, <1>3 DEF CacheInv

\* A request ends, or none is under way.
LEMMA NoneUnderWay ==
    ASSUME pending' = NoReq, epoch' \in Nat
    PROVE  PendingInv' /\ OpenedInv'
  BY PathAssumption DEF PendingInv, PendingOf, NoReq, Serving, Emptying, OpenedInv

\* The worker, the clients and other mounts act while a request is under way.
LEMMA MeanwhileTypes ==
    ASSUME PendingInv, NEW B \in SUBSET Branch, Meanwhile(B), UNCHANGED mounted,
           epoch \in Nat, epoch' \in Nat, epoch' >= epoch,
           B = {} => epoch' = epoch /\ alive' = alive,
           nextIno \in Nat, nextIno' \in Nat, nextIno' >= nextIno,
           \A i \in DOMAIN inoPath' :
              IF i \in DOMAIN inoPath THEN inoPath'[i] = inoPath[i] ELSE i >= nextIno
    PROVE  /\ PendingInv' /\ pending'.epoch = pending.epoch
           /\ pending'.ino = pending.ino /\ pending'.op = pending.op
           /\ pending'.path = pending.path
           /\ pending = NoReq => pending' = NoReq
           /\ pending # NoReq => /\ pending' # NoReq
                                 /\ pending.seen \subseteq pending'.seen
                                 /\ Visible(pending.ino)' \subseteq pending'.seen
                                 /\ pending'.raced = pending.raced \union B
<1>1. CASE pending = NoReq
  <2>1. pending' = NoReq
    BY <1>1 DEF Meanwhile
  <2> QED BY <1>1, <2>1, NoneUnderWay
<1>2. CASE pending # NoReq
  <2> DEFINE S == UNION {Visible(i)' : i \in {pending.ino}}
  <2>1. pending' = [pending EXCEPT !.seen = @ \union S, !.raced = @ \union B]
    BY <1>2 DEF Meanwhile
  <2>2. pending \in PendingOf(pending.seen) /\ pending.op # "none"
    BY <1>2 DEF PendingInv
  <2> HIDE DEF S
  <2>3. /\ pending' \in PendingOf(pending'.seen)
        /\ pending'.op = pending.op /\ pending'.ino = pending.ino
        /\ pending'.path = pending.path
        /\ pending'.epoch = pending.epoch /\ pending'.seen = pending.seen \union S
        /\ pending'.raced = pending.raced \union B
    BY <2>1, <2>2 DEF PendingOf
  <2>4. S = Visible(pending.ino)'
    <3>1. PICK i : i = pending.ino
      OBVIOUS
    <3>2. S = Visible(i)'
      BY <3>1 DEF S
    <3> QED BY <3>1, <3>2, <2>3 DEF Visible
  <2>5. pending' # NoReq
    BY <2>2, <2>3 DEF NoReq
  <2>6. PendingInv'
    BY <2>2, <2>3, <2>5, <1>2 DEF PendingInv, PendingOf, Serving, Emptying
  <2> QED BY <1>2, <2>3, <2>4, <2>5, <2>6
<1> QED BY <1>1, <1>2

\* What a step has to show of itself to keep the types.
StepTypes ==
    /\ InodesInverse' /\ nextIno' >= nextIno
    /\ StoreInv' /\ Len(data') >= Len(data)
    /\ alive' \subseteq Branch /\ Main \in alive' /\ frozen' \subseteq alive' \ {Main}
    /\ epoch' \in {epoch, epoch + 1} /\ curEpoch' \in {curEpoch, epoch, epoch'}
    /\ setting' \subseteq alive' /\ other' \subseteq Other
    /\ reply' \in Reply
    /\ QueueInv' /\ PendingInv' /\ OpenedInv'
    /\ \/ pending' = NoReq \/ pending'.epoch = epoch'
       \/ pending # NoReq /\ pending'.epoch = pending.epoch

\* A step with typed results, which keeps its caches or drops them, keeps the
\* types.
LEMMA TypesKept ==
    ASSUME TypeInv, InodesInverse, StepTypes,
           rcache' \in {rcache, NoCache}, wcache' \in {wcache, NoCache}
    PROVE  TypeInv'
<1>1. epoch \in Nat /\ curEpoch \in Nat /\ curEpoch <= epoch
  BY DEF TypeInv, TableInv
<1>2. epoch' \in Nat /\ epoch' >= epoch
  BY <1>1 DEF StepTypes
<1>3. TableInv'
  BY <1>1, <1>2 DEF StepTypes, TableInv
<1>4. Len(data') \in Nat /\ nextIno \in Nat /\ nextIno' \in Nat
  BY DEF StepTypes, StoreInv, InodesInverse
<1>5. CacheInv(rcache)' /\ CacheInv(wcache)'
  BY <1>2, <1>4, CachesKept DEF StepTypes
<1> QED BY <1>3, <1>5 DEF StepTypes, TypeInv

\* The same, for a step that makes a descriptor.
LEMMA NewCacheTypes ==
    ASSUME TypeInv, InodesInverse, StepTypes,
           \/ CacheInv(rcache)' /\ wcache' = wcache
           \/ CacheInv(wcache)' /\ rcache' = rcache
    PROVE  TypeInv'
<1>1. epoch \in Nat /\ curEpoch \in Nat /\ curEpoch <= epoch
  BY DEF TypeInv, TableInv
<1>2. epoch' \in Nat /\ epoch' >= epoch
  BY <1>1 DEF StepTypes
<1>3. TableInv'
  BY <1>1, <1>2 DEF StepTypes, TableInv
<1>4. Len(data') \in Nat /\ nextIno \in Nat /\ nextIno' \in Nat
  BY DEF StepTypes, StoreInv, InodesInverse
<1>5. CacheInv(rcache)' /\ CacheInv(wcache)'
  BY <1>2, <1>4, CachesKept DEF StepTypes
<1> QED BY <1>3, <1>5 DEF StepTypes, TypeInv

\* The number and the epoch of the request under way make a good descriptor.
LEMMA NewDescriptor ==
    ASSUME TypeInv, InodesInverse, pending.ino \in DOMAIN inoPath, pending.ino # RootIno,
           UNCHANGED <<epoch, nextIno>>, pending' = NoReq \/ pending'.epoch = pending.epoch,
           NEW o \in 1..Len(data), Len(data') >= Len(data), Len(data') \in Nat,
           NEW c, c = [ino |-> pending.ino, epoch |-> pending.epoch, obj |-> o]
    PROVE  CacheInv(c)'
  BY DEF TypeInv, PendingInv, PendingOf, CacheInv, Cache, InodesInverse, StoreInv, Gone

\* The table, the store and the requests are as they should be at the start.
LEMMA TypesStart == Init => TypeInv
<1> SUFFICES ASSUME Init PROVE TypeInv
  OBVIOUS
<1>1. Cardinality(File) \in Nat
  BY FileAssumption, FS_CardinalityType
<1>2. data \in Seq(Nat) /\ Len(data) = Cardinality(File)
  BY <1>1 DEF Init, Original
<1>3. base \in [File -> Gone..Len(data)]
  BY <1>1, <1>2 DEF Init, Gone
<1>4. delta \in [Branch -> [File -> Inherit..Len(data)]]
         /\ \A b \in Branch, f \in File : delta[b][f] = Inherit
  BY <1>1, <1>2 DEF Init, NoDelta, Inherit
<1>5. StoreInv
  BY <1>2, <1>3, <1>4 DEF StoreInv, HasDelta, Inherit, Gone
<1>6. TableInv
  BY BranchAssumption DEF Init, TableInv, NoReply, Reply, Empty
<1>7. PendingInv /\ QueueInv /\ OpenedInv
  BY PathAssumption
  DEF Init, PendingInv, PendingOf, NoReq, QueueInv, OpenedInv, Serving, Emptying
<1>8. CacheInv(rcache) /\ CacheInv(wcache)
  BY <1>1, <1>2 DEF Init, CacheInv, Cache, NoCache, Gone
<1> QED BY <1>5, <1>6, <1>7, <1>8 DEF TypeInv

\* What a file resolves to is an object or nothing.
LEMMA ResolveType ==
    ASSUME StoreInv, NEW b \in Branch, NEW f \in File
    PROVE  Resolve(b, f) \in Gone..Len(data)
  BY BranchAssumption DEF StoreInv, Resolve, Inherited, Gone, Inherit

\* A number that is known is of a file or of a directory.
LEMMA KnownPath ==
    ASSUME InodesInverse, NEW i \in DOMAIN inoPath
    PROVE  /\ inoPath[i] \in InoPath
           /\ inoPath[i].file # Top => inoPath[i].file \in File
  BY PathAssumption DEF InodesInverse

\* The table of numbers, in every step of the mount.
LEMMA NumbersStep ==
    ASSUME MountInv, InodesInverse, [Next]_vars
    PROVE  /\ MountInv' /\ InodesInverse' /\ nextIno' >= nextIno
           /\ \A i \in DOMAIN inoPath' :
                 IF i \in DOMAIN inoPath THEN inoPath'[i] = inoPath[i] ELSE i >= nextIno
<1>1. MountInv' /\ [InodeNext]_inodes
  BY MountStep
<1>2. InodesInverse' /\ (NumbersKept \/ UNCHANGED inodes)
  BY <1>1, InodeStepKeeps
<1>3. CASE NumbersKept
  BY <1>1, <1>2, <1>3 DEF NumbersKept
<1>4. CASE UNCHANGED inodes
  BY <1>1, <1>2, <1>4 DEF inodes, InodesInverse
<1> QED BY <1>2, <1>3, <1>4

\* The answers are well formed.
LEMMA ReplyType ==
    ASSUME NEW ok \in BOOLEAN, NEW id \in Nat, NEW d \in Nat, Answer(ok, id, d)
    PROVE  reply' \in Reply
  BY DEF Answer, Reply

\* A step without an answer leaves the empty reply.
LEMMA SilentType == Silent => reply' \in Reply
  BY DEF Silent, NoReply, Reply, Empty

\* The worker's queue, alone or with one job more or less.
LEMMA QueueFiles ==
    ASSUME MountInv, QueueInv
    PROVE  /\ UNCHANGED queue => QueueInv'
           /\ \A j \in Job : j.path.file \in File /\ queue' = Append(queue, j) => QueueInv'
           /\ queue # <<>> /\ queue' = Tail(queue) =>
                 QueueInv' /\ Head(queue).path.file \in File
<1>1. queue \in Seq(Job)
  BY DEF MountInv
<1>2. UNCHANGED queue => QueueInv'
  BY DEF QueueInv
<1>3. ASSUME NEW j \in Job, j.path.file \in File, queue' = Append(queue, j) PROVE QueueInv'
  BY <1>1, <1>3 DEF QueueInv
<1>4. ASSUME queue # <<>>, queue' = Tail(queue) PROVE QueueInv' /\ Head(queue).path.file \in File
  BY <1>1, <1>4 DEF QueueInv
<1> QED BY <1>2, <1>3, <1>4

\* A step that leaves the store and the branches alone.
LEMMA StoreAlone ==
    ASSUME TypeInv, UNCHANGED <<manager, other>>
    PROVE  /\ StoreInv' /\ Len(data') >= Len(data) /\ epoch' \in {epoch, epoch + 1}
           /\ UNCHANGED <<alive, frozen, base, delta, epoch, data, setting>>
           /\ setting' \subseteq alive' /\ other' \subseteq Other
           /\ alive' \subseteq Branch /\ Main \in alive' /\ frozen' \subseteq alive' \ {Main}
           /\ epoch' \in Nat
  BY DEF TypeInv, StoreInv, TableInv, HasDelta, manager

\* A request that names a path has its check behind it, or is refused.
LEMMA CheckedTypes ==
    ASSUME MountInv, TypeInv, NEW op \in {"create", "truncate"}, NEW p \in InoPath, p.file \in File,
           Checked(op, p), pending = NoReq, UNCHANGED epoch
    PROVE  /\ PendingInv' /\ OpenedInv' /\ reply' \in Reply
           /\ pending' = NoReq \/ pending'.epoch = epoch'
<1>1. epoch \in Nat /\ setting \subseteq Branch
  BY DEF TypeInv, TableInv
<1>2. req' \in Nat
  BY DEF Checked, MountInv
<1>3. CASE Writable(BranchOf(p))
  <2>1. /\ pending' = [op |-> op, ino |-> 0, path |-> p, epoch |-> epoch, seen |-> {},
                       raced |-> setting]
        /\ Silent
    BY <1>3 DEF Checked
  <2> QED BY <1>1, <2>1, SilentType
          DEF PendingInv, PendingOf, NoReq, OpenedInv, Serving, Emptying
<1>4. CASE ~Writable(BranchOf(p))
  <2>1. pending' = NoReq /\ Answer(FALSE, req', Empty)
    BY <1>4 DEF Checked
  <2> QED BY <1>1, <1>2, <2>1, NoneUnderWay, ReplyType DEF Empty
<1> QED BY <1>3, <1>4

\* The handlers that take a path keep the types.
LEMMA PathTypes ==
    ASSUME MountInv, InodesInverse, TypeInv, InodesInverse', nextIno' >= nextIno,
           NEW p \in InoPath, Lookup(p) \/ CreateFile(p) \/ Unlink(p)
    PROVE  TypeInv'
<1>00. QueueInv
  BY DEF TypeInv
<1>0. BranchOf(p) \in Branch /\ (p.file # Top => p.file \in File)
  BY BranchOfType, PathAssumption
<1>1. CASE Lookup(p)
  <2>1. /\ UNCHANGED <<manager, other, rcache, wcache>>
        /\ pending' = NoReq /\ curEpoch' \in {curEpoch, epoch} /\ Silent /\ UNCHANGED queue
    BY <1>1 DEF Lookup, jobs
  <2>2. StepTypes
    BY <2>1, QueueFiles, <1>00, StoreAlone, SilentType, NoneUnderWay DEF StepTypes
  <2> QED BY <2>1, <2>2, TypesKept
<1>2. CASE CreateFile(p)
  <2>1. /\ UNCHANGED <<manager, other, queue, rcache, wcache, curEpoch>> /\ p.file \in File
        /\ pending = NoReq /\ Checked("create", p)
    BY <1>0, <1>2 DEF CreateFile, jobs, mount
  <2>2. UNCHANGED epoch
    BY <2>1 DEF manager
  <2>3. StepTypes
    BY <1>00, <2>1, <2>2, CheckedTypes, StoreAlone, QueueFiles DEF StepTypes
  <2> QED BY <2>1, <2>3, TypesKept
<1>3. CASE Unlink(p)
  <2>1. /\ UNCHANGED <<manager, other, rcache, wcache, curEpoch>>
        /\ pending' = NoReq
        /\ Silent \/ Answer(FALSE, req', Empty)
    BY <1>3 DEF Unlink, mount
  <2>2. reply' \in Reply
    <3>1. req' \in Nat
      BY <1>3 DEF Unlink, MountInv
    <3> QED BY <2>1, <3>1, ReplyType, SilentType DEF Empty
  <2>3. QueueInv'
    <3>1. \/ UNCHANGED queue
          \/ queue' = Append(queue, [op |-> "delete", branch |-> BranchOf(p), path |-> p,
                                     id |-> req'])
      BY <1>3 DEF Unlink
    <3>2. [op |-> "delete", branch |-> BranchOf(p), path |-> p, id |-> req'] \in Job
             /\ p.file \in File
      BY <1>0, <1>3 DEF Unlink, MountInv, Job
    <3> QED BY <1>00, <3>1, <3>2, QueueFiles
  <2>4. StepTypes
    BY <2>1, <2>2, <2>3, StoreAlone, NoneUnderWay DEF StepTypes
  <2> QED BY <2>1, <2>4, TypesKept
<1> QED BY <1>1, <1>2, <1>3

\* The handlers that take an inode number keep the types.
LEMMA NumberTypes ==
    ASSUME MountInv, InodesInverse, TypeInv, InodesInverse', nextIno' >= nextIno,
           NEW i \in RootIno + 1 .. nextIno - 1,
           Begin("read", i) \/ Begin("write", i) \/ Truncate(i)
    PROVE  TypeInv'
<1>00. QueueInv
  BY DEF TypeInv
<1>0. i \in Nat /\ epoch \in Nat /\ i < nextIno
  BY DEF RootIno, InodesInverse, TypeInv, TableInv
<1>1. ASSUME NEW op \in {"read", "write"}, Begin(op, i) PROVE TypeInv'
  <2>1. /\ UNCHANGED <<manager, other, wcache, mounted>>
        /\ curEpoch' = epoch /\ rcache' \in {rcache, NoCache} /\ req' \in Nat
        /\ pending = NoReq /\ UNCHANGED <<queue, nextIno, inoPath>>
        /\ i \in DOMAIN inoPath => inoPath[i].file # Top
    BY <1>1 DEF Begin, MountInv, RefreshEpoch, InvalidateRead, inodes, jobs
  <2>2. CASE mounted \in alive
    <3>1. /\ pending' = [op |-> op, ino |-> i, path |-> RootPath, epoch |-> curEpoch',
                         seen |-> Visible(i), raced |-> setting]
          /\ Silent
      BY <1>1, <2>2 DEF Begin
    <3>2. PendingInv' /\ OpenedInv' /\ pending'.epoch = epoch'
      <4> DEFINE S == Visible(i)
      <4>1. pending' = [op |-> op, ino |-> i, path |-> RootPath, epoch |-> epoch, seen |-> S,
                        raced |-> setting]
        BY <3>1, <2>1
      <4>2. setting \subseteq Branch /\ epoch' = epoch /\ alive' = alive
        BY <2>1 DEF TypeInv, TableInv, manager
      <4> HIDE DEF S
      <4> QED BY <4>1, <4>2, <2>1, <2>2, <1>0, PathAssumption
              DEF PendingInv, PendingOf, NoReq, OpenedInv, Serving, Emptying
    <3>3. StepTypes
      BY <1>00, <2>1, <3>1, <3>2, StoreAlone, SilentType, QueueFiles DEF StepTypes
    <3> QED BY <2>1, <3>3, TypesKept
  <2>3. CASE mounted \notin alive
    <3>1. pending' = NoReq /\ Answer(FALSE, req', Empty)
      BY <1>1, <2>1, <2>3 DEF Begin
    <3>2. reply' \in Reply
      BY <2>1, <3>1, ReplyType DEF Empty
    <3>3. StepTypes
      BY <1>00, <2>1, <3>1, <3>2, StoreAlone, NoneUnderWay, QueueFiles DEF StepTypes
    <3> QED BY <2>1, <3>3, TypesKept
  <2> QED BY <2>2, <2>3
<1>2. CASE Truncate(i)
  <2>0. PICK p \in InoPath : p.file \in File /\ Checked("truncate", p)
    BY <1>2, KnownPath DEF Truncate
  <2>1. /\ UNCHANGED <<manager, other, queue, curEpoch>> /\ pending = NoReq
        /\ rcache' \in {rcache, NoCache} /\ wcache' \in {wcache, NoCache}
    BY <1>2 DEF Truncate, InvalidateRead, InvalidateWrite, jobs
  <2>2. UNCHANGED epoch
    BY <2>1 DEF manager
  <2>3. StepTypes
    BY <1>00, <2>0, <2>1, <2>2, CheckedTypes, StoreAlone, QueueFiles DEF StepTypes
  <2> QED BY <2>1, <2>3, TypesKept
<1> QED BY <1>1, <1>2

\* The descriptors that the fast paths use are of objects.
LEMMA CachedObject ==
    ASSUME TypeInv, NEW i, NEW e
    PROVE  /\ Cached(rcache, i, e) => rcache.obj \in 1..Len(data)
           /\ Cached(wcache, i, e) => wcache.obj \in 1..Len(data)
  BY DEF TypeInv, CacheInv, Cache, Cached, StoreInv, Gone

\* The second half of a request keeps the types: of a read, ...
LEMMA ReadTypes ==
    ASSUME MountInv, InodesInverse, TypeInv, InodesInverse', ReadCached \/ ReadOpen
    PROVE  TypeInv'
<1> DEFINE i == pending.ino
           p == inoPath[i]
           b == BranchOf(p)
<1>0. req \in Nat /\ Empty \in Nat /\ QueueInv
  BY DEF MountInv, Empty, TypeInv
<1>1. /\ Serve("read") /\ pending' = NoReq /\ UNCHANGED <<nextIno, pathIno, inoPath>>
      /\ pending # NoReq /\ Serving /\ UNCHANGED <<manager, other, wcache, queue>>
  <2>1. Serve("read") /\ UNCHANGED <<inodes, manager, wcache, queue>>
    BY DEF ReadCached, ReadOpen, Refuse
  <2>2. pending.op = "read" /\ pending' = NoReq /\ UNCHANGED other
    BY <2>1 DEF Serve
  <2>3. pending # NoReq /\ Serving
    BY <2>2 DEF NoReq, Serving
  <2> QED BY <2>1, <2>2, <2>3 DEF inodes
<1>2. nextIno' >= nextIno /\ data \in Seq(Nat) /\ Len(data) \in Nat
  BY <1>1 DEF InodesInverse, TypeInv, StoreInv
<1>3. ASSUME i \in DOMAIN inoPath
      PROVE  p \in InoPath /\ b \in Branch /\ p.file \in File
  <2>1. p.file # Top
    BY <1>1, <1>3 DEF TypeInv, PendingInv
  <2> QED BY <1>3, <2>1, KnownPath, BranchOfType
<1>4. CASE ReadCached
  <2>1. UNCHANGED <<rcache, curEpoch>> /\ Answer(TRUE, req, data[rcache.obj])
    BY <1>4 DEF ReadCached
  <2>2. data[rcache.obj] \in Nat
    BY <1>2, <1>4, CachedObject DEF ReadCached
  <2>3. reply' \in Reply
    BY <1>0, <2>1, <2>2, ReplyType
  <2>4. StepTypes
    BY <1>0, <1>1, <1>2, <2>1, <2>3, StoreAlone, QueueFiles, NoneUnderWay DEF StepTypes
  <2> QED BY <1>1, <2>1, <2>4, TypesKept
<1>5. CASE ReadOpen
  <2> DEFINE o == Resolve(b, p.file)
  <2>1. /\ curEpoch' \in {curEpoch, epoch}
        /\ \/ rcache' = rcache /\ Answer(FALSE, req, Empty)
           \/ /\ i \in DOMAIN inoPath /\ o # Gone /\ Answer(TRUE, req, data[o])
              /\ rcache' = [ino |-> i, epoch |-> pending.epoch, obj |-> o]
    BY <1>5 DEF ReadOpen, Refuse, RefreshEpoch
  <2>2. CASE rcache' = rcache /\ Answer(FALSE, req, Empty)
    <3>0. reply' \in Reply
      BY <1>0, <2>2, ReplyType
    <3>1. StepTypes
      BY <1>0, <1>1, <1>2, <2>1, <3>0, StoreAlone, QueueFiles, NoneUnderWay DEF StepTypes
    <3> QED BY <1>1, <2>2, <3>1, TypesKept
  <2>3. CASE /\ i \in DOMAIN inoPath /\ o # Gone /\ Answer(TRUE, req, data[o])
             /\ rcache' = [ino |-> i, epoch |-> pending.epoch, obj |-> o]
    <3>1. o \in 1..Len(data)
      BY <1>2, <1>3, <2>3, ResolveType DEF TypeInv, Gone
    <3> HIDE DEF o
    <3>2. reply' \in Reply
      <4>1. data[o] \in Nat
        BY <1>2, <3>1
      <4>2. Answer(TRUE, req, data[o])
        BY <2>3
      <4> QED BY <1>0, <4>1, <4>2, ReplyType
    <3>3. StepTypes
      BY <1>0, <1>1, <1>2, <2>1, <3>2, StoreAlone, QueueFiles, NoneUnderWay DEF StepTypes
    <3>4. CacheInv(rcache)'
      <4>1. PICK c : c = [ino |-> pending.ino, epoch |-> pending.epoch, obj |-> o]
        OBVIOUS
      <4>2. UNCHANGED <<epoch, nextIno>> /\ Len(data') >= Len(data) /\ Len(data') \in Nat
        BY <1>1, <1>2 DEF manager
      <4>3. CacheInv(c)'
        BY <1>1, <2>3, <3>1, <4>1, <4>2, NewDescriptor DEF MountInv
      <4> QED BY <2>3, <4>1, <4>3 DEF CacheInv
    <3> QED BY <1>1, <3>3, <3>4, NewCacheTypes
  <2> QED BY <2>1, <2>2, <2>3
<1> QED BY <1>4, <1>5

\* ... of a write to a descriptor, ...
LEMMA WriteTypes ==
    ASSUME MountInv, InodesInverse, TypeInv, InodesInverse', WriteCached \/ WriteOpened
    PROVE  TypeInv'
<1>0. req \in Nat /\ req + Original \in Nat /\ Empty \in Nat /\ QueueInv
  BY DEF MountInv, Original, Empty, TypeInv
<1>1. /\ pending' = NoReq /\ UNCHANGED <<nextIno, other, queue, alive, frozen, base, delta, epoch,
                                         setting, rcache, wcache>>
      /\ curEpoch' \in {curEpoch, epoch}
      /\ data' = [data EXCEPT ![wcache.obj] = req + Original]
      /\ Answer(TRUE, req, req + Original) \/ Answer(FALSE, req, Empty)
  BY DEF WriteCached, WriteOpened, Serve, inodes, RefreshEpoch
<1>2. Cached(wcache, pending.ino, pending.epoch)
  BY DEF WriteCached, WriteOpened, Serve, TypeInv, OpenedInv
<1>3. wcache.obj \in 1..Len(data)
  BY <1>2, CachedObject
<1>4. StoreInv' /\ Len(data') >= Len(data)
  <2>1. StoreInv /\ UNCHANGED <<delta, base>>
    BY <1>1 DEF TypeInv
  <2>2. StoreInv' /\ Len(data') = Len(data)
    BY <1>0, <1>1, <1>3, <2>1, Overwritten
  <2>3. Len(data) \in Nat
    BY <2>1 DEF StoreInv
  <2> QED BY <2>2, <2>3
<1>5. reply' \in Reply
  BY <1>0, <1>1, ReplyType
<1>6. nextIno' >= nextIno
  BY <1>1 DEF InodesInverse
<1>7. StepTypes
  BY <1>0, <1>1, <1>4, <1>5, <1>6, QueueFiles, NoneUnderWay DEF StepTypes, TypeInv, TableInv
<1> QED BY <1>1, <1>7, TypesKept

\* ... of create and setattr, ...
LEMMA EmptyTypes ==
    ASSUME MountInv, InodesInverse, TypeInv, InodesInverse', nextIno' >= nextIno,
           NEW op \in {"create", "truncate"}, EmptyFile(op)
    PROVE  TypeInv'
<1>0. req \in Nat /\ Empty \in Nat /\ QueueInv /\ StoreInv
  BY DEF MountInv, Empty, TypeInv
<1>1. /\ pending' = NoReq /\ UNCHANGED <<other, queue, alive, frozen, base, epoch, setting,
                                         rcache, wcache>>
      /\ curEpoch' \in {curEpoch, epoch} /\ Answer(TRUE, req, Empty)
      /\ PutInDelta(BranchOf(pending.path), pending.path.file, Empty) /\ Emptying
  BY DEF EmptyFile, Serve, RefreshEpoch, Emptying
<1>2. PICK b \in Branch, f \in File : b = BranchOf(pending.path) /\ f = pending.path.file
  BY <1>1, BranchOfType DEF MountInv, TypeInv, PendingInv
<1>3. StoreInv' /\ Len(data') >= Len(data)
  BY <1>0, <1>1, <1>2, PutKeeps
<1>4. reply' \in Reply
  BY <1>0, <1>1, ReplyType
<1>5. StepTypes
  BY <1>0, <1>1, <1>3, <1>4, QueueFiles, NoneUnderWay DEF StepTypes, TypeInv, TableInv
<1> QED BY <1>1, <1>5, TypesKept

\* ... and of a write that opens, queues or is refused.
LEMMA OpenTypes ==
    ASSUME MountInv, InodesInverse, TypeInv, InodesInverse', WriteOpen
    PROVE  TypeInv'
<1> DEFINE i == pending.ino
           p == inoPath[i]
           b == BranchOf(p)
<1>0. req \in Nat /\ Empty \in Nat /\ QueueInv
  BY DEF MountInv, Empty, TypeInv
<1>1. \/ Serve("write") /\ Refuse
      \/ /\ Serve("write") /\ i \in DOMAIN inoPath
         /\ queue' = Append(queue, [op |-> "write", branch |-> b, path |-> p, id |-> req])
         /\ Silent /\ UNCHANGED <<inodes, manager, rcache, wcache>>
      \/ /\ i \in DOMAIN inoPath /\ HasDelta(b, p.file)
         /\ wcache' = [ino |-> i, epoch |-> pending.epoch, obj |-> delta[b][p.file]]
         /\ pending' = [pending EXCEPT !.op = "opened", !.path = p]
         /\ Silent /\ UNCHANGED <<inodes, manager, mounted, rcache, jobs>>
  BY DEF WriteOpen
<1>2. /\ UNCHANGED <<curEpoch, nextIno, inoPath, manager, other>> /\ nextIno' >= nextIno
      /\ Serving /\ pending # NoReq /\ pending.op = "write"
  <2>1. UNCHANGED <<curEpoch, inodes, manager, other>> /\ pending.op = "write"
    BY <1>1 DEF WriteOpen, Serve, Refuse, jobs
  <2>2. pending # NoReq /\ Serving
    BY <2>1 DEF NoReq, Serving
  <2> QED BY <2>1, <2>2 DEF inodes, InodesInverse
<1>3. ASSUME i \in DOMAIN inoPath
      PROVE  p \in InoPath /\ b \in Branch /\ p.file \in File
  <2>1. p.file # Top
    BY <1>2, <1>3 DEF TypeInv, PendingInv
  <2> QED BY <1>3, <2>1, KnownPath, BranchOfType
<1>4. CASE Serve("write") /\ Refuse
  <2>1. /\ UNCHANGED <<rcache, wcache, queue>> /\ pending' = NoReq
        /\ Answer(FALSE, req, Empty)
    BY <1>4 DEF Refuse, Serve
  <2>2. reply' \in Reply
    BY <1>0, <2>1, ReplyType
  <2>3. StepTypes
    BY <1>0, <1>2, <2>1, <2>2, StoreAlone, QueueFiles, NoneUnderWay DEF StepTypes
  <2> QED BY <2>1, <2>3, TypesKept
<1>5. CASE /\ Serve("write") /\ i \in DOMAIN inoPath
           /\ queue' = Append(queue, [op |-> "write", branch |-> b, path |-> p, id |-> req])
           /\ Silent /\ UNCHANGED <<inodes, manager, rcache, wcache>>
  <2>1. [op |-> "write", branch |-> b, path |-> p, id |-> req] \in Job /\ p.file \in File
    BY <1>0, <1>3, <1>5 DEF Job
  <2>2. pending' = NoReq
    BY <1>5 DEF Serve
  <2> HIDE DEF p, b
  <2>3. QueueInv'
    BY <1>0, <1>5, <2>1, QueueFiles
  <2>4. StepTypes
    BY <1>2, <1>5, <2>2, <2>3, StoreAlone, SilentType, NoneUnderWay DEF StepTypes
  <2> QED BY <1>5, <2>4, TypesKept
<1>6. CASE /\ i \in DOMAIN inoPath /\ HasDelta(b, p.file)
           /\ wcache' = [ino |-> i, epoch |-> pending.epoch, obj |-> delta[b][p.file]]
           /\ pending' = [pending EXCEPT !.op = "opened", !.path = p]
           /\ Silent /\ UNCHANGED <<inodes, manager, mounted, rcache, jobs>>
  <2>1. p \in InoPath /\ b \in Branch /\ p.file \in File
    BY <1>3, <1>6
  <2> DEFINE o == delta[b][p.file]
  <2>2. o \in 1..Len(data)
    BY <1>6, <2>1 DEF TypeInv, StoreInv, HasDelta, Gone, Inherit
  <2>3. UNCHANGED <<epoch, mounted, alive, data, queue>> /\ Len(data') >= Len(data) /\ Len(data') \in Nat
    BY <1>2, <1>6 DEF manager, TypeInv, StoreInv, jobs
  <2> HIDE DEF o
  <2>4. wcache' = [ino |-> i, epoch |-> pending.epoch, obj |-> o]
    BY <1>6 DEF o
  <2> HIDE DEF p, b
  <2>5. /\ pending'.op = "opened" /\ pending'.ino = pending.ino /\ pending'.epoch = pending.epoch
        /\ pending'.raced = pending.raced /\ pending' \in PendingOf(pending'.seen)
    BY <1>6, <2>1 DEF TypeInv, PendingInv, PendingOf
  <2>6. PendingInv'
    BY <1>2, <2>3, <2>5 DEF TypeInv, PendingInv, PendingOf, Serving, Emptying, NoReq
  <2>7. OpenedInv'
    BY <2>2, <2>4, <2>5 DEF OpenedInv, Cached, Gone
  <2>8. StepTypes
    BY <1>0, <1>2, <1>6, <2>3, <2>5, <2>6, <2>7, StoreAlone, SilentType, QueueFiles DEF StepTypes
  <2>9. CacheInv(wcache)'
    <3>1. PICK c : c = [ino |-> pending.ino, epoch |-> pending.epoch, obj |-> o]
      OBVIOUS
    <3>2. wcache' = c
      BY <2>4, <3>1
    <3>3. CacheInv(c)'
      BY <1>2, <1>6, <2>2, <2>3, <2>5, <3>1, NewDescriptor DEF MountInv
    <3> QED BY <3>2, <3>3 DEF CacheInv
  <2> QED BY <1>6, <2>8, <2>9, NewCacheTypes
<1> QED BY <1>1, <1>4, <1>5, <1>6

\* All of them.
LEMMA ServiceTypes ==
    ASSUME MountInv, InodesInverse, TypeInv, InodesInverse', nextIno' >= nextIno,
           \/ ReadCached \/ ReadOpen \/ WriteCached \/ WriteOpen \/ WriteOpened
           \/ EmptyFile("create") \/ EmptyFile("truncate")
    PROVE  TypeInv'
  BY ReadTypes, WriteTypes, EmptyTypes, OpenTypes

\* The worker's second step is one on a file of the store.
LEMMA JobIsFileStep ==
    ASSUME MountInv, TypeInv, RunJob
    PROVE  LET j == Head(queue) IN
           /\ j \in Job /\ j.path.file \in File /\ queue # <<>> /\ queue' = Tail(queue)
           /\ worker # "idle" /\ worker' = "idle"
           /\ QueueInv' /\ UNCHANGED <<alive, frozen, base, epoch, setting, mounted, curEpoch, rcache,
                                       wcache, other, req, risk>>
           /\ Meanwhile({}) /\ reply' \in Reply
           /\ FileStep(j.branch, j.path.file)
<1> DEFINE j == Head(queue)
<1>1. /\ queue # <<>> /\ queue' = Tail(queue) /\ Meanwhile({})
      /\ worker # "idle" /\ worker' = "idle"
      /\ UNCHANGED <<alive, frozen, base, epoch, setting, mounted, curEpoch, rcache, wcache, other,
                     req, risk>>
  BY DEF RunJob, mount, MountInv
<1>2. j \in Job /\ j.path.file \in File /\ QueueInv'
  BY <1>1, QueueFiles, QueueShrinks DEF TypeInv
<1>3. j.branch \in Branch /\ j.id \in Nat /\ j.id + Original \in Nat /\ Empty \in Nat
  BY <1>2 DEF Job, Original, Empty
<1>4. \/ /\ PutInDelta(j.branch, j.path.file, j.id + Original)
         /\ Answer(TRUE, j.id, j.id + Original)
      \/ /\ DropFromDelta(j.branch, j.path.file)
         /\ Answer(TRUE, j.id, Empty)
  BY DEF RunJob
<1> HIDE DEF j
<1>5. reply' \in Reply
  BY <1>3, <1>4, ReplyType
<1>6. FileStep(j.branch, j.path.file)
  <2>1. StoreInv /\ UNCHANGED base
    BY <1>1 DEF TypeInv
  <2> QED BY <1>2, <1>3, <1>4, <2>1, PutIsFileStep, DropIsFileStep
<1> QED BY <1>1, <1>2, <1>5, <1>6 DEF j

\* So is that of another mount.
LEMMA OtherIsFileStep ==
    ASSUME MountInv, TypeInv, NEW o \in other, OtherEnds(o)
    PROVE  /\ o.branch \in Branch /\ o.file \in File /\ other' = {}
           /\ FileStep(o.branch, o.file) /\ Meanwhile({}) /\ reply' \in Reply
           /\ UNCHANGED <<inodes, alive, frozen, base, epoch, setting, mounted, curEpoch, rcache,
                          wcache, queue, worker>>
           /\ risk' = {} => delta' = delta
<1>1. /\ UNCHANGED <<inodes, alive, frozen, base, epoch, setting, mounted, curEpoch, rcache,
                     wcache, queue, worker>>
      /\ Meanwhile({}) /\ Silent /\ other' = {}
  BY DEF OtherEnds, mount
<1>2. PICK b \in Branch, f \in File, n \in Nat : b = o.branch /\ f = o.file /\ n = o.id + Original
  BY DEF TypeInv, TableInv, Other, Original
<1>3. \/ /\ PutInDelta(b, f, n)
         /\ risk' = risk \union (IF HasDelta(b, f) THEN {} ELSE {"shared"})
      \/ DropFromDelta(b, f) /\ risk' = risk \union {"shared"}
  BY <1>2 DEF OtherEnds, Risks
<1>4. FileStep(b, f)
  BY <1>1, <1>3, PutIsFileStep, DropIsFileStep DEF TypeInv
<1>5. risk' = {} => delta' = delta
  BY <1>3 DEF PutInDelta
<1> QED BY <1>1, <1>2, <1>4, <1>5, SilentType

\* The worker and another mount begin an operation, or the worker refuses it.
Quiet ==
    \/ StartJob
    \/ \E b \in Branch, f \in File : OtherBegins("write", b, f) \/ OtherBegins("delete", b, f)

\* What they leave alone.
LEMMA QuietFacts ==
    ASSUME MountInv, TypeInv, Quiet
    PROVE  /\ UNCHANGED <<inodes, manager, mount, pending>> /\ reply' \in Reply
           /\ queue' = queue \/ (queue # <<>> /\ queue' = Tail(queue))
           /\ other' \subseteq Other /\ (risk' = {} => risk = {})
<1>1. CASE StartJob
  <2>1. /\ UNCHANGED <<inodes, manager, mount, pending, other, risk>> /\ queue # <<>>
        /\ \/ queue' = queue /\ Silent
           \/ queue' = Tail(queue) /\ Answer(FALSE, Head(queue).id, Empty)
    BY <1>1 DEF StartJob
  <2>2. Head(queue).id \in Nat /\ other \subseteq Other /\ Empty \in Nat
    <3>1. queue \in Seq(Job)
      BY DEF MountInv
    <3>2. Head(queue) \in Job
      BY <2>1, <3>1
    <3> QED BY <3>2 DEF Job, TypeInv, TableInv, Empty
  <2> QED BY <2>1, <2>2, SilentType, ReplyType
<1>2. ASSUME NEW op \in {"write", "delete"}, NEW b \in Branch, NEW f \in File, OtherBegins(op, b, f)
      PROVE  /\ UNCHANGED <<inodes, manager, mount, pending, queue, risk>> /\ reply' \in Reply
             /\ other' \subseteq Other
  <2>1. /\ UNCHANGED <<inodes, manager, mount, pending, queue, risk>> /\ Silent /\ req' \in Nat
        /\ other' = {[op |-> op, branch |-> b, file |-> f, id |-> req', late |-> b \in setting]}
    BY <1>2 DEF OtherBegins, MountInv
  <2>2. [op |-> op, branch |-> b, file |-> f, id |-> req', late |-> b \in setting] \in Other
    BY <2>1 DEF Other
  <2> QED BY <2>1, <2>2, SilentType
<1> QED BY <1>1, <1>2 DEF Quiet

\* They keep the types.
LEMMA QuietTypes ==
    ASSUME MountInv, InodesInverse, TypeInv, InodesInverse', Quiet
    PROVE  TypeInv'
<1>1. /\ UNCHANGED <<inodes, manager, mount, pending>> /\ reply' \in Reply
      /\ queue' = queue \/ (queue # <<>> /\ queue' = Tail(queue))
      /\ other' \subseteq Other
  BY QuietFacts
<1>2. QueueInv'
  BY <1>1, QueueFiles DEF TypeInv
<1> QED BY <1>1, <1>2
  DEF TypeInv, StoreInv, HasDelta, TableInv, PendingInv, Serving, Emptying, OpenedInv, Cached, CacheInv,
      inodes, manager, mount

\* The worker, the clients and other mounts.
LEMMA AsyncTypes ==
    ASSUME MountInv, InodesInverse, TypeInv, InodesInverse', nextIno' >= nextIno,
           \A i \in DOMAIN inoPath' :
              IF i \in DOMAIN inoPath THEN inoPath'[i] = inoPath[i] ELSE i >= nextIno,
           NEW B \in SUBSET Branch, Meanwhile(B),
           B = {} => epoch' = epoch /\ alive' = alive,
           StoreInv', Len(data') >= Len(data), QueueInv', reply' \in Reply,
           alive' \subseteq Branch, Main \in alive', frozen' \subseteq alive' \ {Main},
           setting' \subseteq alive', other' \subseteq Other,
           epoch' \in {epoch, epoch + 1},
           UNCHANGED <<mounted, curEpoch, rcache, wcache>>
    PROVE  TypeInv'
<1>1. epoch \in Nat /\ epoch' \in Nat /\ epoch' >= epoch /\ nextIno \in Nat /\ nextIno' \in Nat
  BY DEF TypeInv, TableInv, InodesInverse
<1>2. /\ PendingInv' /\ pending'.epoch = pending.epoch /\ pending'.ino = pending.ino
      /\ pending'.op = pending.op
      /\ pending = NoReq => pending' = NoReq
  BY <1>1, MeanwhileTypes DEF TypeInv
<1>3. OpenedInv'
  BY <1>2 DEF TypeInv, OpenedInv, Cached
<1>4. StepTypes
  BY <1>2, <1>3 DEF StepTypes
<1> QED BY <1>4, TypesKept

\* Control files, the ioctl and the daemon's clients keep the types.
LEMMA ControlTypes ==
    ASSUME MountInv, InodesInverse, TypeInv, InodesInverse', nextIno' >= nextIno,
           \A i \in DOMAIN inoPath' :
              IF i \in DOMAIN inoPath THEN inoPath'[i] = inoPath[i] ELSE i >= nextIno,
           NEW b \in Branch,
           Switch(b) \/ CtlCreate(b) \/ CtlFinish(b) \/ IoctlFinish(b) \/ Client(b)
    PROVE  TypeInv'
<1>0. QueueInv /\ StoreInv /\ TableInv
  BY DEF TypeInv
<1>1. CASE Switch(b)
  <2>1. /\ UNCHANGED <<manager, other, rcache, wcache, queue>>
        /\ pending' = NoReq /\ curEpoch' = epoch /\ Silent
    BY <1>1 DEF Switch, RefreshEpoch, jobs
  <2>2. StepTypes
    BY <1>0, <2>1, StoreAlone, SilentType, NoneUnderWay, QueueFiles DEF StepTypes
  <2> QED BY <2>1, <2>2, TypesKept
<1>2. CASE CtlCreate(b) \/ CtlFinish(b) \/ IoctlFinish(b)
  <2>1. /\ UNCHANGED <<rcache, wcache, queue, other>>
        /\ pending' = NoReq /\ curEpoch' = epoch' /\ Silent
        /\ Operation(b)
    BY <1>2 DEF CtlCreate, CtlFinish, IoctlFinish, jobs, Operation
  <2>2. BranchStep(b)
    BY <1>0, <2>1, OperationIsBranchStep
  <2>3. epoch' \in {epoch, epoch + 1} /\ epoch' \in Nat
    BY <2>2, <1>0 DEF BranchStep, TableInv
  <2>5. other' \subseteq Other
    BY <1>0, <2>1 DEF TableInv
  <2>4. StepTypes
    BY <1>0, <2>1, <2>2, <2>3, <2>5, SilentType, NoneUnderWay, QueueFiles DEF StepTypes, BranchStep
  <2> QED BY <2>1, <2>4, TypesKept
<1>3. CASE Client(b)
  <2>1. /\ UNCHANGED <<mounted, curEpoch, rcache, wcache, queue>>
        /\ Silent /\ Meanwhile({b}) /\ Operation(b)
    BY <1>3 DEF Client, mount, Operation
  <2>2. BranchStep(b)
    BY <1>0, <2>1, OperationIsBranchStep
  <2>3. epoch' \in {epoch, epoch + 1}
    BY <2>2 DEF BranchStep
  <2>4. other' \subseteq Other
    <3>1. other' = other \/ other' = {[o EXCEPT !.late = @ \/ o.branch = b] : o \in other}
      BY <1>3 DEF Client
    <3>2. \A o \in other : [o EXCEPT !.late = @ \/ o.branch = b] \in Other
      BY <1>0 DEF TableInv, Other
    <3> QED BY <1>0, <3>1, <3>2 DEF TableInv
  <2>5. {b} \in SUBSET Branch /\ {b} # {} /\ reply' \in Reply /\ QueueInv'
    BY <1>0, <2>1, SilentType, QueueFiles
  <2> QED BY <2>1, <2>2, <2>3, <2>4, <2>5, AsyncTypes DEF BranchStep
<1> QED BY <1>1, <1>2, <1>3

\* Every step keeps the types.
LEMMA TypeStep ==
    ASSUME MountInv, InodesInverse, TypeInv, [Next]_vars
    PROVE  TypeInv' /\ MountInv' /\ InodesInverse'
<1>0. /\ MountInv' /\ InodesInverse' /\ nextIno' >= nextIno
      /\ \A i \in DOMAIN inoPath' :
            IF i \in DOMAIN inoPath THEN inoPath'[i] = inoPath[i] ELSE i >= nextIno
  BY NumbersStep
<1>1. CASE \E p \in InoPath : Lookup(p) \/ CreateFile(p) \/ Unlink(p)
  BY <1>0, <1>1, PathTypes
<1>2. CASE \E i \in RootIno + 1 .. nextIno - 1 :
               Begin("read", i) \/ Begin("write", i) \/ Truncate(i)
  BY <1>0, <1>2, NumberTypes
<1>3. CASE \/ ReadCached \/ ReadOpen \/ WriteCached \/ WriteOpen \/ WriteOpened
           \/ EmptyFile("create") \/ EmptyFile("truncate")
  BY <1>0, <1>3, ServiceTypes
<1>4. CASE RunJob
  <2>1. /\ epoch' = epoch /\ alive' = alive /\ frozen' = frozen /\ setting' = setting /\ other' = other
        /\ UNCHANGED <<mounted, curEpoch, rcache, wcache>>
        /\ Meanwhile({}) /\ QueueInv' /\ reply' \in Reply
    BY <1>4, JobIsFileStep
  <2>2. StoreInv' /\ Len(data') >= Len(data)
    BY <1>4, JobIsFileStep DEF FileStep
  <2>3. /\ alive' \subseteq Branch /\ Main \in alive' /\ frozen' \subseteq alive' \ {Main}
        /\ setting' \subseteq alive' /\ other' \subseteq Other
    BY <2>1 DEF TypeInv, TableInv
  <2> QED BY <1>0, <2>1, <2>2, <2>3, AsyncTypes
<1>8. CASE Quiet
  BY <1>0, <1>8, QuietTypes
<1>5. CASE \E b \in Branch : Switch(b) \/ CtlCreate(b) \/ CtlFinish(b) \/ IoctlFinish(b)
                              \/ Client(b)
  BY <1>0, <1>5, ControlTypes
<1>6. ASSUME NEW o \in other, OtherEnds(o) PROVE TypeInv'
  <2>1. /\ FileStep(o.branch, o.file) /\ Meanwhile({}) /\ reply' \in Reply /\ other' = {}
        /\ UNCHANGED <<alive, frozen, base, epoch, setting, mounted, curEpoch, rcache, wcache, queue>>
    BY <1>6, OtherIsFileStep
  <2>2. QueueInv'
    BY <2>1, QueueFiles DEF TypeInv
  <2>3. /\ alive' \subseteq Branch /\ Main \in alive' /\ frozen' \subseteq alive' \ {Main}
        /\ setting' \subseteq alive' /\ other' \subseteq Other
    BY <2>1 DEF TypeInv, TableInv
  <2>4. StoreInv' /\ Len(data') >= Len(data)
    BY <2>1 DEF FileStep
  <2> QED BY <1>0, <2>1, <2>2, <2>3, <2>4, AsyncTypes
<1>7. CASE UNCHANGED vars
  BY <1>0, <1>7
  DEF vars, manager, mount, inodes, TypeInv, StoreInv, HasDelta, TableInv, PendingInv,
      QueueInv, CacheInv, Serving, Emptying, OpenedInv, Cached, jobs
<1> QED BY <1>0, <1>1, <1>2, <1>3, <1>4, <1>5, <1>6, <1>7, <1>8 DEF Next, Quiet

\* Whatever requests, jobs, commands and clients interleave, every place of
\* the store holds an object that is there, the branch table is well formed,
\* and neither a descriptor, a request nor the mount is ahead of the epoch.
THEOREM TypeCorrect == Spec => []TypeOK
<1>1. Init => MountInv /\ InodesInverse /\ TypeInv
  BY MountStarts, TypesStart
<1>2. (MountInv /\ InodesInverse /\ TypeInv) /\ [Next]_vars
         => (MountInv /\ InodesInverse /\ TypeInv)'
  BY TypeStep
<1>3. MountInv /\ TypeInv => TypeOK
  BY DEF MountInv, TypeInv, StoreInv, TableInv, PendingInv, PendingOf, CacheInv, TypeOK
<1> QED BY <1>1, <1>2, <1>3, PTL DEF Spec

----------------------------------------------------------------------------
(* Frozen branches                                                         *)

\* FrozenKeepsContent as a step.
FrozenKept ==
    \A b \in frozen \intersect frozen', f \in File :
        \/ /\ delta'[b][f] = delta[b][f]
           /\ HasDelta(b, f) => data'[delta[b][f]] = data[delta[b][f]]
        \/ UnderWay(b, f)

\* A step on a file that is under way, or of a branch that is open.
LEMMA KeptFile ==
    ASSUME TypeInv, NEW b \in Branch, NEW f \in File, FileStep(b, f),
           b \in frozen => UnderWay(b, f)
    PROVE  FrozenKept
<1> SUFFICES ASSUME NEW c \in frozen \intersect frozen', NEW g \in File, ~UnderWay(c, g)
             PROVE  /\ delta'[c][g] = delta[c][g]
                    /\ HasDelta(c, g) => data'[delta[c][g]] = data[delta[c][g]]
  BY DEF FrozenKept
<1>1. c \in Branch /\ (c # b \/ g # f)
  BY DEF TypeInv, TableInv
<1>2. delta'[c][g] = delta[c][g]
  BY <1>1 DEF FileStep
<1>3. ASSUME HasDelta(c, g) PROVE data'[delta[c][g]] = data[delta[c][g]]
  <2>1. delta[c][g] # delta[b][f]
    BY <1>1, <1>3 DEF TypeInv, StoreInv
  <2>2. delta[c][g] \in 1..Len(data)
    BY <1>1, <1>3 DEF TypeInv, StoreInv, HasDelta, Gone, Inherit
  <2> QED BY <2>1, <2>2 DEF FileStep
<1> QED BY <1>2, <1>3

\* The operations of the manager.
LEMMA KeptBranch ==
    ASSUME TypeInv, NEW b \in Branch, BranchStep(b)
    PROVE  FrozenKept
<1> SUFFICES ASSUME NEW c \in frozen \intersect frozen', NEW g \in File
             PROVE  /\ delta'[c][g] = delta[c][g]
                    /\ HasDelta(c, g) => data'[delta[c][g]] = data[delta[c][g]]
  BY DEF FrozenKept
<1>1. c \in Branch /\ delta'[c][g] = delta[c][g]
  BY DEF BranchStep, TypeInv, TableInv
<1>2. HasDelta(c, g) => delta[c][g] \in 1..Len(data)
  BY <1>1 DEF TypeInv, StoreInv, HasDelta, Gone, Inherit
<1> QED BY <1>1, <1>2 DEF BranchStep

\* A write to a descriptor: one of a frozen branch is outdated, or its request
\* met freeze_branch.
LEMMA KeptWrite ==
    ASSUME TypeInv, DescriptorInv, WriteCached \/ WriteOpened
    PROVE  FrozenKept
<1>1. /\ UNCHANGED delta /\ data' = [data EXCEPT ![wcache.obj] = req + Original]
      /\ pending.op \in {"write", "opened"} /\ Cached(wcache, pending.ino, pending.epoch)
  BY DEF WriteCached, WriteOpened, Serve, TypeInv, OpenedInv
<1>2. wcache.epoch = pending.epoch /\ wcache.obj # Gone /\ pending.epoch \in Nat
  BY <1>1 DEF Cached, TypeInv, PendingInv, PendingOf
<1> SUFFICES ASSUME NEW c \in frozen \intersect frozen', NEW g \in File, ~UnderWay(c, g), HasDelta(c, g)
             PROVE  data'[delta[c][g]] = data[delta[c][g]]
  BY <1>1 DEF FrozenKept
<1>3. delta[c][g] # wcache.obj
  <2> SUFFICES ASSUME delta[c][g] = wcache.obj PROVE FALSE
    OBVIOUS
  <2>1. Outdated(c)
    BY <1>2 DEF DescriptorInv
  <2>2. c \in pending.raced
    BY <1>1, <1>2, <2>1 DEF Outdated
  <2> QED BY <2>2 DEF UnderWay
<1> QED BY <1>1, <1>3 DEF TypeInv, StoreInv

\* Every step keeps what is frozen.
LEMMA KeptStep ==
    ASSUME MountInv, InodesInverse, TypeInv, FrozenInv, [Next]_vars
    PROVE  FrozenKept
<1>0. StoreInv /\ TableInv /\ Empty \in Nat /\ DescriptorInv /\ LateInv
  BY DEF TypeInv, Empty, FrozenInv
<1>1. CASE UNCHANGED <<delta, data>>
  BY <1>1 DEF FrozenKept
<1>2. CASE WriteCached \/ WriteOpened
  BY <1>0, <1>2, KeptWrite
<1>3. ASSUME NEW op \in {"create", "truncate"}, EmptyFile(op) PROVE FrozenKept
  <2>1. /\ PutInDelta(BranchOf(pending.path), pending.path.file, Empty) /\ Emptying /\ UNCHANGED base
    BY <1>3 DEF EmptyFile, Serve, Emptying
  <2>2. PICK b \in Branch, f \in File : b = BranchOf(pending.path) /\ f = pending.path.file
    BY <2>1, BranchOfType DEF MountInv, TypeInv, PendingInv
  <2>3. FileStep(b, f)
    BY <1>0, <2>1, <2>2, PutIsFileStep
  <2>4. b \in frozen => UnderWay(b, f)
    BY <1>0, <2>1, <2>2 DEF LateInv, UnderWay
  <2> QED BY <2>3, <2>4, KeptFile
<1>4. CASE RunJob
  <2>1. PICK b \in Branch, f \in File : b = Head(queue).branch /\ f = Head(queue).path.file
    BY <1>4, JobIsFileStep DEF Job
  <2>2. FileStep(b, f) /\ worker # "idle"
    BY <1>4, <2>1, JobIsFileStep
  <2>3. b \in frozen => UnderWay(b, f)
    BY <1>0, <2>1, <2>2 DEF LateInv, UnderWay
  <2> QED BY <2>2, <2>3, KeptFile
<1>5. ASSUME NEW o \in other, OtherEnds(o) PROVE FrozenKept
  <2>1. PICK b \in Branch, f \in File : b = o.branch /\ f = o.file
    BY <1>5, OtherIsFileStep
  <2>2. FileStep(b, f)
    BY <1>5, <2>1, OtherIsFileStep
  <2>3. b \in frozen => UnderWay(b, f)
    BY <1>0, <2>1 DEF LateInv, UnderWay
  <2> QED BY <2>2, <2>3, KeptFile
<1>6. ASSUME NEW b \in Branch, CtlCreate(b) \/ CtlFinish(b) \/ IoctlFinish(b) \/ Client(b)
      PROVE  FrozenKept
  <2>1. Operation(b)
    BY <1>6 DEF CtlCreate, CtlFinish, IoctlFinish, Client, Operation
  <2> QED BY <1>0, <2>1, OperationIsBranchStep, KeptBranch
<1>7. ASSUME NEW q \in InoPath, Lookup(q) \/ CreateFile(q) \/ Unlink(q) PROVE UNCHANGED <<delta, data>>
  BY <1>7 DEF Lookup, CreateFile, Unlink, manager
<1>8. ASSUME NEW i, Begin("read", i) \/ Begin("write", i) \/ Truncate(i)
      PROVE  UNCHANGED <<delta, data>>
  BY <1>8 DEF Begin, Truncate, manager
<1>9. ReadCached \/ ReadOpen \/ WriteOpen => UNCHANGED <<delta, data>>
  BY DEF ReadCached, ReadOpen, WriteOpen, Refuse, manager
<1>10. (\E b \in Branch : Switch(b)) \/ Quiet \/ UNCHANGED vars => UNCHANGED <<delta, data>>
  BY QuietFacts DEF Switch, vars, manager
<1> QED BY <1>1, <1>2, <1>3, <1>4, <1>5, <1>6, <1>7, <1>8, <1>9, <1>10 DEF Next, Quiet

\* An operation of the manager other than freeze freezes nothing.
LEMMA OperationThaws ==
    ASSUME NEW b, Operation(b), ~Freeze(b)
    PROVE  frozen' \subseteq frozen
  BY DEF Operation, Create, Commit, Abort, Thaw, StateSet, Revert

\* What an operation that has its check behind it names, and that it is late,
\* stay as they are.
LEMMA LateKept ==
    ASSUME LateInv, frozen' \subseteq frozen,
           worker' = "idle" \/ (worker' = worker /\ Head(queue') = Head(queue)),
           other' = other \/ other' = {},
           \/ ~Emptying'
           \/ /\ pending'.op = pending.op /\ pending'.path = pending.path /\ mounted' = mounted
              /\ pending.raced \subseteq pending'.raced
    PROVE  LateInv'
  BY DEF LateInv, Emptying, BranchOf

\* A job joins the queue behind the one that the worker has begun.
LEMMA HeadStays ==
    ASSUME MountInv, worker # "idle", NEW j, queue' = Append(queue, j)
    PROVE  Head(queue') = Head(queue)
<1>1. queue \in Seq(Job) /\ queue # <<>>
  BY DEF MountInv
<1> QED BY <1>1

\* The request under way, after a step of someone else.
LEMMA MeanwhilePending ==
    ASSUME PendingInv, NEW B, Meanwhile(B)
    PROVE  /\ pending'.op = pending.op /\ pending'.path = pending.path
           /\ pending'.epoch = pending.epoch
           /\ pending.raced \subseteq pending'.raced
           /\ pending # NoReq => pending'.raced = pending.raced \union B
<1>1. CASE pending = NoReq
  BY <1>1 DEF Meanwhile
<1>2. CASE pending # NoReq
  <2> DEFINE S == UNION {Visible(i)' : i \in {pending.ino}}
  <2>1. pending' = [pending EXCEPT !.seen = @ \union S, !.raced = @ \union B]
    BY <1>2 DEF Meanwhile
  <2>2. pending \in PendingOf(pending.seen)
    BY DEF PendingInv
  <2> HIDE DEF S
  <2> QED BY <2>1, <2>2 DEF PendingOf
<1> QED BY <1>1, <1>2

\* A check finds the branch open.
LEMMA CheckedOpen ==
    ASSUME LateInv, NEW op \in {"create", "truncate"}, NEW p, Checked(op, p), pending = NoReq,
           UNCHANGED <<frozen, jobs, mounted>>
    PROVE  LateInv'
<1>1. CASE Writable(BranchOf(p))
  <2>1. pending'.path = p /\ BranchOf(p)' = BranchOf(p)
    BY <1>1 DEF Checked, BranchOf
  <2>2. BranchOf(p) \notin frozen
    BY <1>1 DEF Writable
  <2>3. BranchOf(pending.path)' \notin frozen'
    BY <2>1, <2>2 DEF BranchOf
  <2> QED BY <2>3 DEF LateInv, jobs
<1>2. CASE ~Writable(BranchOf(p))
  <2>1. pending' = NoReq
    BY <1>2 DEF Checked
  <2> QED BY <2>1 DEF LateInv, jobs, Emptying, NoReq
<1> QED BY <1>1, <1>2

\* A request begins: its epoch is the manager's, and what freeze_branch is at
\* it has met.
LEMMA BeginPending ==
    ASSUME NEW op, NEW i, Begin(op, i)
    PROVE  \/ pending' = NoReq
           \/ pending'.op = op /\ pending'.epoch = epoch /\ pending'.raced = setting
<1>1. CASE mounted \in alive
  <2>1. PICK S : S = Visible(i)
    OBVIOUS
  <2>2. pending' = [op |-> op, ino |-> i, path |-> RootPath, epoch |-> epoch, seen |-> S,
                    raced |-> setting]
    BY <1>1, <2>1 DEF Begin, RefreshEpoch
  <2> QED BY <2>2
<1>2. CASE mounted \notin alive
  BY <1>2 DEF Begin
<1> QED BY <1>1, <1>2

\* The same of a request for a path.
LEMMA CheckedPending ==
    ASSUME NEW op, NEW p, Checked(op, p), pending = NoReq
    PROVE  pending' = NoReq \/ pending'.op = op
<1>1. CASE Writable(BranchOf(p))
  BY <1>1 DEF Checked
<1>2. CASE ~Writable(BranchOf(p))
  BY <1>2 DEF Checked
<1> QED BY <1>1, <1>2

\* Every step keeps what is known of the operations with a check behind them.
LEMMA LateStep ==
    ASSUME MountInv, InodesInverse, TypeInv, LateInv, [Next]_vars
    PROVE  LateInv'
<1>0. PendingInv
  BY DEF TypeInv
<1>1. ASSUME NEW q \in InoPath, Lookup(q) \/ CreateFile(q) \/ Unlink(q) PROVE LateInv'
  <2>1. CASE Lookup(q)
    BY <2>1, LateKept DEF Lookup, manager, jobs
  <2>2. CASE CreateFile(q)
    BY <2>2, CheckedOpen DEF CreateFile, manager, mount
  <2>3. CASE Unlink(q)
    <3>1. /\ UNCHANGED <<frozen, worker, other, pending, mounted>>
          /\ queue' = queue \/ \E j : queue' = Append(queue, j)
      BY <2>3 DEF Unlink, manager, mount
    <3>2. worker # "idle" => Head(queue') = Head(queue)
      BY <3>1, HeadStays
    <3> QED BY <3>1, <3>2, LateKept
  <2> QED BY <1>1, <2>1, <2>2, <2>3
<1>2. ASSUME NEW i \in RootIno + 1 .. nextIno - 1, Begin("read", i) \/ Begin("write", i) \/ Truncate(i)
      PROVE  LateInv'
  <2>1. ASSUME NEW op \in {"read", "write"}, Begin(op, i) PROVE LateInv'
    <3>1. UNCHANGED <<frozen, worker, queue, other>> /\ pending = NoReq
      BY <2>1 DEF Begin, manager, jobs
    <3>2. pending' = NoReq \/ pending'.op = op
      BY <2>1, BeginPending
    <3>3. ~Emptying'
      BY <3>2 DEF Emptying, NoReq
    <3> QED BY <3>1, <3>3, LateKept
  <2>2. CASE Truncate(i)
    <3>1. Checked("truncate", inoPath[i]) /\ pending = NoReq /\ UNCHANGED <<frozen, jobs, mounted>>
      BY <2>2 DEF Truncate, manager
    <3> QED BY <3>1, CheckedOpen
  <2> QED BY <1>2, <2>1, <2>2
<1>3. CASE \/ ReadCached \/ ReadOpen \/ WriteCached \/ WriteOpen \/ WriteOpened
           \/ EmptyFile("create") \/ EmptyFile("truncate")
  <2>1. ~Emptying'
    <3>1. CASE WriteOpen
      <4>1. \/ pending' = NoReq
            \/ pending' = [pending EXCEPT !.op = "opened", !.path = inoPath[pending.ino]]
        BY <3>1 DEF WriteOpen, Serve
      <4>2. pending \in PendingOf(pending.seen)
        BY <1>0 DEF PendingInv
      <4>3. pending' = NoReq \/ pending'.op = "opened"
        BY <4>1, <4>2 DEF PendingOf
      <4> QED BY <4>3 DEF Emptying, NoReq
    <3>2. CASE ~WriteOpen
      <4>1. pending' = NoReq
        BY <1>3, <3>2 DEF ReadCached, ReadOpen, WriteCached, WriteOpened, EmptyFile, Serve
      <4> QED BY <4>1 DEF Emptying, NoReq
    <3> QED BY <3>1, <3>2
  <2>3. UNCHANGED <<frozen, worker, other>>
    <3>1. CASE WriteOpen
      BY <3>1 DEF WriteOpen, Serve, Refuse, manager, jobs
    <3>2. CASE ReadOpen
      BY <3>2 DEF ReadOpen, Serve, Refuse, manager
    <3> QED BY <1>3, <3>1, <3>2 DEF ReadCached, WriteCached, WriteOpened, EmptyFile, Serve, manager
  <2>4. queue' = queue \/ \E j : queue' = Append(queue, j)
    <3>1. CASE WriteOpen
      BY <3>1 DEF WriteOpen, Refuse, jobs
    <3>2. CASE ReadOpen
      BY <3>2 DEF ReadOpen, Refuse
    <3> QED BY <1>3, <3>1, <3>2 DEF ReadCached, WriteCached, WriteOpened, EmptyFile
  <2>5. worker # "idle" => Head(queue') = Head(queue)
    BY <2>4, HeadStays
  <2> QED BY <2>1, <2>3, <2>5, LateKept
<1>4. CASE StartJob
  <2>1. UNCHANGED <<frozen, other, pending, mounted>>
    BY <1>4 DEF StartJob, manager, mount
  <2>2. \/ UNCHANGED queue /\ Writable(Head(queue).branch)
        \/ worker' = "idle"
    BY <1>4 DEF StartJob
  <2> QED BY <2>1, <2>2 DEF LateInv, Writable, Emptying, BranchOf
<1>5. CASE RunJob
  <2>1. UNCHANGED <<frozen, other, mounted>> /\ worker' = "idle" /\ Meanwhile({})
    BY <1>5, JobIsFileStep
  <2> QED BY <1>0, <2>1, LateKept, MeanwhilePending
<1>6. ASSUME NEW b \in Branch, Switch(b) \/ CtlCreate(b) \/ CtlFinish(b) \/ IoctlFinish(b)
      PROVE  LateInv'
  <2>1. UNCHANGED <<worker, queue, other>> /\ pending' = NoReq
    BY <1>6 DEF Switch, CtlCreate, CtlFinish, IoctlFinish, jobs
  <2>2. frozen' \subseteq frozen
    BY <1>6 DEF Switch, CtlCreate, CtlFinish, IoctlFinish, manager, Create, Commit, Abort
  <2>3. ~Emptying'
    BY <2>1 DEF Emptying, NoReq
  <2> QED BY <2>1, <2>2, <2>3, LateKept
<1>7. ASSUME NEW b \in Branch, Client(b) PROVE LateInv'
  <2>1. UNCHANGED <<queue, mounted>> /\ Meanwhile({b}) /\ Operation(b)
    BY <1>7 DEF Client, mount, Operation
  <2>2. CASE UNCHANGED <<worker, other>> /\ frozen' \subseteq frozen
    BY <1>0, <2>1, <2>2, LateKept, MeanwhilePending
  <2>3. CASE /\ Freeze(b)
             /\ worker' = IF worker # "idle" /\ Head(queue).branch = b THEN "late" ELSE worker
             /\ other' = {[o EXCEPT !.late = @ \/ o.branch = b] : o \in other}
    <3>1. frozen' = frozen \union {b}
      BY <2>3 DEF Freeze
    <3>2. worker' # "idle" /\ Head(queue').branch \in frozen' => worker' = "late"
      BY <2>1, <2>3, <3>1 DEF LateInv
    <3>3. ASSUME NEW o \in other', o.branch \in frozen' PROVE o.late
      <4>1. PICK x \in other : o = [x EXCEPT !.late = @ \/ x.branch = b]
        BY <2>3, <3>3
      <4>2. x \in Other
        BY DEF TypeInv, TableInv
      <4>3. o.branch = x.branch /\ o.late = (x.late \/ x.branch = b)
        BY <4>1, <4>2 DEF Other
      <4> QED BY <3>1, <3>3, <4>3 DEF LateInv
    <3>4. Emptying' /\ BranchOf(pending.path)' \in frozen' => BranchOf(pending.path)' \in pending'.raced
      <4>1. /\ pending'.op = pending.op /\ pending'.path = pending.path
            /\ pending.raced \subseteq pending'.raced
            /\ pending # NoReq => pending'.raced = pending.raced \union {b}
        BY <1>0, <2>1, MeanwhilePending
      <4>2. Emptying => pending # NoReq
        BY DEF Emptying, NoReq
      <4>3. BranchOf(pending.path)' = BranchOf(pending.path) /\ Emptying' = Emptying
        BY <2>1, <4>1 DEF BranchOf, Emptying
      <4> QED BY <3>1, <4>1, <4>2, <4>3 DEF LateInv
    <3> QED BY <3>2, <3>3, <3>4 DEF LateInv
  <2>4. ~Freeze(b) => frozen' \subseteq frozen
    BY <2>1, OperationThaws
  <2>5. \/ UNCHANGED <<worker, other>> /\ frozen' \subseteq frozen
        \/ /\ Freeze(b)
           /\ worker' = IF worker # "idle" /\ Head(queue).branch = b THEN "late" ELSE worker
           /\ other' = {[o EXCEPT !.late = @ \/ o.branch = b] : o \in other}
    BY <1>7 DEF Client, Create, Commit, Abort, Thaw, StateSet, Revert
  <2> QED BY <2>2, <2>3, <2>5
<1>8. ASSUME NEW op, NEW b \in Branch, NEW f \in File, OtherBegins(op, b, f) PROVE LateInv'
  <2>1. UNCHANGED <<frozen, queue, worker, pending, mounted>>
    BY <1>8 DEF OtherBegins, manager, mount
  <2>2. /\ b \notin frozen \/ b \in setting
        /\ other' = {[op |-> op, branch |-> b, file |-> f, id |-> req', late |-> b \in setting]}
    BY <1>8 DEF OtherBegins, Writable
  <2>3. ASSUME NEW o \in other', o.branch \in frozen' PROVE o.late
    <3>1. o = [op |-> op, branch |-> b, file |-> f, id |-> req', late |-> b \in setting]
      BY <2>2, <2>3
    <3>2. b \in frozen /\ (o.late = (b \in setting))
      BY <2>1, <2>3, <3>1
    <3> QED BY <2>2, <3>2
  <2>4. Head(queue') = Head(queue) /\ BranchOf(pending.path)' = BranchOf(pending.path) /\ Emptying' = Emptying
    BY <2>1 DEF BranchOf, Emptying
  <2> QED BY <2>1, <2>3, <2>4 DEF LateInv
<1>9. ASSUME NEW o \in other, OtherEnds(o) PROVE LateInv'
  <2>1. UNCHANGED <<frozen, queue, worker, mounted>> /\ other' = {} /\ Meanwhile({})
    BY <1>9, OtherIsFileStep
  <2> QED BY <1>0, <2>1, LateKept, MeanwhilePending
<1>10. CASE UNCHANGED vars
  BY <1>10, LateKept DEF vars, manager, mount, jobs
<1> QED BY <1>1, <1>2, <1>3, <1>4, <1>5, <1>6, <1>7, <1>8, <1>9, <1>10 DEF Next

\* Where the object of the write descriptor is now, it was before.
PlacesKept ==
    \A c \in Branch, g \in File :
        wcache.obj # Gone /\ delta'[c][g] = wcache.obj => delta[c][g] = wcache.obj

LEMMA PlacesKeptByFile ==
    ASSUME TypeInv, NEW b \in Branch, NEW f \in File, FileStep(b, f)
    PROVE  PlacesKept
<1>1. wcache.obj \in Nat /\ wcache.obj <= Len(data)
  BY DEF TypeInv, CacheInv, Cache
<1>2. wcache.obj # Gone => ~(wcache.obj <= Gone \/ wcache.obj > Len(data))
  BY <1>1 DEF Gone, TypeInv, StoreInv
<1> SUFFICES ASSUME NEW c \in Branch, NEW g \in File, wcache.obj # Gone, delta'[c][g] = wcache.obj
             PROVE  delta[c][g] = wcache.obj
  BY DEF PlacesKept
<1>3. CASE c # b \/ g # f
  BY <1>3 DEF FileStep
<1>4. CASE c = b /\ g = f
  BY <1>2, <1>4 DEF FileStep
<1> QED BY <1>3, <1>4

LEMMA PlacesKeptByBranch ==
    ASSUME TypeInv, NEW b \in Branch, BranchStep(b)
    PROVE  PlacesKept
<1>1. wcache.obj # Inherit
  BY DEF TypeInv, CacheInv, Cache, Inherit
<1> QED BY <1>1 DEF PlacesKept, BranchStep

\* The descriptor stays and is as outdated as before.
LEMMA DescriptorKept ==
    ASSUME TypeInv, DescriptorInv, PlacesKept, UNCHANGED wcache, frozen' \subseteq frozen,
           \A b \in frozen' : Outdated(b) => Outdated(b)'
    PROVE  DescriptorInv'
  BY DEF DescriptorInv, PlacesKept, TypeInv, TableInv

\* So it is when no write begins and the epoch stays.
LEMMA OutdatedKept ==
    ASSUME UNCHANGED <<wcache, epoch, setting>>,
           \/ pending'.op \notin {"write", "opened"}
           \/ /\ pending.op \in {"write", "opened"} /\ pending'.epoch = pending.epoch
              /\ pending.raced \subseteq pending'.raced
    PROVE  \A b \in frozen' : Outdated(b) => Outdated(b)'
  BY DEF Outdated

\* A request begins: it has the manager's epoch, or meets freeze_branch.
LEMMA DescriptorBegin ==
    ASSUME MountInv, TypeInv, DescriptorInv, NEW i,
           Begin("read", i) \/ Begin("write", i) \/ Truncate(i)
    PROVE  DescriptorInv'
<1>1. UNCHANGED <<frozen, delta, epoch, setting>> /\ (wcache' = wcache \/ wcache' = NoCache)
  BY DEF Begin, Truncate, InvalidateWrite, manager
<1>2. CASE wcache' = NoCache
  BY <1>2 DEF DescriptorInv, NoCache
<1>3. CASE wcache' = wcache
  <2>1. \/ pending' = NoReq \/ pending'.op \in {"read", "truncate"}
        \/ pending'.epoch = epoch /\ pending'.raced = setting
    <3>1. CASE Truncate(i)
      <4>1. Checked("truncate", inoPath[i]) /\ pending = NoReq
        BY <3>1 DEF Truncate
      <4> QED BY <4>1, CheckedPending
    <3> QED BY <3>1, BeginPending
  <2>2. PlacesKept
    BY <1>1 DEF PlacesKept
  <2>3. ASSUME NEW b \in frozen', Outdated(b) PROVE Outdated(b)'
    <3>1. b \in setting' \/ wcache'.epoch < epoch'
      BY <1>1, <1>3, <2>3 DEF Outdated
    <3>2. CASE pending' = NoReq \/ pending'.op \in {"read", "truncate"}
      BY <3>1, <3>2 DEF Outdated, NoReq
    <3>3. CASE pending'.epoch = epoch /\ pending'.raced = setting
      BY <1>1, <3>1, <3>3 DEF Outdated
    <3> QED BY <2>1, <3>2, <3>3
  <2> QED BY <1>1, <1>3, <2>2, <2>3, DescriptorKept
<1> QED BY <1>1, <1>2, <1>3

\* A write that finds no descriptor opens one of a branch that is not frozen.
LEMMA DescriptorOpen ==
    ASSUME MountInv, InodesInverse, TypeInv, DescriptorInv, WriteOpen
    PROVE  DescriptorInv'
<1> DEFINE p == inoPath[pending.ino]
           b == BranchOf(p)
<1>1. UNCHANGED <<frozen, delta, epoch, setting>>
  BY DEF WriteOpen, Refuse, manager
<1>2. \/ pending' = NoReq /\ wcache' = wcache
      \/ /\ pending.ino \in DOMAIN inoPath /\ HasDelta(b, p.file) /\ b \notin frozen
         /\ wcache' = [ino |-> pending.ino, epoch |-> pending.epoch, obj |-> delta[b][p.file]]
  BY DEF WriteOpen, Serve, Refuse, Writable
<1>3. CASE pending' = NoReq /\ wcache' = wcache
  <2>1. PlacesKept
    BY <1>1 DEF PlacesKept
  <2>2. pending'.op \notin {"write", "opened"}
    BY <1>3 DEF NoReq
  <2> QED BY <1>1, <1>3, <2>1, <2>2, OutdatedKept, DescriptorKept
<1>4. CASE /\ pending.ino \in DOMAIN inoPath /\ HasDelta(b, p.file) /\ b \notin frozen
           /\ wcache' = [ino |-> pending.ino, epoch |-> pending.epoch, obj |-> delta[b][p.file]]
  <2>1. pending.op = "write"
    BY DEF WriteOpen
  <2>2. p.file # Top
    BY <1>4, <2>1 DEF TypeInv, PendingInv, Serving
  <2>3. b \in Branch /\ p.file \in File /\ wcache'.obj = delta[b][p.file]
    BY <1>4, <2>2, KnownPath, BranchOfType
  <2> HIDE DEF p, b
  <2>4. ASSUME NEW c \in frozen, NEW g \in File PROVE delta[c][g] # delta[b][p.file]
    BY <1>4, <2>3 DEF TypeInv, TableInv, StoreInv
  <2> QED BY <1>1, <2>3, <2>4 DEF DescriptorInv
<1> QED BY <1>2, <1>3, <1>4

\* A client's operation.  Freezing outdates the descriptors of the branch when
\* the epoch advances; a request that is under way has met it.
LEMMA DescriptorClient ==
    ASSUME MountInv, TypeInv, DescriptorInv, NEW b \in Branch, Client(b)
    PROVE  DescriptorInv'
<1>1. /\ UNCHANGED wcache /\ Meanwhile({b}) /\ Operation(b)
  BY DEF Client, mount, Operation
<1>2. /\ pending'.op = pending.op /\ pending'.epoch = pending.epoch
      /\ pending.raced \subseteq pending'.raced
      /\ pending # NoReq => pending'.raced = pending.raced \union {b}
  BY <1>1, MeanwhilePending DEF TypeInv
<1>3. PlacesKept
  BY <1>1, OperationIsBranchStep, PlacesKeptByBranch DEF TypeInv
<1>4. wcache.epoch \in Nat /\ wcache.epoch <= epoch /\ epoch \in Nat
  BY DEF TypeInv, CacheInv, Cache, TableInv
<1>5. ASSUME NEW c, Outdated(c)
      PROVE  pending'.op \in {"write", "opened"} => c \in pending'.raced \/ wcache'.epoch < pending'.epoch
  BY <1>1, <1>2, <1>5 DEF Outdated
<1>6. CASE Freeze(b) /\ setting = {}
  <2>1. frozen' = frozen \union {b} /\ setting' = {b} /\ UNCHANGED <<epoch, delta>>
    BY <1>6 DEF Freeze
  <2>2. Outdated(b)'
    <3>1. pending'.op \in {"write", "opened"} => b \in pending'.raced
      BY <1>2 DEF NoReq
    <3> QED BY <2>1, <3>1 DEF Outdated
  <2>3. ASSUME NEW c \in frozen, Outdated(c) PROVE Outdated(c)'
    <3>1. wcache'.epoch < epoch'
      BY <1>1, <1>6, <2>1, <2>3 DEF Outdated
    <3> QED BY <1>5, <2>3, <3>1 DEF Outdated
  <2> QED BY <1>1, <2>1, <2>2, <2>3 DEF DescriptorInv
<1>7. CASE StateSet(b)
  <2>1. UNCHANGED frozen /\ epoch' = epoch + 1
    BY <1>7 DEF StateSet
  <2>2. wcache'.epoch < epoch'
    BY <1>1, <1>4, <2>1
  <2>3. ASSUME NEW c \in frozen', Outdated(c) PROVE Outdated(c)'
    BY <1>5, <2>2, <2>3 DEF Outdated
  <2> QED BY <1>1, <1>3, <2>1, <2>3, DescriptorKept
<1>8. CASE ~Freeze(b) /\ setting = {}
  <2>1. frozen' \subseteq frozen
    BY <1>1, <1>8, OperationThaws
  <2>2. epoch' = epoch \/ epoch' = epoch + 1
    BY <1>1 DEF Operation, Create, Commit, Abort, Freeze, Thaw, StateSet, Revert
  <2>3. ASSUME NEW c \in frozen', Outdated(c) PROVE Outdated(c)'
    <3>1. wcache.epoch < epoch
      BY <1>8, <2>3 DEF Outdated
    <3>2. wcache'.epoch < epoch'
      BY <1>1, <1>4, <2>2, <3>1
    <3> QED BY <1>5, <2>3, <3>2 DEF Outdated
  <2> QED BY <1>1, <1>3, <2>1, <2>3, DescriptorKept
<1>9. setting = {} \/ StateSet(b)
  BY DEF Client, Create, Commit, Abort, TableFree
<1> QED BY <1>6, <1>7, <1>8, <1>9

\* Every step keeps it.
LEMMA DescriptorStep ==
    ASSUME MountInv, InodesInverse, TypeInv, DescriptorInv, [Next]_vars
    PROVE  DescriptorInv'
<1>0. PendingInv /\ StoreInv /\ TableInv /\ Empty \in Nat
  BY DEF TypeInv, Empty
<1>1. ASSUME UNCHANGED <<delta, frozen, epoch, setting, wcache>>,
             pending' = pending \/ pending'.op \notin {"write", "opened"}
      PROVE  DescriptorInv'
  BY <1>1 DEF DescriptorInv, Outdated
<1>2. ASSUME NEW b \in Branch, NEW f \in File, FileStep(b, f),
             UNCHANGED <<frozen, epoch, setting, wcache>>,
             pending' = NoReq \/ Meanwhile({})
      PROVE  DescriptorInv'
  <2>1. PlacesKept
    BY <1>2, PlacesKeptByFile
  <2>2. \/ pending'.op \notin {"write", "opened"}
        \/ /\ pending.op \in {"write", "opened"} /\ pending'.epoch = pending.epoch
           /\ pending.raced \subseteq pending'.raced
    <3>1. CASE pending' = NoReq
      BY <3>1 DEF NoReq
    <3>2. CASE Meanwhile({})
      BY <1>0, <3>2, MeanwhilePending
    <3> QED BY <1>2, <3>1, <3>2
  <2> QED BY <1>2, <2>1, <2>2, OutdatedKept, DescriptorKept
<1>3. ASSUME NEW q \in InoPath, Lookup(q) \/ CreateFile(q) \/ Unlink(q) PROVE DescriptorInv'
  <2>1. UNCHANGED <<delta, frozen, epoch, setting, wcache>>
    BY <1>3 DEF Lookup, CreateFile, Unlink, manager, mount
  <2>2. pending' = pending \/ pending'.op = "create"
    <3>1. CASE CreateFile(q)
      <4>1. Checked("create", q) /\ pending = NoReq
        BY <3>1 DEF CreateFile
      <4> QED BY <4>1, CheckedPending
    <3> QED BY <1>3, <3>1 DEF Lookup, Unlink
  <2> QED BY <1>1, <2>1, <2>2
<1>4. ASSUME NEW i, Begin("read", i) \/ Begin("write", i) \/ Truncate(i) PROVE DescriptorInv'
  BY <1>4, DescriptorBegin
<1>5. CASE ReadCached \/ ReadOpen \/ WriteCached \/ WriteOpened
  <2>1. UNCHANGED <<delta, frozen, epoch, setting, wcache>> /\ pending' = NoReq
    BY <1>5 DEF ReadCached, ReadOpen, WriteCached, WriteOpened, Refuse, Serve, manager
  <2> QED BY <1>1, <2>1 DEF NoReq
<1>6. CASE WriteOpen
  BY <1>6, DescriptorOpen
<1>7. ASSUME NEW op \in {"create", "truncate"}, EmptyFile(op) PROVE DescriptorInv'
  <2>1. /\ PutInDelta(BranchOf(pending.path), pending.path.file, Empty) /\ Emptying /\ UNCHANGED base
        /\ UNCHANGED <<frozen, epoch, setting, wcache>> /\ pending' = NoReq
    BY <1>7 DEF EmptyFile, Serve, Emptying
  <2>2. PICK b \in Branch, f \in File : b = BranchOf(pending.path) /\ f = pending.path.file
    BY <1>0, <2>1, BranchOfType DEF MountInv, PendingInv
  <2>3. FileStep(b, f)
    BY <1>0, <2>1, <2>2, PutIsFileStep
  <2> QED BY <1>2, <2>1, <2>3
<1>8. CASE RunJob
  <2>1. PICK b \in Branch, f \in File : b = Head(queue).branch /\ f = Head(queue).path.file
    BY <1>8, JobIsFileStep DEF Job
  <2>2. FileStep(b, f) /\ UNCHANGED <<frozen, epoch, setting, wcache>> /\ Meanwhile({})
    BY <1>8, <2>1, JobIsFileStep
  <2> QED BY <1>2, <2>2
<1>9. ASSUME NEW o \in other, OtherEnds(o) PROVE DescriptorInv'
  <2>1. PICK b \in Branch, f \in File : b = o.branch /\ f = o.file
    BY <1>9, OtherIsFileStep
  <2>2. FileStep(b, f) /\ UNCHANGED <<frozen, epoch, setting, wcache>> /\ Meanwhile({})
    BY <1>9, <2>1, OtherIsFileStep
  <2> QED BY <1>2, <2>2
<1>10. ASSUME NEW b \in Branch, CtlCreate(b) \/ CtlFinish(b) \/ IoctlFinish(b) PROVE DescriptorInv'
  <2>1. UNCHANGED wcache /\ pending' = NoReq /\ (Create(b) \/ Commit(b) \/ Abort(b))
    BY <1>10 DEF CtlCreate, CtlFinish, IoctlFinish
  <2>2. /\ setting = {} /\ frozen' \subseteq frozen /\ Operation(b)
        /\ epoch' = epoch \/ epoch' = epoch + 1
    BY <2>1 DEF Create, Commit, Abort, TableFree, Operation
  <2>3. PlacesKept
    BY <1>0, <2>2, OperationIsBranchStep, PlacesKeptByBranch
  <2>4. ASSUME NEW c \in frozen', Outdated(c) PROVE Outdated(c)'
    <3>1. wcache.epoch < epoch
      BY <2>2, <2>4 DEF Outdated
    <3>2. wcache.epoch \in Nat /\ epoch \in Nat
      BY DEF TypeInv, CacheInv, Cache, TableInv
    <3>3. wcache'.epoch < epoch'
      BY <2>1, <2>2, <3>1, <3>2
    <3> QED BY <2>1, <3>3 DEF Outdated, NoReq
  <2> QED BY <2>1, <2>2, <2>3, <2>4, DescriptorKept
<1>11. ASSUME NEW b \in Branch, Client(b) PROVE DescriptorInv'
  BY <1>11, DescriptorClient
<1>12. (\E b \in Branch : Switch(b)) \/ Quiet \/ UNCHANGED vars
         => UNCHANGED <<delta, frozen, epoch, setting, wcache, pending>>
  BY QuietFacts DEF Switch, vars, manager, mount
<1> QED BY <1>1, <1>3, <1>4, <1>5, <1>6, <1>7, <1>8, <1>9, <1>10, <1>11, <1>12 DEF Next, Quiet

\* Both.
LEMMA FrozenStep ==
    ASSUME MountInv, InodesInverse, TypeInv, FrozenInv, [Next]_vars
    PROVE  FrozenInv' /\ FrozenKept
  BY KeptStep, LateStep, DescriptorStep DEF FrozenInv

\* Whatever requests, jobs, commands and clients interleave, the files of a
\* branch that stays frozen keep their content, but for the operations that
\* were under way when it was frozen: freezing changes the epoch, no write
\* descriptor of the new epoch is an object of a frozen branch, and whoever
\* checks the state after that is refused.
THEOREM FrozenStays == Spec => FrozenKeepsContent
<1> DEFINE I == MountInv /\ InodesInverse /\ TypeInv /\ FrozenInv
<1>1. Init => I
  BY MountStarts, TypesStart DEF Init, FrozenInv, DescriptorInv, LateInv, Emptying, NoReq, NoCache
<1>2. I /\ [Next]_vars => I' /\ [FrozenKept]_vars
  BY TypeStep, FrozenStep
<1>3. FrozenKeepsContent <=> [][FrozenKept]_vars
  BY PTL DEF FrozenKeepsContent, FrozenKept
<1> QED BY <1>1, <1>2, <1>3, PTL DEF Spec

----------------------------------------------------------------------------
(* The request under way                                                   *)

\* The steps that end a request, but for the slow path of write.
Finishes ==
    \/ ReadCached \/ ReadOpen \/ WriteCached \/ WriteOpened
    \/ EmptyFile("create") \/ EmptyFile("truncate")

LEMMA FinishesEnd == Finishes => pending' = NoReq
  BY DEF Finishes, ReadCached, ReadOpen, WriteCached, WriteOpened, EmptyFile, Serve

\* None is under way.
LEMMA NoneServes == pending' = NoReq => ~Serving' /\ ~Emptying'
  BY DEF NoReq, Serving, Emptying

\* What a behaviour has met it has met for good.
LEMMA RiskGrows == [Next]_vars => (risk' = {} => risk = {})
<1> SUFFICES ASSUME [Next]_vars, risk' = {} PROVE risk = {}
  OBVIOUS
<1>1. ASSUME NEW p \in InoPath, Lookup(p) \/ CreateFile(p) \/ Unlink(p) PROVE risk = {}
  BY <1>1 DEF Lookup, CreateFile, Unlink, Checked, Risks
<1>2. ASSUME NEW i, Begin("read", i) \/ Begin("write", i) \/ Truncate(i) PROVE risk = {}
  BY <1>2 DEF Begin, Truncate, Checked, Risks
<1>3. CASE WriteOpen \/ Finishes
  BY <1>3 DEF Finishes, ReadCached, ReadOpen, WriteCached, WriteOpen, WriteOpened, EmptyFile, Refuse, Risks
<1>4. CASE StartJob \/ RunJob
  BY <1>4 DEF StartJob, RunJob
<1>5. ASSUME NEW b \in Branch,
             Switch(b) \/ CtlCreate(b) \/ CtlFinish(b) \/ IoctlFinish(b) \/ Client(b)
      PROVE  risk = {}
  BY <1>5 DEF Switch, CtlCreate, CtlFinish, IoctlFinish, Client, Risks
<1>6. ASSUME NEW op, NEW b, NEW f, OtherBegins(op, b, f) PROVE risk = {}
  BY <1>6 DEF OtherBegins
<1>7. ASSUME NEW o, OtherEnds(o) PROVE risk = {}
  BY <1>7 DEF OtherEnds, Risks
<1>8. CASE UNCHANGED vars
  BY <1>8 DEF vars
<1> QED BY <1>1, <1>2, <1>3, <1>4, <1>5, <1>6, <1>7, <1>8 DEF Next, Finishes

\* A number whose path is not forgotten stays.
LEMMA ForgetOther ==
    ASSUME InodesInverse, NEW q, Forget({q})
    PROVE  /\ \A i \in DOMAIN inoPath :
                 inoPath[i] # q => i \in DOMAIN inoPath' /\ inoPath'[i] = inoPath[i]
           /\ \A i \in DOMAIN inoPath : inoPath[i] = q => i \notin DOMAIN inoPath'
<1>1. inoPath' = [i \in DOMAIN inoPath \ {pathIno[r] : r \in {q} \intersect DOMAIN pathIno} |->
                      inoPath[i]]
  BY DEF Forget
<1>2. \A i \in DOMAIN inoPath :
          i \in {pathIno[r] : r \in {q} \intersect DOMAIN pathIno} <=> inoPath[i] = q
  BY DEF InodesInverse
<1> QED BY <1>1, <1>2

\* The steps that anyone else takes while a request may be under way, and that
\* change the store.
Async ==
    \/ RunJob
    \/ \E b \in Branch : Client(b)
    \/ \E o \in other : OtherEnds(o)

\* A step is asynchronous, or begins or ends a request, or finds none and
\* leaves none to be served with a descriptor.
LEMMA OneRequest ==
    ASSUME [Next]_vars
    PROVE  \/ Async \/ Quiet \/ UNCHANGED vars
           \/ \E i \in RootIno + 1 .. nextIno - 1 : Begin("read", i) \/ Begin("write", i)
           \/ WriteOpen \/ Finishes
           \/ pending = NoReq /\ ~Serving'
<1>1. ASSUME NEW p \in InoPath, Lookup(p) \/ CreateFile(p) \/ Unlink(p)
      PROVE  pending = NoReq /\ ~Serving'
  <2>1. CASE CreateFile(p)
    <3>1. pending = NoReq /\ (pending' = NoReq \/ pending'.op = "create")
      BY <2>1, CheckedPending DEF CreateFile
    <3> QED BY <3>1 DEF Serving, NoReq
  <2>2. CASE Lookup(p) \/ Unlink(p)
    BY <2>2, NoneServes DEF Lookup, Unlink
  <2> QED BY <1>1, <2>1, <2>2
<1>2. ASSUME NEW i, Truncate(i) PROVE pending = NoReq /\ ~Serving'
  <2>1. Checked("truncate", inoPath[i]) /\ pending = NoReq
    BY <1>2 DEF Truncate
  <2>2. pending' = NoReq \/ pending'.op = "truncate"
    BY <2>1, CheckedPending
  <2> QED BY <2>1, <2>2 DEF Serving, NoReq
<1>3. ASSUME NEW b, Switch(b) \/ CtlCreate(b) \/ CtlFinish(b) \/ IoctlFinish(b)
      PROVE  pending = NoReq /\ ~Serving'
  BY <1>3, NoneServes DEF Switch, CtlCreate, CtlFinish, IoctlFinish
<1> QED BY <1>1, <1>2, <1>3 DEF Next, Async, Quiet, Finishes

\* The worker, the clients and other mounts leave the number, the operation,
\* the path and the epoch of the request, add to what it has seen, and leave
\* its file in the table.
LEMMA AsyncPending ==
    ASSUME MountInv, InodesInverse, TypeInv, SeenInv, [Next]_vars, Async
    PROVE  /\ UNCHANGED <<mounted, rcache, wcache>>
           /\ pending'.epoch = pending.epoch /\ pending'.ino = pending.ino
           /\ pending'.op = pending.op /\ pending'.path = pending.path
           /\ pending = NoReq => pending' = NoReq
           /\ pending # NoReq => pending' # NoReq
           /\ Serving =>
                 /\ pending.seen \subseteq pending'.seen
                 /\ Visible(pending.ino)' \subseteq pending'.seen
                 /\ risk' = {} => /\ risk = {} /\ pending.ino \in DOMAIN inoPath'
                                  /\ inoPath'[pending.ino] = inoPath[pending.ino]
                                  /\ \A k \in DOMAIN queue' :
                                        queue'[k].path.file # inoPath[pending.ino].file
<1>0. /\ MountInv' /\ InodesInverse' /\ nextIno' >= nextIno
      /\ \A i \in DOMAIN inoPath' :
            IF i \in DOMAIN inoPath THEN inoPath'[i] = inoPath[i] ELSE i >= nextIno
  BY NumbersStep
<1>1. TypeInv'
  BY TypeStep
<1>2. epoch \in Nat /\ epoch' \in Nat /\ nextIno \in Nat /\ nextIno' \in Nat
  BY <1>0, <1>1 DEF TypeInv, TableInv, InodesInverse
<1>3. UNCHANGED <<mounted, rcache, wcache>>
  BY JobIsFileStep, OtherIsFileStep DEF Async, Client, mount
<1>4. \E B \in SUBSET Branch : Meanwhile(B) /\ epoch' >= epoch
                              /\ (B = {} => epoch' = epoch /\ alive' = alive)
  <2>0. epoch' \in {epoch, epoch + 1} => epoch' >= epoch
    BY <1>2
  <2>1. ASSUME RunJob PROVE Meanwhile({}) /\ epoch' = epoch /\ alive' = alive
    BY <2>1, JobIsFileStep
  <2>2. ASSUME NEW b \in Branch, Client(b) PROVE Meanwhile({b}) /\ epoch' >= epoch
    <3>1. Operation(b) /\ Meanwhile({b})
      BY <2>2 DEF Client, Operation
    <3>2. epoch' \in {epoch, epoch + 1}
      BY <3>1, OperationIsBranchStep DEF TypeInv, BranchStep
    <3> QED BY <2>0, <3>1, <3>2
  <2>3. ASSUME NEW o \in other, OtherEnds(o)
        PROVE  Meanwhile({}) /\ epoch' = epoch /\ alive' = alive
    BY <2>3, OtherIsFileStep
  <2>4. CASE RunJob \/ \E o \in other : OtherEnds(o)
    <3>1. Meanwhile({}) /\ epoch' = epoch /\ alive' = alive /\ epoch' >= epoch
      BY <2>0, <2>1, <2>3, <2>4
    <3>2. {} \in SUBSET Branch
      OBVIOUS
    <3> QED BY <3>1, <3>2
  <2>5. CASE \E b \in Branch : Client(b)
    <3>1. PICK b \in Branch : Client(b)
      BY <2>5
    <3>2. Meanwhile({b}) /\ epoch' >= epoch /\ {b} \in SUBSET Branch /\ {b} # {}
      BY <2>2, <3>1
    <3> QED BY <3>2
  <2> QED BY <2>4, <2>5 DEF Async
<1>5. /\ pending'.epoch = pending.epoch /\ pending'.ino = pending.ino
      /\ pending'.op = pending.op /\ pending'.path = pending.path
      /\ pending = NoReq => pending' = NoReq
      /\ pending # NoReq =>
            /\ pending' # NoReq /\ pending.seen \subseteq pending'.seen
            /\ Visible(pending.ino)' \subseteq pending'.seen
  BY <1>0, <1>2, <1>3, <1>4, MeanwhileTypes DEF TypeInv
<1>6. ASSUME Serving, risk' = {}
      PROVE  /\ risk = {} /\ pending.ino \in DOMAIN inoPath'
             /\ inoPath'[pending.ino] = inoPath[pending.ino]
             /\ \A k \in DOMAIN queue' :
                   queue'[k].path.file # inoPath[pending.ino].file
  <2>1. risk = {}
    BY <1>6, RiskGrows
  <2>2. /\ pending.ino \in DOMAIN inoPath
        /\ \A k \in DOMAIN queue : queue[k].path.file # inoPath[pending.ino].file
    BY <1>6, <2>1 DEF SeenInv
  <2>3. CASE UNCHANGED inodes /\ UNCHANGED queue
    BY <2>1, <2>2, <2>3 DEF inodes
  <2>4. CASE RunJob
    <3>1. queue # <<>> /\ queue' = Tail(queue) /\ queue \in Seq(Job)
      BY <2>4, JobIsFileStep DEF MountInv
    <3>2. UNCHANGED inodes \/ Forget({Head(queue).path})
      BY <2>4 DEF RunJob
    <3>3. Head(queue).path.file # inoPath[pending.ino].file
      BY <2>2, <3>1
    <3>4. \A k \in DOMAIN queue' : queue'[k].path.file # inoPath[pending.ino].file
      BY <2>2, <3>1
    <3>5. pending.ino \in DOMAIN inoPath' /\ inoPath'[pending.ino] = inoPath[pending.ino]
      <4>1. CASE UNCHANGED inodes
        BY <2>2, <4>1 DEF inodes
      <4>2. CASE Forget({Head(queue).path})
        BY <2>2, <3>3, <4>2, ForgetOther
      <4> QED BY <3>2, <4>1, <4>2
    <3> QED BY <2>1, <3>4, <3>5
  <2>5. RunJob \/ (UNCHANGED inodes /\ UNCHANGED queue)
    BY OtherIsFileStep DEF Async, Client
  <2> QED BY <2>3, <2>4, <2>5
<1>7. Serving => pending # NoReq
  BY DEF Serving, NoReq
<1> QED BY <1>3, <1>5, <1>6, <1>7

\* What is visible is read from the store, the table and the mount's branch.
LEMMA VisibleAlone ==
    ASSUME NEW i, UNCHANGED <<inoPath, mounted, delta, base, data>>
    PROVE  Visible(i)' = Visible(i)
  BY DEF Visible, Content, Resolve, Inherited, BranchOf

\* The first half of a request.
LEMMA BeginFacts ==
    ASSUME NEW op, NEW i, Begin(op, i)
    PROVE  /\ UNCHANGED <<nextIno, pathIno, inoPath, alive, frozen, base, delta, epoch, data,
                          mounted, wcache, queue>>
           /\ rcache' = rcache \/ op = "write"
           /\ op = "write" => rcache' = IF rcache.ino = i THEN NoCache ELSE rcache
           /\ pending = NoReq
           /\ \/ pending' = NoReq
              \/ /\ pending' = [op |-> op, ino |-> i, path |-> RootPath, epoch |-> epoch,
                                seen |-> Visible(i), raced |-> setting]
                 /\ mounted \in alive
           /\ risk' = {} => /\ i \in DOMAIN inoPath
                            /\ \A k \in DOMAIN queue : queue[k].path.file # inoPath[i].file
<1>1. /\ UNCHANGED <<nextIno, pathIno, inoPath, alive, frozen, base, delta, epoch, data,
                     mounted, wcache, queue>>
      /\ curEpoch' = epoch
  BY DEF Begin, manager, inodes, jobs, RefreshEpoch
<1>2. /\ rcache' = rcache \/ op = "write"
      /\ op = "write" => rcache' = IF rcache.ino = i THEN NoCache ELSE rcache
  BY DEF Begin, InvalidateRead
<1>3. /\ pending = NoReq
      /\ \/ pending' = NoReq
         \/ /\ pending' = [op |-> op, ino |-> i, path |-> RootPath, epoch |-> curEpoch',
                           seen |-> Visible(i), raced |-> setting]
            /\ mounted \in alive
  BY DEF Begin
<1>4. ASSUME risk' = {}
      PROVE  /\ i \in DOMAIN inoPath
             /\ \A k \in DOMAIN queue : queue[k].path.file # inoPath[i].file
  <2>1. i \in DOMAIN inoPath
    BY <1>4 DEF Begin, Risks
  <2>2. Overlap(inoPath[i]) = {}
    BY <1>4, <2>1 DEF Begin, Risks
  <2> QED BY <2>1, <2>2 DEF Overlap
<1> QED BY <1>1, <1>2, <1>3, <1>4

\* The slow path of write: a first write becomes a job, a later one opens a
\* descriptor; neither is answered yet.
LEMMA WriteOpenFacts ==
    ASSUME MountInv, InodesInverse, TypeInv, WriteOpen
    PROVE  /\ pending.op = "write" /\ pending # NoReq
           /\ ~Cached(wcache, pending.ino, pending.epoch)
           /\ UNCHANGED <<nextIno, pathIno, inoPath, mounted, req, alive, frozen, base, delta,
                          epoch, data, rcache>>
           /\ ~reply'.ok
           /\ \/ pending' = NoReq /\ UNCHANGED <<wcache, queue, risk>>
              \/ \E q \in InoPath, d \in Branch :
                    /\ pending.ino \in DOMAIN inoPath /\ q = inoPath[pending.ino]
                    /\ queue' = Append(queue, [op |-> "write", branch |-> d, path |-> q,
                                               id |-> req])
                    /\ risk' = risk \union Alias(q)
                    /\ pending' = NoReq /\ UNCHANGED wcache
              \/ \E q \in InoPath, d \in Branch :
                    /\ pending.ino \in DOMAIN inoPath /\ q = inoPath[pending.ino]
                    /\ d = BranchOf(q) /\ q.file \in File
                    /\ Writable(d) /\ HasDelta(d, q.file)
                    /\ wcache' = [ino |-> pending.ino, epoch |-> pending.epoch,
                                  obj |-> delta[d][q.file]]
                    /\ pending' = [pending EXCEPT !.op = "opened", !.path = q]
                    /\ UNCHANGED <<queue, risk>>
<1>0. pending.op = "write" /\ pending # NoReq /\ ~Cached(wcache, pending.ino, pending.epoch)
  BY DEF WriteOpen, NoReq
<1>1. UNCHANGED <<inodes, manager, mounted, req, rcache>>
  BY DEF WriteOpen, Serve, Refuse
<1>2. UNCHANGED <<nextIno, pathIno, inoPath, mounted, req, alive, frozen, base, delta,
                  epoch, data, rcache>>
  BY <1>1 DEF inodes, manager
<1>3. CASE \/ pending.ino \notin DOMAIN inoPath
           \/ /\ ~Writable(BranchOf(inoPath[pending.ino]))
              /\ \/ inoPath[pending.ino].br # Here
                 \/ HasDelta(BranchOf(inoPath[pending.ino]), inoPath[pending.ino].file)
  <2>1. Refuse /\ Serve("write")
    BY <1>3 DEF WriteOpen
  <2> QED BY <1>0, <1>2, <2>1 DEF Refuse, Serve, Answer
<1>4. CASE /\ pending.ino \in DOMAIN inoPath
           /\ ~ /\ ~Writable(BranchOf(inoPath[pending.ino]))
                /\ \/ inoPath[pending.ino].br # Here
                   \/ HasDelta(BranchOf(inoPath[pending.ino]), inoPath[pending.ino].file)
  <2>1. PICK q \in InoPath : q = inoPath[pending.ino] /\ q.file \in File
    BY <1>0, <1>4, KnownPath DEF TypeInv, PendingInv, Serving
  <2>2. PICK d \in Branch : d = BranchOf(q)
    BY BranchOfType
  <2>3. CASE ~HasDelta(d, q.file)
    <3>1. /\ queue' = Append(queue, [op |-> "write", branch |-> d, path |-> q, id |-> req])
          /\ risk' = risk \union Alias(q) /\ Serve("write")
          /\ Silent /\ UNCHANGED <<manager, curEpoch, rcache, wcache>>
      BY <1>4, <2>1, <2>2, <2>3 DEF WriteOpen, Risks
    <3>2. pending' = NoReq /\ ~reply'.ok
      BY <3>1 DEF Serve, Silent, NoReply
    <3> QED BY <1>0, <1>2, <1>4, <2>1, <3>1, <3>2
  <2>4. CASE HasDelta(d, q.file)
    <3>1. /\ wcache' = [ino |-> pending.ino, epoch |-> pending.epoch, obj |-> delta[d][q.file]]
          /\ pending' = [pending EXCEPT !.op = "opened", !.path = q]
          /\ Silent /\ UNCHANGED <<jobs, risk>>
      BY <1>4, <2>1, <2>2, <2>4 DEF WriteOpen
    <3>2. Writable(d)
      BY <1>4, <2>1, <2>2, <2>4
    <3>3. UNCHANGED <<queue, risk>> /\ ~reply'.ok
      BY <3>1 DEF jobs, Silent, NoReply
    <3> QED BY <1>0, <1>2, <1>4, <2>1, <2>2, <2>4, <3>1, <3>2, <3>3
  <2> QED BY <2>3, <2>4
<1> QED BY <1>3, <1>4

\* The request goes on as it was.
LEMMA WriteOpenGoesOn ==
    ASSUME MountInv, InodesInverse, TypeInv, WriteOpen, pending' # NoReq
    PROVE  /\ pending'.op = "opened" /\ pending'.ino = pending.ino /\ pending'.epoch = pending.epoch
           /\ pending'.seen = pending.seen /\ pending'.raced = pending.raced
           /\ UNCHANGED <<queue, risk>>
<1>1. PICK q : pending' = [pending EXCEPT !.op = "opened", !.path = q] /\ UNCHANGED <<queue, risk>>
  BY WriteOpenFacts
<1>2. pending \in PendingOf(pending.seen)
  BY DEF TypeInv, PendingInv
<1> QED BY <1>1, <1>2 DEF PendingOf

\* Every step keeps what is known of the request under way.
LEMMA SeenStep ==
    ASSUME MountInv, InodesInverse, TypeInv, SeenInv, [Next]_vars
    PROVE  SeenInv'
<1>1. CASE Async
  <2>1. pending'.op = pending.op
    BY <1>1, AsyncPending
  <2>2. CASE ~Serving
    BY <2>1, <2>2 DEF SeenInv, Serving
  <2>3. CASE Serving
    <3>1. PICK i : i = pending.ino
      OBVIOUS
    <3>2. /\ pending'.ino = i /\ Visible(pending.ino)' \subseteq pending'.seen
          /\ risk' = {} => /\ i \in DOMAIN inoPath' /\ inoPath'[i] = inoPath[i]
                           /\ \A k \in DOMAIN queue' : queue'[k].path.file # inoPath[i].file
      BY <1>1, <2>3, <3>1, AsyncPending
    <3> QED BY <3>2 DEF SeenInv
  <2> QED BY <2>2, <2>3
<1>2. ASSUME NEW op, NEW i, Begin(op, i) PROVE SeenInv'
  <2>1. CASE pending' = NoReq
    BY <2>1, NoneServes DEF SeenInv
  <2>2. CASE pending' # NoReq
    <3>1. /\ pending'.ino = i /\ pending'.seen = Visible(i)
          /\ UNCHANGED <<inoPath, mounted, delta, base, data, queue>>
      BY <1>2, <2>2, BeginFacts
    <3>2. Visible(i)' = Visible(i)
      BY <3>1, VisibleAlone
    <3>3. Visible(pending.ino)' = Visible(i)'
      BY <3>1 DEF Visible
    <3>4. risk' = {} => /\ i \in DOMAIN inoPath
                        /\ \A k \in DOMAIN queue : queue[k].path.file # inoPath[i].file
      BY <1>2, BeginFacts
    <3> QED BY <3>1, <3>2, <3>3, <3>4 DEF SeenInv
  <2> QED BY <2>1, <2>2
<1>3. CASE ~Serving'
  BY <1>3 DEF SeenInv
<1>4. CASE Finishes
  BY <1>3, <1>4, FinishesEnd, NoneServes
<1>5. CASE WriteOpen /\ pending' # NoReq
  <2>1. PICK i, S : i = pending.ino /\ S = pending.seen
    OBVIOUS
  <2>2. /\ pending'.ino = i /\ pending'.seen = S
        /\ UNCHANGED <<inoPath, mounted, delta, base, data, queue, risk>> /\ pending.op = "write"
    BY <1>5, <2>1, WriteOpenFacts, WriteOpenGoesOn
  <2>3. /\ Visible(pending.ino) \subseteq S
        /\ risk = {} => /\ i \in DOMAIN inoPath
                        /\ \A k \in DOMAIN queue : queue[k].path.file # inoPath[i].file
    BY <2>1, <2>2 DEF SeenInv, Serving
  <2>4. Visible(pending.ino)' = Visible(i)' /\ Visible(i)' = Visible(i) /\ Visible(i) = Visible(pending.ino)
    BY <2>1, <2>2, VisibleAlone DEF Visible
  <2> QED BY <2>2, <2>3, <2>4 DEF SeenInv
<1>6. CASE Quiet \/ UNCHANGED vars
  <2>1. /\ UNCHANGED <<inoPath, mounted, delta, base, data, pending>>
        /\ queue' = queue \/ (queue # <<>> /\ queue' = Tail(queue))
        /\ risk' = {} => risk = {}
    BY <1>6, QuietFacts DEF vars, inodes, manager, mount, jobs
  <2>2. queue \in Seq(Job)
    BY DEF MountInv
  <2>3. \A k \in DOMAIN queue' : \E l \in DOMAIN queue : queue'[k] = queue[l]
    <3>1. CASE queue' = queue
      BY <3>1
    <3>2. CASE queue # <<>> /\ queue' = Tail(queue)
      <4>1. \A k \in DOMAIN queue' : k + 1 \in DOMAIN queue /\ queue'[k] = queue[k + 1]
        BY <2>2, <3>2
      <4> QED BY <4>1
    <3> QED BY <2>1, <3>1, <3>2
  <2>4. Visible(pending.ino)' = Visible(pending.ino)
    BY <2>1 DEF Visible, Content, Resolve, Inherited, BranchOf
  <2> QED BY <2>1, <2>3, <2>4 DEF SeenInv, Serving
<1>7. WriteOpen /\ pending' = NoReq => ~Serving'
  BY NoneServes
<1> QED BY <1>1, <1>2, <1>3, <1>4, <1>5, <1>6, <1>7, OneRequest

----------------------------------------------------------------------------
(* Descriptors that will be used again                                     *)

\* The file p of b has an object, if b is alive.
Held(p, b) ==
    /\ Steady(p, b)
    /\ b \in alive => Resolve(b, p.file) # Gone

\* A step after which the descriptors of p of b are as good as before.
SameFile(p, b) ==
    /\ Steady(p, b)'
    /\ b \in alive' => /\ b \in alive /\ delta'[b][p.file] = delta[b][p.file]
                       /\ Resolve(b, p.file)' = Resolve(b, p.file)

\* No change of the store and no job.
LEMMA Untouched ==
    ASSUME NEW p, NEW b, Held(p, b), UNCHANGED <<alive, base, delta, queue>>,
           Emptying' => Emptying /\ pending'.path = pending.path
    PROVE  SameFile(p, b)
<1>1. Emptying' => pending'.path.file # p.file
  BY DEF Held, Steady
<1>2. Steady(p, b)'
  BY <1>1 DEF Held, Steady
<1> QED BY <1>2 DEF Held, SameFile, Resolve, Inherited

\* A step on another file.
LEMMA OtherFile ==
    ASSUME TypeInv, NEW p \in InoPath, NEW b \in Branch, NEW c \in Branch, NEW f \in File,
           p.file \in File, p.file # f, FileStep(c, f)
    PROVE  /\ delta'[b][p.file] = delta[b][p.file]
           /\ Resolve(b, p.file)' = Resolve(b, p.file)
<1>1. /\ delta'[b][p.file] = delta[b][p.file]
      /\ delta'[Main][p.file] = delta[Main][p.file] /\ base' = base
  BY BranchAssumption DEF FileStep
<1> QED BY <1>1 DEF Resolve, Inherited

\* A fresh descriptor's path is in the table, under the descriptor's number.
LEMMA FreshKnown ==
    ASSUME InodesInverse, NEW c, NEW p, NEW b, Fresh(c, p, b)
    PROVE  p \in DOMAIN pathIno /\ pathIno[p] = c.ino /\ BranchOf(p) = b
  BY DEF Fresh, InodesInverse

\* Requests that name a path: create of p itself finds p gone, and other
\* paths of the file would be an alias.
LEMMA PathSame ==
    ASSUME MountInv, InodesInverse, TypeInv, NEW c, NEW p \in InoPath, NEW b \in Branch,
           Fresh(c, p, b), Held(p, b), risk' = {},
           NEW q \in InoPath, Lookup(q) \/ CreateFile(q) \/ Unlink(q)
    PROVE  SameFile(p, b)
<1>0. p \in DOMAIN pathIno /\ BranchOf(p) = b /\ p.file \in File
  BY FreshKnown DEF Held, Steady
<1>1. CASE Lookup(q)
  BY <1>1, Untouched, NoneServes DEF Lookup, manager, jobs
<1>2. CASE CreateFile(q)
  <2>1. /\ Alias(q) = {} /\ UNCHANGED <<alive, base, delta, queue>> /\ pending = NoReq
        /\ Checked("create", q)
    BY <1>2 DEF CreateFile, Checked, Risks, manager, jobs
  <2>2. CASE ~Writable(BranchOf(q))
    BY <2>1, <2>2, Untouched, NoneServes DEF Checked
  <2>3. CASE Writable(BranchOf(q))
    <3>1. PICK d \in Branch : d = BranchOf(q)
      BY BranchOfType
    <3>2. p # q
      <4>1. d \in alive /\ Resolve(d, q.file) = Gone
        BY <1>2, <2>3, <3>1 DEF CreateFile, Writable
      <4> QED BY <1>0, <3>1, <4>1 DEF Held
    <3>3. p.file # q.file
      BY <1>0, <2>1, <3>2 DEF Alias
    <3>4. pending'.path = q
      BY <2>1, <2>3 DEF Checked
    <3>5. Steady(p, b)'
      BY <2>1, <3>3, <3>4 DEF Held, Steady
    <3> QED BY <2>1, <3>5 DEF SameFile, Resolve, Inherited
  <2> QED BY <2>2, <2>3
<1>3. CASE Unlink(q)
  <2>1. Alias(q) = {} /\ UNCHANGED <<alive, base, delta>> /\ q.file \in File
    BY <1>3, PathAssumption DEF Unlink, Risks, manager
  <2>0. ~Emptying'
    BY <1>3, NoneServes DEF Unlink
  <2>2. PICK d \in Branch : d = BranchOf(q)
    BY BranchOfType
  <2>3. UNCHANGED queue
           \/ queue' = Append(queue, [op |-> "delete", branch |-> d, path |-> q, id |-> req'])
    BY <1>3, <2>2 DEF Unlink
  <2>4. p.file = q.file => p = q
    BY <1>0, <2>1 DEF Alias
  <2>5. Steady(p, b)'
    <3>1. CASE UNCHANGED queue
      BY <2>0, <2>1, <3>1 DEF Held, Steady
    <3>2. CASE queue' = Append(queue, [op |-> "delete", branch |-> d, path |-> q, id |-> req'])
      <4>1. queue \in Seq(Job)
        BY DEF MountInv
      <4>2. \A k \in DOMAIN queue' :
                \/ k \in DOMAIN queue /\ queue'[k] = queue[k]
                \/ queue'[k] = [op |-> "delete", branch |-> d, path |-> q, id |-> req']
        BY <3>2, <4>1
      <4> QED BY <2>0, <2>1, <2>4, <4>2 DEF Held, Steady
    <3> QED BY <2>3, <3>1, <3>2
  <2> QED BY <2>1, <2>5 DEF SameFile, Resolve, Inherited
<1> QED BY <1>1, <1>2, <1>3

\* Requests that name a number other than the descriptor's.
LEMMA NumberSame ==
    ASSUME MountInv, InodesInverse, TypeInv, NEW c, NEW p \in InoPath, NEW b \in Branch,
           Fresh(c, p, b), Held(p, b), risk' = {},
           NEW i \in RootIno + 1 .. nextIno - 1,
           Begin("read", i) \/ Begin("write", i) \/ (Truncate(i) /\ c.ino # i)
    PROVE  SameFile(p, b)
<1>0. p \in DOMAIN pathIno /\ pathIno[p] = c.ino /\ p.file \in File
  BY FreshKnown DEF Held, Steady
<1>1. ASSUME NEW op \in {"read", "write"}, Begin(op, i) PROVE SameFile(p, b)
  <2>1. pending' = NoReq \/ pending'.op = op
    BY <1>1, BeginPending
  <2>2. ~Emptying'
    BY <2>1 DEF Emptying, NoReq
  <2> QED BY <1>1, <2>2, Untouched, BeginFacts
<1>2. CASE Truncate(i) /\ c.ino # i
  <2>0. PICK q \in InoPath : q = inoPath[i] /\ q.file \in File /\ i \in DOMAIN inoPath
    BY <1>2, KnownPath DEF Truncate
  <2>1. /\ Alias(q) = {} /\ UNCHANGED <<alive, base, delta, queue>> /\ pending = NoReq
        /\ Checked("truncate", q)
    BY <1>2, <2>0 DEF Truncate, Checked, Risks, manager, jobs
  <2>2. CASE ~Writable(BranchOf(q))
    BY <2>1, <2>2, Untouched, NoneServes DEF Checked
  <2>3. CASE Writable(BranchOf(q))
    <3>1. p # q
      BY <1>0, <1>2, <2>0 DEF InodesInverse
    <3>2. p.file # q.file
      BY <1>0, <2>1, <3>1 DEF Alias
    <3>3. pending'.path = q
      BY <2>1, <2>3 DEF Checked
    <3>4. Steady(p, b)'
      BY <2>1, <3>2, <3>3 DEF Held, Steady
    <3> QED BY <2>1, <3>4 DEF SameFile, Resolve, Inherited
  <2> QED BY <2>2, <2>3
<1> QED BY <1>1, <1>2

\* The rest of a request: only a first write leaves a job, and other paths of
\* the file would be an alias; what create and setattr empty is another file.
LEMMA ServiceSame ==
    ASSUME MountInv, InodesInverse, TypeInv, NEW c, NEW p \in InoPath, NEW b \in Branch,
           Fresh(c, p, b), Held(p, b), risk' = {},
           Finishes \/ (WriteOpen /\ (c.ino # pending.ino \/ UNCHANGED queue))
    PROVE  SameFile(p, b)
<1>0. p \in DOMAIN pathIno /\ pathIno[p] = c.ino /\ p.file \in File
  BY FreshKnown DEF Held, Steady
<1>1. CASE ReadCached \/ ReadOpen \/ WriteCached \/ WriteOpened
  <2>1. UNCHANGED <<alive, base, delta, queue>>
    BY <1>1 DEF ReadCached, ReadOpen, WriteCached, WriteOpened, Refuse, manager
  <2>2. ~Emptying'
    BY <1>1, FinishesEnd, NoneServes DEF Finishes
  <2> QED BY <2>1, <2>2, Untouched
<1>2. ASSUME NEW op \in {"create", "truncate"}, EmptyFile(op) PROVE SameFile(p, b)
  <2>1. /\ PutInDelta(BranchOf(pending.path), pending.path.file, Empty) /\ Emptying
        /\ UNCHANGED <<alive, base, queue>> /\ pending' = NoReq
    BY <1>2 DEF EmptyFile, Serve, Emptying
  <2>2. PICK d \in Branch, f \in File : d = BranchOf(pending.path) /\ f = pending.path.file
    BY <2>1, BranchOfType DEF MountInv, TypeInv, PendingInv
  <2>3. FileStep(d, f)
    BY <2>1, <2>2, PutIsFileStep DEF TypeInv, Empty
  <2>4. p.file # f
    BY <2>1, <2>2 DEF Held, Steady
  <2>5. /\ delta'[b][p.file] = delta[b][p.file]
        /\ Resolve(b, p.file)' = Resolve(b, p.file)
    BY <1>0, <2>3, <2>4, OtherFile
  <2>6. ~Emptying'
    BY <2>1, NoneServes
  <2>7. Steady(p, b)'
    BY <2>1, <2>6 DEF Held, Steady
  <2> QED BY <2>1, <2>5, <2>7 DEF SameFile
<1>3. CASE WriteOpen /\ (c.ino # pending.ino \/ UNCHANGED queue)
  <2>1. UNCHANGED <<alive, base, delta>>
    BY <1>3, WriteOpenFacts
  <2>0. ~Emptying'
    <3>1. pending' = NoReq \/ pending'.op = "opened"
      BY <1>3, WriteOpenGoesOn
    <3> QED BY <3>1 DEF Emptying, NoReq
  <2>2. CASE UNCHANGED queue
    BY <2>0, <2>1, <2>2, Untouched
  <2>3. CASE c.ino # pending.ino /\ ~UNCHANGED queue
    <3>1. PICK q \in InoPath, d \in Branch :
              /\ pending.ino \in DOMAIN inoPath /\ q = inoPath[pending.ino]
              /\ queue' = Append(queue, [op |-> "write", branch |-> d, path |-> q, id |-> req])
              /\ risk' = risk \union Alias(q)
      BY <1>3, <2>3, WriteOpenFacts
    <3>2. p # q
      BY <1>0, <2>3, <3>1 DEF InodesInverse
    <3>3. p.file # q.file
      BY <1>0, <3>1, <3>2 DEF Alias
    <3>4. queue \in Seq(Job)
      BY DEF MountInv
    <3>5. \A k \in DOMAIN queue' :
              \/ k \in DOMAIN queue /\ queue'[k] = queue[k]
              \/ queue'[k] = [op |-> "write", branch |-> d, path |-> q, id |-> req]
      BY <3>1, <3>4
    <3>6. Steady(p, b)'
      BY <2>0, <2>1, <3>3, <3>5 DEF Held, Steady
    <3> QED BY <2>1, <3>6 DEF SameFile, Resolve, Inherited
  <2> QED BY <1>3, <2>2, <2>3
<1> QED BY <1>1, <1>2, <1>3 DEF Finishes

\* With a job less, nothing more waits.
LEMMA FewerJobs ==
    ASSUME MountInv, NEW p, NEW b, Held(p, b), UNCHANGED alive,
           queue' = queue \/ (queue # <<>> /\ queue' = Tail(queue)),
           Emptying' => Emptying /\ pending'.path = pending.path
    PROVE  Steady(p, b)'
<1>1. \A k \in DOMAIN queue' : \E l \in DOMAIN queue : queue'[k] = queue[l]
  <2>1. queue \in Seq(Job)
    BY DEF MountInv
  <2>2. CASE queue' = queue
    BY <2>2
  <2>3. CASE queue # <<>> /\ queue' = Tail(queue)
    <3>1. \A k \in DOMAIN queue' : k + 1 \in DOMAIN queue /\ queue'[k] = queue[k + 1]
      BY <2>1, <2>3
    <3> QED BY <3>1
  <2> QED BY <2>2, <2>3
<1>2. Emptying' => pending'.path.file # p.file
  BY DEF Held, Steady
<1> QED BY <1>1, <1>2 DEF Held, Steady

\* The worker: a job for the file is its deletion, which takes the number.
LEMMA JobSame ==
    ASSUME MountInv, InodesInverse, TypeInv, NEW c, NEW p \in InoPath, NEW b \in Branch,
           Fresh(c, p, b), Fresh(c, p, b)', Held(p, b), RunJob
    PROVE  SameFile(p, b)
<1>0. PICK j \in Job : j = Head(queue)
  BY JobIsFileStep
<1>1. /\ queue # <<>> /\ queue' = Tail(queue) /\ UNCHANGED <<alive, base>>
      /\ j.branch \in Branch /\ j.path.file \in File
      /\ FileStep(j.branch, j.path.file) /\ Meanwhile({})
  BY <1>0, JobIsFileStep DEF Job
<1>2. queue \in Seq(Job)
  BY DEF MountInv
<1>3. Emptying' => Emptying /\ pending'.path = pending.path
  BY <1>1, MeanwhilePending DEF TypeInv, Emptying
<1>4. Steady(p, b)'
  BY <1>1, <1>3, FewerJobs
<1>5. CASE p.file # j.path.file
  <2>1. /\ delta'[b][p.file] = delta[b][p.file]
        /\ Resolve(b, p.file)' = Resolve(b, p.file)
    BY <1>1, <1>5, OtherFile DEF Held, Steady
  <2> QED BY <1>1, <1>4, <2>1 DEF SameFile
<1>6. CASE p.file = j.path.file
  <2>1. 1 \in DOMAIN queue /\ queue[1] = j
    BY <1>0, <1>1, <1>2
  <2>2. j.op = "delete" /\ j.path = p
    BY <1>6, <2>1 DEF Held, Steady
  <2>3. Forget({p})
    BY <1>0, <2>2 DEF RunJob
  <2>4. c.ino \notin DOMAIN inoPath'
    BY <2>3, ForgetOther DEF Fresh
  <2> QED BY <2>4 DEF Fresh
<1> QED BY <1>5, <1>6

\* Another mount, and a worker that only begins.
LEMMA ElsewhereSame ==
    ASSUME MountInv, TypeInv, NEW p, NEW b, Held(p, b), risk' = {},
           Quiet \/ \E o \in other : OtherEnds(o)
    PROVE  SameFile(p, b)
<1>1. CASE Quiet
  <2>1. UNCHANGED <<alive, base, delta, pending>>
    BY <1>1, QuietFacts DEF manager
  <2>2. Steady(p, b)'
    BY <1>1, <2>1, QuietFacts, FewerJobs DEF Emptying
  <2> QED BY <2>1, <2>2 DEF SameFile, Resolve, Inherited
<1>2. ASSUME NEW o \in other, OtherEnds(o) PROVE SameFile(p, b)
  <2>1. UNCHANGED <<alive, base, delta, queue>> /\ Meanwhile({})
    BY <1>2, OtherIsFileStep
  <2>2. Emptying' => Emptying /\ pending'.path = pending.path
    BY <2>1, MeanwhilePending DEF TypeInv, Emptying
  <2> QED BY <2>1, <2>2, Untouched
<1> QED BY <1>1, <1>2

\* The control file and the clients: what keeps the epoch is an abort, or the
\* first half of freeze or thaw, which leaves the store alone.
LEMMA ControlSame ==
    ASSUME MountInv, InodesInverse, TypeInv, NEW c, NEW p \in InoPath, NEW b \in Branch,
           CacheInv(c), Fresh(c, p, b), Fresh(c, p, b)', Held(p, b), risk' = {},
           NEW x \in Branch,
           Switch(x) \/ CtlCreate(x) \/ CtlFinish(x) \/ IoctlFinish(x) \/ Client(x)
    PROVE  SameFile(p, b)
<1>0. p \in DOMAIN pathIno /\ p.file \in File /\ BranchOf(p) = b
  BY FreshKnown DEF Held, Steady
<1>1. p.file # Top
  BY <1>0, BranchAssumption
<1>2. epoch' = epoch /\ epoch \in Nat
  BY DEF Fresh, TypeInv, TableInv
<1>3. CASE Switch(x)
  <2>1. inoPath' = [i \in {RootIno} |-> RootPath]
    BY <1>3 DEF Switch, Clear
  <2>2. c.ino # RootIno
    BY DEF Fresh, CacheInv
  <2> QED BY <2>1, <2>2 DEF Fresh
<1>4. CASE CtlCreate(x)
  BY <1>2, <1>4 DEF CtlCreate, Create
<1>5. CASE CtlFinish(x) \/ IoctlFinish(x) \/ Client(x)
  <2>1. UNCHANGED queue /\ Operation(x)
    BY <1>5 DEF CtlFinish, IoctlFinish, Client, Operation, jobs
  <2>2. Abort(x) \/ Freeze(x) \/ Thaw(x)
    BY <1>2, <2>1 DEF Operation, Create, Commit, StateSet, Revert
  <2>3. ~Commit(x)
    BY <1>2 DEF Commit
  <2>4. Emptying' => Emptying /\ pending'.path = pending.path
    <3>1. CASE CtlFinish(x) \/ IoctlFinish(x)
      BY <3>1, NoneServes DEF CtlFinish, IoctlFinish
    <3>2. CASE Client(x)
      <4>1. Meanwhile({x})
        BY <3>2 DEF Client
      <4> QED BY <4>1, MeanwhilePending DEF TypeInv, Emptying
    <3> QED BY <1>5, <3>1, <3>2
  <2>5. CASE Freeze(x) \/ Thaw(x)
    BY <2>1, <2>4, <2>5, Untouched DEF Freeze, Thaw
  <2>6. CASE Abort(x) /\ ~Freeze(x) /\ ~Thaw(x)
    <3>1. AbortRisk(x, TRUE) = {} \/ AbortRisk(x, FALSE) = {}
      <4>1. CASE CtlFinish(x)
        BY <2>3, <4>1 DEF CtlFinish, Risks
      <4>2. CASE IoctlFinish(x)
        BY <2>3, <4>2 DEF IoctlFinish, Risks
      <4>3. CASE Client(x)
        <5>1. ~(Create(x) \/ Commit(x) \/ StateSet(x) \/ \E f \in File : Revert(x, f))
          BY <1>2 DEF Create, Commit, StateSet, Revert
        <5> QED BY <2>6, <4>3, <5>1 DEF Client, Risks
      <4> QED BY <1>5, <4>1, <4>2, <4>3
    <3>2. b # x \/ p.br = Here
      BY <1>0, <1>1, <3>1 DEF AbortRisk
    <3>3. /\ x # Main /\ alive' = alive \ {x} /\ UNCHANGED base
          /\ delta' = [delta EXCEPT ![x] = NoDelta]
      BY <2>6 DEF Abort
    <3>4. Emptying' => pending'.path.file # p.file
      BY <2>4 DEF Held, Steady
    <3>5. Steady(p, b)'
      BY <2>1, <3>2, <3>3, <3>4 DEF Held, Steady
    <3>6. CASE b = x
      BY <3>3, <3>5, <3>6 DEF SameFile
    <3>7. CASE b # x
      <4>1. delta'[b] = delta[b] /\ delta'[Main] = delta[Main]
        BY <3>3, <3>7, BranchAssumption DEF TypeInv, StoreInv
      <4> QED BY <3>3, <3>5, <3>7, <4>1 DEF SameFile, Resolve, Inherited
    <3> QED BY <3>6, <3>7
  <2> QED BY <2>2, <2>5, <2>6
<1> QED BY <1>3, <1>4, <1>5

\* Only the slow paths make descriptors.
LEMMA CacheMoves ==
    ASSUME MountInv, TypeInv, [Next]_vars
    PROVE  /\ rcache' \in {rcache, NoCache} \/ ReadOpen
           /\ wcache' \in {wcache, NoCache} \/ WriteOpen
<1>1. ASSUME NEW p \in InoPath, Lookup(p) \/ CreateFile(p) \/ Unlink(p)
      PROVE  UNCHANGED <<rcache, wcache>>
  BY <1>1 DEF Lookup, CreateFile, Unlink, mount
<1>2. ASSUME NEW i, Begin("read", i) \/ Begin("write", i) \/ Truncate(i)
      PROVE  rcache' \in {rcache, NoCache} /\ wcache' \in {wcache, NoCache}
  BY <1>2 DEF Begin, Truncate, InvalidateRead, InvalidateWrite
<1>3. CASE WriteOpen \/ Finishes
  BY <1>3 DEF Finishes, ReadCached, ReadOpen, WriteCached, WriteOpen, WriteOpened, EmptyFile, Refuse
<1>4. ASSUME NEW b \in Branch,
             Switch(b) \/ CtlCreate(b) \/ CtlFinish(b) \/ IoctlFinish(b) \/ Client(b)
      PROVE  UNCHANGED <<rcache, wcache>>
  BY <1>4 DEF Switch, CtlCreate, CtlFinish, IoctlFinish, Client, mount
<1>5. ASSUME NEW o \in other, OtherEnds(o) PROVE UNCHANGED <<rcache, wcache>>
  BY <1>5, OtherIsFileStep
<1>6. RunJob => UNCHANGED <<rcache, wcache>>
  BY JobIsFileStep
<1>7. Quiet \/ UNCHANGED vars => UNCHANGED <<rcache, wcache>>
  BY QuietFacts DEF vars, mount
<1> QED BY <1>1, <1>2, <1>3, <1>4, <1>5, <1>6, <1>7 DEF Next, Quiet, Finishes

\* The mount moves only by the control file.
LEMMA MountMoves ==
    ASSUME MountInv, TypeInv, [Next]_vars
    PROVE  UNCHANGED mounted \/ \E b \in Branch : Switch(b) \/ CtlFinish(b)
<1>1. ASSUME NEW p \in InoPath, Lookup(p) \/ CreateFile(p) \/ Unlink(p)
      PROVE  UNCHANGED mounted
  BY <1>1 DEF Lookup, CreateFile, Unlink, mount
<1>2. ASSUME NEW i, Begin("read", i) \/ Begin("write", i) \/ Truncate(i)
      PROVE  UNCHANGED mounted
  BY <1>2 DEF Begin, Truncate
<1>3. WriteOpen \/ Finishes => UNCHANGED mounted
  BY DEF Finishes, ReadCached, ReadOpen, WriteCached, WriteOpen, WriteOpened, EmptyFile, Serve
<1>4. ASSUME NEW b \in Branch, CtlCreate(b) \/ IoctlFinish(b) \/ Client(b)
      PROVE  UNCHANGED mounted
  BY <1>4 DEF CtlCreate, IoctlFinish, Client, mount
<1>5. ASSUME NEW o \in other, OtherEnds(o) PROVE UNCHANGED mounted
  BY <1>5, OtherIsFileStep
<1>6. RunJob => UNCHANGED mounted
  BY JobIsFileStep
<1>7. Quiet \/ UNCHANGED vars => UNCHANGED mounted
  BY QuietFacts DEF vars, mount
<1> QED BY <1>1, <1>2, <1>3, <1>4, <1>5, <1>6, <1>7 DEF Next, Quiet, Finishes

\* The epoch never goes back.
LEMMA EpochGrows ==
    ASSUME MountInv, InodesInverse, TypeInv, [Next]_vars
    PROVE  epoch' >= epoch
<1>0. epoch \in Nat
  BY DEF TypeInv, TableInv
<1>1. ASSUME NEW p \in InoPath, Lookup(p) \/ CreateFile(p) \/ Unlink(p)
      PROVE  UNCHANGED epoch
  BY <1>1 DEF Lookup, CreateFile, Unlink, manager
<1>2. ASSUME NEW i, Begin("read", i) \/ Begin("write", i) \/ Truncate(i)
      PROVE  UNCHANGED epoch
  BY <1>2 DEF Begin, Truncate, manager
<1>3. WriteOpen \/ Finishes => UNCHANGED epoch
  BY DEF Finishes, ReadCached, ReadOpen, WriteCached, WriteOpen, WriteOpened, EmptyFile, Refuse, manager
<1>4. ASSUME NEW b \in Branch,
             Switch(b) \/ CtlCreate(b) \/ CtlFinish(b) \/ IoctlFinish(b) \/ Client(b)
      PROVE  epoch' \in {epoch, epoch + 1}
  <2>1. CASE Switch(b)
    BY <2>1 DEF Switch, manager
  <2>2. CASE CtlCreate(b) \/ CtlFinish(b) \/ IoctlFinish(b) \/ Client(b)
    <3>1. Operation(b)
      BY <2>2 DEF CtlCreate, CtlFinish, IoctlFinish, Client, Operation
    <3> QED BY <3>1, OperationIsBranchStep DEF TypeInv, BranchStep
  <2> QED BY <1>4, <2>1, <2>2
<1>5. ASSUME NEW o \in other, OtherEnds(o) PROVE UNCHANGED epoch
  BY <1>5, OtherIsFileStep
<1>6. RunJob => UNCHANGED epoch
  BY JobIsFileStep
<1>7. Quiet \/ UNCHANGED vars => UNCHANGED epoch
  BY QuietFacts DEF vars, manager
<1>8. epoch' \in {epoch, epoch + 1} => epoch' >= epoch
  BY <1>0
<1> QED BY <1>1, <1>2, <1>3, <1>4, <1>5, <1>6, <1>7, <1>8 DEF Next, Quiet, Finishes

\* A descriptor that is fresh after a step was fresh before it, for the same
\* file of the same branch: numbers are not reused, the epoch only grows, and
\* when the mount leaves a branch that was aborted its numbers are a risk.
LEMMA FreshBefore ==
    ASSUME MountInv, InodesInverse, TypeInv, [Next]_vars, risk' = {},
           NEW c, CacheInv(c), NEW p \in InoPath, NEW b \in Branch, Fresh(c, p, b)',
           \A d \in Branch : Fresh(c, p, d) => Held(p, d)
    PROVE  Fresh(c, p, b) /\ Held(p, b)
<1>0. /\ InodesInverse' /\ nextIno' >= nextIno
      /\ \A i \in DOMAIN inoPath' :
            IF i \in DOMAIN inoPath THEN inoPath'[i] = inoPath[i] ELSE i >= nextIno
  BY NumbersStep
<1>1. TypeInv'
  BY TypeStep
<1>2. c.ino \in DOMAIN inoPath /\ inoPath[c.ino] = p /\ c.obj # Gone
  <2>1. c.ino \in Nat /\ c.ino < nextIno /\ nextIno \in Nat /\ c.ino \in DOMAIN inoPath'
           /\ inoPath'[c.ino] = p /\ c.obj # Gone
    BY DEF CacheInv, Cache, Fresh, InodesInverse
  <2> QED BY <1>0, <2>1
<1>3. epoch' = epoch /\ c.epoch = epoch
  <2>1. epoch \in Nat /\ c.epoch \in Nat /\ c.epoch <= epoch /\ c.epoch = epoch'
    BY DEF TypeInv, TableInv, CacheInv, Cache, Fresh
  <2>2. epoch' >= epoch
    BY EpochGrows
  <2> QED BY <2>1, <2>2
<1>4. PICK d \in Branch : d = BranchOf(p)
  BY BranchOfType
<1>5. Fresh(c, p, d) /\ Held(p, d)
  BY <1>2, <1>3, <1>4 DEF Fresh
<1>6. b = d
  <2>1. BranchOf(p)' = b
    BY DEF Fresh
  <2>2. CASE UNCHANGED mounted
    BY <1>4, <2>1, <2>2 DEF BranchOf
  <2>3. ASSUME NEW x \in Branch, Switch(x) PROVE b = d
    <3>1. inoPath' = [i \in {RootIno} |-> RootPath]
      BY <2>3 DEF Switch, Clear
    <3>2. c.ino # RootIno
      BY <1>2 DEF CacheInv
    <3> QED BY <3>1, <3>2 DEF Fresh
  <2>4. ASSUME NEW x \in Branch, CtlFinish(x), ~UNCHANGED mounted PROVE b = d
    <3>1. mounted = x
      BY <2>4 DEF CtlFinish
    <3>2. ~Commit(x)
      BY <1>3 DEF Commit, TypeInv, TableInv
    <3>3. AbortRisk(x, TRUE) = {}
      BY <2>4, <3>2 DEF CtlFinish, Risks
    <3>4. p \in DOMAIN pathIno /\ p.file # Top
      BY <1>5, FreshKnown, BranchAssumption DEF Held, Steady
    <3>5. d # x
      BY <1>4, <3>3, <3>4 DEF AbortRisk
    <3>6. p.br # Here
      BY <1>4, <3>1, <3>5 DEF BranchOf
    <3> QED BY <1>4, <2>1, <3>6 DEF BranchOf
  <2> QED BY <2>2, <2>3, <2>4, MountMoves
<1> QED BY <1>5, <1>6

\* And it is as good as before, unless the step is a request that drops it.
LEMMA FreshStays ==
    ASSUME MountInv, InodesInverse, TypeInv, [Next]_vars, risk' = {},
           NEW c, CacheInv(c), NEW p \in InoPath, NEW b \in Branch, Fresh(c, p, b)',
           \A d \in Branch : Fresh(c, p, d) => Held(p, d),
           \A i : Truncate(i) => c.ino # i,
           WriteOpen => c.ino # pending.ino \/ UNCHANGED queue
    PROVE  Fresh(c, p, b) /\ SameFile(p, b)
<1>0. Fresh(c, p, b) /\ Held(p, b)
  BY FreshBefore
<1>1. ASSUME NEW q \in InoPath, Lookup(q) \/ CreateFile(q) \/ Unlink(q)
      PROVE  SameFile(p, b)
  BY <1>0, <1>1, PathSame
<1>2. ASSUME NEW i \in RootIno + 1 .. nextIno - 1,
             Begin("read", i) \/ Begin("write", i) \/ Truncate(i)
      PROVE  SameFile(p, b)
  BY <1>0, <1>2, NumberSame
<1>3. CASE WriteOpen \/ Finishes
  BY <1>0, <1>3, ServiceSame
<1>4. CASE RunJob
  BY <1>0, <1>4, JobSame
<1>5. ASSUME NEW x \in Branch,
             Switch(x) \/ CtlCreate(x) \/ CtlFinish(x) \/ IoctlFinish(x) \/ Client(x)
      PROVE  SameFile(p, b)
  BY <1>0, <1>5, ControlSame
<1>6. CASE Quiet \/ \E o \in other : OtherEnds(o)
  BY <1>0, <1>6, ElsewhereSame
<1>7. CASE UNCHANGED vars
  BY <1>0, <1>7, Untouched DEF vars, manager, jobs, Emptying
<1> QED BY <1>0, <1>1, <1>2, <1>3, <1>4, <1>5, <1>6, <1>7 DEF Next, Quiet, Finishes

\* The slow path of read.
LEMMA ReadOpenFacts ==
    ASSUME MountInv, InodesInverse, TypeInv, ReadOpen
    PROVE  /\ pending.op = "read" /\ pending # NoReq /\ pending' = NoReq
           /\ UNCHANGED <<nextIno, pathIno, inoPath, mounted, req, alive, frozen, base, delta,
                          epoch, data, wcache, queue, risk>>
           /\ \/ UNCHANGED rcache /\ Answer(FALSE, req, Empty)
              \/ \E q \in InoPath, d \in Branch :
                    /\ pending.ino \in DOMAIN inoPath /\ q = inoPath[pending.ino]
                    /\ d = BranchOf(q) /\ d \in alive /\ q.file \in File
                    /\ Resolve(d, q.file) # Gone
                    /\ rcache' = [ino |-> pending.ino, epoch |-> pending.epoch,
                                  obj |-> Resolve(d, q.file)]
                    /\ Answer(TRUE, req, data[Resolve(d, q.file)])
<1>1. /\ pending.op = "read" /\ pending' = NoReq /\ UNCHANGED <<inodes, mounted, req>>
      /\ UNCHANGED <<manager, wcache, queue, risk>>
  BY DEF ReadOpen, Serve, Refuse
<1>2. /\ pending # NoReq
      /\ UNCHANGED <<nextIno, pathIno, inoPath, alive, frozen, base, delta, epoch, data>>
  BY <1>1 DEF NoReq, inodes, manager
<1>3. CASE \/ pending.ino \notin DOMAIN inoPath
           \/ BranchOf(inoPath[pending.ino]) \notin alive
           \/ Resolve(BranchOf(inoPath[pending.ino]), inoPath[pending.ino].file) = Gone
  <2>1. Refuse
    BY <1>3 DEF ReadOpen
  <2> QED BY <1>1, <1>2, <2>1 DEF Refuse
<1>4. CASE /\ pending.ino \in DOMAIN inoPath
           /\ BranchOf(inoPath[pending.ino]) \in alive
           /\ Resolve(BranchOf(inoPath[pending.ino]), inoPath[pending.ino].file) # Gone
  <2>1. PICK q \in InoPath : q = inoPath[pending.ino] /\ q.file \in File
    BY <1>1, <1>4, KnownPath DEF TypeInv, PendingInv, Serving
  <2>2. PICK d \in Branch : d = BranchOf(q)
    BY BranchOfType
  <2>3. /\ rcache' = [ino |-> pending.ino, epoch |-> pending.epoch, obj |-> Resolve(d, q.file)]
        /\ Answer(TRUE, req, data[Resolve(d, q.file)])
    BY <1>4, <2>1, <2>2 DEF ReadOpen
  <2> QED BY <1>1, <1>2, <1>4, <2>1, <2>2, <2>3
<1> QED BY <1>3, <1>4

\* Every step keeps the read descriptor what a read resolves to.
LEMMA ReadStep ==
    ASSUME MountInv, InodesInverse, TypeInv, SeenInv, ReadInv, ServeInv, [Next]_vars
    PROVE  ReadInv'
<1> SUFFICES ASSUME risk' = {}, NEW p \in InoPath, NEW b \in Branch, Fresh(rcache, p, b)'
             PROVE  /\ Steady(p, b)'
                    /\ b \in alive' => Resolve(b, p.file)' = rcache'.obj
  BY DEF ReadInv
<1>0. risk = {}
  BY RiskGrows
<1>1. CASE rcache' = rcache
  <2>1. PICK c : c = rcache
    OBVIOUS
  <2>2. CacheInv(c) /\ Fresh(c, p, b)'
    BY <1>1, <2>1 DEF TypeInv, CacheInv, Fresh
  <2>3. \A d \in Branch :
            Fresh(c, p, d) => Held(p, d) /\ (d \in alive => Resolve(d, p.file) = c.obj)
    BY <1>0, <2>1 DEF ReadInv, Held, Fresh
  <2>4. ASSUME NEW i, Truncate(i) PROVE c.ino # i
    <3>1. rcache.ino = i => rcache' = NoCache
      BY <2>4 DEF Truncate, InvalidateRead
    <3>2. rcache'.obj # Gone
      BY DEF Fresh
    <3> QED BY <2>1, <3>1, <3>2 DEF NoCache
  <2>5. WriteOpen => c.ino # pending.ino
    BY <2>1, WriteOpenFacts DEF ServeInv
  <2>6. Fresh(c, p, b) /\ SameFile(p, b)
    BY <2>2, <2>3, <2>4, <2>5, FreshStays
  <2> QED BY <1>1, <2>1, <2>3, <2>6 DEF SameFile
<1>2. CASE rcache' = NoCache
  BY <1>2 DEF Fresh, NoCache
<1>3. CASE ReadOpen /\ rcache' # rcache
  <2>1. PICK q \in InoPath, d \in Branch :
            /\ pending.ino \in DOMAIN inoPath /\ q = inoPath[pending.ino]
            /\ d = BranchOf(q) /\ d \in alive /\ q.file \in File
            /\ rcache' = [ino |-> pending.ino, epoch |-> pending.epoch,
                          obj |-> Resolve(d, q.file)]
    BY <1>3, ReadOpenFacts
  <2>2. /\ UNCHANGED <<inoPath, mounted, alive, base, delta, queue>>
        /\ Serving /\ ~Emptying'
    BY <1>3, ReadOpenFacts, NoneServes DEF Serving
  <2>3. p = q /\ b = d
    BY <2>1, <2>2 DEF Fresh, BranchOf
  <2>4. \A k \in DOMAIN queue : queue[k].path.file # q.file
    BY <1>0, <2>1, <2>2 DEF SeenInv
  <2>5. Steady(p, b)'
    BY <2>1, <2>2, <2>3, <2>4 DEF Steady
  <2>6. Resolve(b, p.file)' = Resolve(b, p.file)
    BY <2>2 DEF Resolve, Inherited
  <2> QED BY <2>1, <2>3, <2>5, <2>6
<1> QED BY <1>1, <1>2, <1>3, CacheMoves

\* Every step keeps the write descriptor the branch's own.
LEMMA WriteStep ==
    ASSUME MountInv, InodesInverse, TypeInv, SeenInv, WriteInv, [Next]_vars
    PROVE  WriteInv'
<1> SUFFICES ASSUME risk' = {}, NEW p \in InoPath, NEW b \in Branch, Fresh(wcache, p, b)'
             PROVE  /\ Steady(p, b)'
                    /\ b \in alive' => delta'[b][p.file] = wcache'.obj
  BY DEF WriteInv
<1>0. risk = {}
  BY RiskGrows
<1>1. CASE wcache' = wcache
  <2>1. PICK c : c = wcache
    OBVIOUS
  <2>2. CacheInv(c) /\ Fresh(c, p, b)' /\ c.obj \in Nat
    BY <1>1, <2>1 DEF TypeInv, CacheInv, Cache, Fresh
  <2>3. \A d \in Branch :
            Fresh(c, p, d) => Held(p, d) /\ (d \in alive => delta[d][p.file] = c.obj)
    <3>1. \A d \in Branch :
              Fresh(c, p, d) => Steady(p, d) /\ (d \in alive => delta[d][p.file] = c.obj)
      BY <1>0, <2>1 DEF WriteInv, Fresh
    <3>2. c.obj # Inherit
      BY <2>2 DEF Inherit
    <3> QED BY <3>1, <3>2 DEF Held, Fresh, Resolve
  <2>4. ASSUME NEW i, Truncate(i) PROVE c.ino # i
    <3>1. wcache.ino = i => wcache' = NoCache
      BY <2>4 DEF Truncate, InvalidateWrite
    <3>2. wcache'.obj # Gone
      BY DEF Fresh
    <3> QED BY <2>1, <3>1, <3>2 DEF NoCache
  <2>5. WriteOpen => c.ino # pending.ino
    <3> SUFFICES ASSUME WriteOpen, c.ino = pending.ino PROVE FALSE
      OBVIOUS
    <3>1. Fresh(c, p, b)
      BY <2>2, <2>3, FreshBefore
    <3>2. /\ c.epoch = epoch /\ c.obj # Gone /\ epoch \in Nat
          /\ pending.epoch \in Nat /\ pending.epoch <= epoch
      BY <3>1 DEF Fresh, TypeInv, TableInv, PendingInv, PendingOf
    <3>3. pending # NoReq /\ ~Cached(wcache, pending.ino, pending.epoch)
      BY WriteOpenFacts
    <3>4. c.epoch <= pending.epoch
      BY <2>2, <3>3 DEF CacheInv
    <3>5. c.epoch = pending.epoch
      BY <3>2, <3>4
    <3> QED BY <2>1, <3>2, <3>3, <3>5 DEF Cached
  <2>6. Fresh(c, p, b) /\ SameFile(p, b)
    BY <2>2, <2>3, <2>4, <2>5, FreshStays
  <2> QED BY <1>1, <2>1, <2>3, <2>6 DEF SameFile
<1>2. CASE wcache' = NoCache
  BY <1>2 DEF Fresh, NoCache
<1>3. CASE WriteOpen /\ wcache' # wcache
  <2>1. PICK q \in InoPath, d \in Branch :
            /\ pending.ino \in DOMAIN inoPath /\ q = inoPath[pending.ino]
            /\ d = BranchOf(q) /\ q.file \in File /\ Writable(d)
            /\ wcache' = [ino |-> pending.ino, epoch |-> pending.epoch,
                          obj |-> delta[d][q.file]]
            /\ pending' = [pending EXCEPT !.op = "opened", !.path = q]
            /\ UNCHANGED queue
    BY <1>3, WriteOpenFacts
  <2>2. /\ UNCHANGED <<inoPath, mounted, alive, base, delta>>
        /\ Serving
    BY <1>3, WriteOpenFacts DEF Serving
  <2>6. ~Emptying'
    <3>1. pending' = NoReq \/ pending'.op = "opened"
      BY <1>3, WriteOpenGoesOn
    <3> QED BY <3>1 DEF Emptying, NoReq
  <2>3. p = q /\ b = d
    BY <2>1, <2>2 DEF Fresh, BranchOf
  <2>4. \A k \in DOMAIN queue : queue[k].path.file # q.file
    BY <1>0, <2>1, <2>2 DEF SeenInv
  <2>5. Steady(p, b)'
    BY <2>1, <2>2, <2>3, <2>4, <2>6 DEF Steady, Writable
  <2> QED BY <2>1, <2>2, <2>3, <2>5
<1> QED BY <1>1, <1>2, <1>3, CacheMoves

\* The file that a place of the store is for, when the place holds what the
\* file resolves to.
LEMMA PlaceOfFile ==
    ASSUME StoreInv, NEW b \in Branch, NEW f \in File, NEW c \in Branch, NEW g \in File,
           HasDelta(c, g), Resolve(b, f) = delta[c][g]
    PROVE  \/ c = b /\ g = f
           \/ c = Main /\ g = f /\ delta[b][f] = Inherit /\ b # Main
<1>1. CASE delta[b][f] # Inherit
  BY <1>1 DEF Resolve, StoreInv
<1>2. CASE delta[b][f] = Inherit /\ b # Main /\ delta[Main][f] # Inherit
  BY <1>2, BranchAssumption DEF Resolve, Inherited, StoreInv
<1>3. CASE delta[b][f] = Inherit /\ (b = Main \/ delta[Main][f] = Inherit)
  BY <1>3 DEF Resolve, Inherited, StoreInv
<1> QED BY <1>1, <1>2, <1>3

\* While a read is under way, whoever changes the object that it will read
\* changes the file that is read.
LEMMA AsyncServes ==
    ASSUME MountInv, InodesInverse, TypeInv, SeenInv, ServeInv, [Next]_vars, Async,
           risk' = {}, Cached(rcache, pending.ino, pending.epoch), pending.op = "read"
    PROVE  /\ data'[rcache.obj] \in pending'.seen
           /\ \A p \in InoPath, b, c \in Branch, g \in File :
                 inoPath'[pending.ino] = p /\ BranchOf(p)' = b /\ delta'[c][g] = rcache.obj
                    => Resolve(b, p.file)' = rcache.obj
<1>0. PICK o : o = rcache.obj
  OBVIOUS
<1>1. /\ UNCHANGED mounted /\ pending'.ino = pending.ino
      /\ pending.seen \subseteq pending'.seen /\ Visible(pending.ino)' \subseteq pending'.seen
      /\ risk = {} /\ pending.ino \in DOMAIN inoPath'
      /\ inoPath'[pending.ino] = inoPath[pending.ino] /\ Serving
  BY AsyncPending DEF Serving
<1>2. PICK p \in InoPath :
          /\ p = inoPath[pending.ino] /\ pending.ino \in DOMAIN inoPath /\ p.file \in File
          /\ \A k \in DOMAIN queue : queue[k].path.file # p.file
  BY <1>1, KnownPath DEF SeenInv, TypeInv, PendingInv
<1>3. PICK b \in Branch : b = BranchOf(p) /\ b = BranchOf(p)'
  BY <1>1, BranchOfType DEF BranchOf
<1>4. /\ data[o] \in pending.seen
      /\ \A c \in Branch, g \in File : delta[c][g] = o => Resolve(b, p.file) = o
  BY <1>0, <1>1, <1>2, <1>3 DEF ServeInv
<1>5. o \in 1..Len(data) /\ StoreInv /\ Len(data) \in Nat
  BY <1>0, CachedObject DEF TypeInv, StoreInv
<1> SUFFICES /\ data'[o] \in pending'.seen
             /\ \A c \in Branch, g \in File : delta'[c][g] = o => Resolve(b, p.file)' = o
  BY <1>0, <1>1, <1>2, <1>3
<1>6. Resolve(b, p.file)' = o => data'[o] \in pending'.seen
  <2>1. PICK i : i = pending.ino
    OBVIOUS
  <2>2. Visible(pending.ino)' = Visible(i)'
    BY <1>1, <2>1 DEF Visible
  <2>3. Visible(i)' = Content(b, p.file)'
    BY <1>1, <1>2, <1>3, <2>1 DEF Visible, Content, Resolve, Inherited
  <2>4. Resolve(b, p.file)' = o => data'[o] \in Content(b, p.file)'
    BY <1>5 DEF Content, Gone
  <2> QED BY <1>1, <2>2, <2>3, <2>4
<1>7. CASE RunJob
  <2>1. PICK d \in Branch, f \in File : d = Head(queue).branch /\ f = Head(queue).path.file
    BY <1>7, JobIsFileStep DEF Job
  <2>2. f # p.file
    <3>1. queue # <<>> /\ queue \in Seq(Job)
      BY <1>7, JobIsFileStep DEF MountInv
    <3> QED BY <1>2, <2>1, <3>1
  <2>5. FileStep(d, f)
    BY <1>7, <2>1, JobIsFileStep
  <2> QED
    <3>1. Resolve(b, p.file)' = Resolve(b, p.file)
      BY <1>2, <2>2, <2>5, OtherFile
    <3>2. \A c \in Branch, g \in File : delta'[c][g] = o => delta[c][g] = o
      <4> SUFFICES ASSUME NEW c \in Branch, NEW g \in File, delta'[c][g] = o
                   PROVE  delta[c][g] = o
        OBVIOUS
      <4>1. CASE c # d \/ g # f
        BY <2>5, <4>1 DEF FileStep
      <4>2. CASE c = d /\ g = f
        <5>1. ~(o <= Gone) /\ ~(o > Len(data))
          BY <1>5 DEF Gone
        <5> QED BY <2>5, <4>2, <5>1 DEF FileStep
      <4> QED BY <4>1, <4>2
    <3>3. CASE data'[o] = data[o]
      BY <1>1, <1>4, <3>1, <3>2, <3>3
    <3>4. CASE data'[o] # data[o]
      <4>1. o = delta[d][f]
        BY <1>5, <2>5, <3>4 DEF FileStep
      <4>2. Resolve(b, p.file)' = o
        BY <1>4, <3>1, <4>1
      <4> QED BY <1>6, <4>2
    <3> QED BY <3>3, <3>4
<1>8. ASSUME NEW x \in Branch, Client(x)
      PROVE  /\ data'[o] \in pending'.seen
             /\ \A c \in Branch, g \in File : delta'[c][g] = o => Resolve(b, p.file)' = o
  <2>1. Operation(x)
    BY <1>8 DEF Client, Operation
  <2>2. BranchStep(x)
    BY <2>1, OperationIsBranchStep DEF TypeInv
  <2>3. data'[o] = data[o]
    BY <1>5, <2>2 DEF BranchStep
  <2>4. ASSUME NEW c \in Branch, NEW g \in File, delta'[c][g] = o
        PROVE  Resolve(b, p.file)' = o
    <3>1. o # Inherit /\ o > Gone
      BY <1>5 DEF Inherit, Gone
    <3>2. delta[c][g] = o
      BY <2>2, <2>4, <3>1 DEF BranchStep
    <3>3. \/ c = b /\ g = p.file
          \/ c = Main /\ g = p.file /\ delta[b][p.file] = Inherit /\ b # Main
      BY <1>2, <1>4, <1>5, <3>1, <3>2, PlaceOfFile DEF HasDelta
    <3>4. CASE c = b /\ g = p.file
      BY <2>4, <3>1, <3>4 DEF Resolve
    <3>5. CASE c = Main /\ g = p.file /\ delta[b][p.file] = Inherit /\ b # Main
      <4>1. delta'[b][p.file] = Inherit
        BY <1>2, <2>2, <3>5 DEF BranchStep
      <4> QED BY <2>4, <3>1, <3>5, <4>1 DEF Resolve, Inherited
    <3> QED BY <3>3, <3>4, <3>5
  <2> QED BY <1>1, <1>4, <2>3, <2>4
<1>9. ASSUME NEW x \in other, OtherEnds(x)
      PROVE  /\ data'[o] \in pending'.seen
             /\ \A c \in Branch, g \in File : delta'[c][g] = o => Resolve(b, p.file)' = o
  <2>0. PICK d \in Branch, f \in File : d = x.branch /\ f = x.file
    BY <1>9, OtherIsFileStep
  <2>1. FileStep(d, f) /\ delta' = delta /\ UNCHANGED base
    BY <1>9, <2>0, OtherIsFileStep
  <2>2. Resolve(b, p.file)' = Resolve(b, p.file)
    BY <2>1 DEF Resolve, Inherited
  <2>3. CASE data'[o] = data[o]
    BY <1>1, <1>4, <2>1, <2>2, <2>3
  <2>4. CASE data'[o] # data[o]
    <3>1. o = delta[d][f]
      BY <1>5, <2>1, <2>4 DEF FileStep
    <3>2. Resolve(b, p.file)' = o
      BY <1>4, <2>2, <3>1
    <3> QED BY <1>6, <3>2
  <2> QED BY <2>3, <2>4
<1> QED BY <1>7, <1>8, <1>9 DEF Async

\* A request begins with a descriptor that holds what is visible then, or
\* with one that it will not use.
LEMMA BeginServes ==
    ASSUME MountInv, InodesInverse, TypeInv, ReadInv, [Next]_vars,
           NEW op \in {"read", "write"}, NEW i \in RootIno + 1 .. nextIno - 1, Begin(op, i)
    PROVE  ServeInv'
<1>1. CASE pending' = NoReq
  BY <1>1 DEF ServeInv, NoReq
<1>2. CASE pending' # NoReq /\ op = "write"
  <2>1. pending'.op = "write" /\ pending'.ino = i /\ i # 0
    BY <1>2, BeginFacts DEF RootIno, InodesInverse
  <2>2. rcache' = IF rcache.ino = i THEN NoCache ELSE rcache
    BY <1>2, BeginFacts
  <2>3. rcache'.ino # i
    BY <2>1, <2>2 DEF NoCache
  <2> QED BY <2>1, <2>3 DEF ServeInv
<1>3. CASE pending' # NoReq /\ op = "read"
  <2>1. /\ pending'.op = "read" /\ pending'.ino = i /\ pending'.epoch = epoch
        /\ pending'.seen = Visible(i) /\ mounted \in alive
        /\ UNCHANGED <<rcache, inoPath, mounted, alive, base, delta, epoch, data, queue>>
    BY <1>3, BeginFacts
  <2>2. ASSUME Cached(rcache, i, epoch), risk' = {}
        PROVE  /\ data[rcache.obj] \in Visible(i)
               /\ \A p \in InoPath, b, c \in Branch, g \in File :
                     inoPath[i] = p /\ BranchOf(p) = b => Resolve(b, p.file) = rcache.obj
    <3>1. i \in DOMAIN inoPath /\ risk = {}
      BY <2>2, BeginFacts, RiskGrows
    <3>2. PICK p \in InoPath : p = inoPath[i]
      BY <3>1, KnownPath
    <3>3. PICK b \in Branch : b = BranchOf(p)
      BY BranchOfType
    <3>4. Fresh(rcache, p, b)
      BY <2>2, <3>1, <3>2, <3>3 DEF Fresh, Cached
    <3>5. Steady(p, b) /\ (b \in alive => Resolve(b, p.file) = rcache.obj)
      BY <3>1, <3>4 DEF ReadInv
    <3>6. b \in alive
      BY <2>1, <3>3, <3>5 DEF Steady, BranchOf
    <3>7. Resolve(b, p.file) = rcache.obj /\ rcache.obj # Gone
      BY <2>2, <3>5, <3>6 DEF Cached
    <3>8. data[rcache.obj] \in Visible(i)
      BY <3>1, <3>2, <3>3, <3>7 DEF Visible, Content
    <3> QED BY <3>2, <3>3, <3>7, <3>8
  <2>3. ASSUME Cached(rcache, pending.ino, pending.epoch)', risk' = {}
        PROVE  /\ data'[rcache'.obj] \in pending'.seen
               /\ \A p \in InoPath, b, c \in Branch, g \in File :
                     inoPath'[pending'.ino] = p /\ BranchOf(p)' = b /\ delta'[c][g] = rcache'.obj
                        => Resolve(b, p.file)' = rcache'.obj
    <3>1. Cached(rcache, i, epoch)
      BY <2>1, <2>3 DEF Cached
    <3>2. \A b, f : Resolve(b, f)' = Resolve(b, f)
      BY <2>1 DEF Resolve, Inherited
    <3>3. \A p : BranchOf(p)' = BranchOf(p)
      BY <2>1 DEF BranchOf
    <3> QED BY <2>1, <2>2, <2>3, <3>1, <3>2, <3>3
  <2> QED BY <2>1, <2>3 DEF ServeInv
<1> QED BY <1>1, <1>2, <1>3

\* Every step keeps what is known of the read that will be served from the
\* cache.
LEMMA ServeStep ==
    ASSUME MountInv, InodesInverse, TypeInv, SeenInv, ReadInv, ServeInv, [Next]_vars
    PROVE  ServeInv'
<1>1. CASE Async
  <2>1. /\ UNCHANGED rcache /\ pending'.epoch = pending.epoch /\ pending'.ino = pending.ino
        /\ pending'.op = pending.op /\ (pending = NoReq => pending' = NoReq)
    BY <1>1, AsyncPending
  <2>2. CASE pending = NoReq
    BY <2>1, <2>2 DEF ServeInv, NoReq
  <2>3. CASE pending # NoReq
    <3>1. pending'.op = "write" => rcache'.ino # pending'.ino
      BY <2>1 DEF ServeInv
    <3>2. ASSUME pending'.op = "read", Cached(rcache, pending.ino, pending.epoch)', risk' = {}
          PROVE  /\ data'[rcache'.obj] \in pending'.seen
                 /\ \A p \in InoPath, b, c \in Branch, g \in File :
                       inoPath'[pending'.ino] = p /\ BranchOf(p)' = b
                          /\ delta'[c][g] = rcache'.obj => Resolve(b, p.file)' = rcache'.obj
      <4>1. Cached(rcache, pending.ino, pending.epoch) /\ pending.op = "read"
        BY <2>1, <3>2 DEF Cached
      <4>2. /\ data'[rcache.obj] \in pending'.seen
            /\ \A p \in InoPath, b, c \in Branch, g \in File :
                  inoPath'[pending.ino] = p /\ BranchOf(p)' = b /\ delta'[c][g] = rcache.obj
                     => Resolve(b, p.file)' = rcache.obj
        BY <1>1, <2>3, <3>2, <4>1, AsyncServes
      <4> QED BY <2>1, <4>2
    <3> QED BY <3>1, <3>2 DEF ServeInv
  <2> QED BY <2>2, <2>3
<1>2. ASSUME NEW i \in RootIno + 1 .. nextIno - 1, Begin("read", i) \/ Begin("write", i)
      PROVE  ServeInv'
  BY <1>2, BeginServes
<1>3. CASE ~Serving'
  BY <1>3 DEF ServeInv, Serving
<1>4. Finishes => ~Serving'
  BY FinishesEnd, NoneServes
<1>5. CASE WriteOpen
  <2>1. pending' = NoReq \/ pending'.op = "opened"
    BY <1>5, WriteOpenGoesOn
  <2> QED BY <2>1 DEF ServeInv, NoReq
<1>6. CASE Quiet \/ UNCHANGED vars
  <2>1. /\ UNCHANGED <<inoPath, mounted, delta, base, data, pending, rcache>>
        /\ risk' = {} => risk = {}
    BY <1>6, QuietFacts DEF vars, inodes, manager, mount
  <2> QED BY <2>1 DEF ServeInv, Cached, BranchOf, Resolve, Inherited
<1> QED BY <1>1, <1>2, <1>3, <1>4, <1>5, <1>6, OneRequest

----------------------------------------------------------------------------
(* The theorems about the caches                                           *)

\* The initial states satisfy the invariant.
LEMMA InductiveStart == Init => IInv
<1> SUFFICES ASSUME Init PROVE IInv
  OBVIOUS
<1>1. MountInv /\ InodesInverse /\ TypeInv
  BY MountStarts, TypesStart
<1>2. pending = NoReq /\ rcache = NoCache /\ wcache = NoCache
  BY DEF Init
<1>3. FrozenInv
  BY <1>2 DEF Init, FrozenInv, DescriptorInv, LateInv, Emptying, NoReq, NoCache
<1> QED BY <1>1, <1>2, <1>3
  DEF IInv, SeenInv, ReadInv, WriteInv, ServeInv, Fresh, NoCache, NoReq, Serving

\* Every step keeps the invariant.
LEMMA InductiveStep == IInv /\ [Next]_vars => IInv'
  BY TypeStep, SeenStep, ReadStep, WriteStep, FrozenStep, ServeStep DEF IInv

\* FreshReads and AckedWrites as steps.
ReadIsFresh ==
    Ends("read") /\ reply'.ok /\ risk' = {} => reply'.data \in pending.seen

WriteIsThere ==
    Ends("write") \/ Ends("opened") =>
       (reply' # reply /\ reply'.ok /\ risk' = {} /\ pending.raced = {}
          => \A i \in {pending.ino} : Visible(i)' = {reply'.data})

\* A request of some kind ends only where it is served.
LEMMA Ending ==
    ASSUME MountInv, InodesInverse, TypeInv, SeenInv, [Next]_vars,
           NEW op \in {"read", "write", "opened"}, Ends(op)
    PROVE  \/ (ReadCached /\ op = "read") \/ (ReadOpen /\ op = "read")
           \/ (WriteCached /\ op = "write") \/ (WriteOpen /\ op = "write")
           \/ (WriteOpened /\ op = "opened")
<1>1. pending # NoReq /\ pending' = NoReq /\ pending.op = op
  BY DEF Ends, NoReq
<1>2. ~Async
  BY <1>1, AsyncPending
<1>3. ASSUME NEW i, Begin("read", i) \/ Begin("write", i) PROVE FALSE
  BY <1>1, <1>3, BeginFacts
<1>4. ~UNCHANGED vars /\ ~Quiet
  BY <1>1, QuietFacts DEF vars
<1>5. WriteOpen \/ Finishes
  BY <1>1, <1>2, <1>3, <1>4, OneRequest
<1> QED BY <1>1, <1>5 DEF Finishes, ReadCached, ReadOpen, WriteCached, WriteOpen, WriteOpened, EmptyFile, Serve

\* In the invariant, the step that answers a read answers with something
\* visible since it began.
LEMMA ReadsAreFresh ==
    ASSUME IInv, [Next]_vars
    PROVE  ReadIsFresh
<1> SUFFICES ASSUME Ends("read"), reply'.ok, risk' = {} PROVE reply'.data \in pending.seen
  BY DEF ReadIsFresh
<1>0. MountInv /\ InodesInverse /\ TypeInv /\ SeenInv /\ ServeInv /\ risk = {}
  BY RiskGrows DEF IInv
<1>1. pending.op = "read" /\ pending # NoReq
  BY DEF Ends, NoReq
<1>2. CASE ReadCached
  <2>1. Cached(rcache, pending.ino, pending.epoch) /\ reply'.data = data[rcache.obj]
    BY <1>2 DEF ReadCached, Answer
  <2> QED BY <1>0, <1>1, <2>1 DEF ServeInv
<1>3. CASE ReadOpen
  <2>1. reply' # [ok |-> FALSE, id |-> req, data |-> Empty]
    OBVIOUS
  <2>2. PICK q \in InoPath, d \in Branch :
            /\ pending.ino \in DOMAIN inoPath /\ q = inoPath[pending.ino] /\ d = BranchOf(q)
            /\ Resolve(d, q.file) # Gone
            /\ Answer(TRUE, req, data[Resolve(d, q.file)])
    BY <1>0, <1>3, <2>1, ReadOpenFacts DEF Answer
  <2>3. reply'.data = data[Resolve(d, q.file)]
    BY <2>2 DEF Answer
  <2>4. data[Resolve(d, q.file)] \in Visible(pending.ino)
    BY <2>2 DEF Visible, Content
  <2> QED BY <1>0, <1>1, <2>3, <2>4 DEF SeenInv, Serving
<1> QED BY <1>0, <1>2, <1>3, Ending

\* In the invariant, the step that answers a write leaves its data visible.
LEMMA WritesAreThere ==
    ASSUME IInv, [Next]_vars
    PROVE  WriteIsThere
<1> SUFFICES ASSUME Ends("write") \/ Ends("opened"), reply'.ok, risk' = {}, pending.raced = {},
                    NEW i, i = pending.ino
             PROVE  Visible(i)' = {reply'.data}
  BY DEF WriteIsThere
<1>0. MountInv /\ InodesInverse /\ TypeInv /\ SeenInv /\ WriteInv /\ risk = {}
  BY RiskGrows DEF IInv
<1>1. /\ Serving /\ pending.epoch = epoch /\ mounted \in alive
      /\ i \in DOMAIN inoPath
  BY <1>0 DEF Ends, Serving, TypeInv, PendingInv, SeenInv
<1>2. PICK p \in InoPath : p = inoPath[i] /\ p.file \in File
  BY <1>0, <1>1, KnownPath DEF TypeInv, PendingInv
<1>3. PICK b \in Branch : b = BranchOf(p)
  BY <1>0, BranchOfType
<1>4. ASSUME NEW o, o \in 1..Len(data), delta[b][p.file] = o,
             data' = [data EXCEPT ![o] = req + Original],
             UNCHANGED <<inoPath, mounted, delta, base>>, reply'.data = req + Original
      PROVE  Visible(i)' = {reply'.data}
  <2>1. data'[o] = reply'.data
    BY <1>0, <1>4 DEF TypeInv, StoreInv
  <2>2. o # Inherit /\ o # Gone
    BY <1>0, <1>4 DEF Inherit, Gone, TypeInv, StoreInv
  <2>3. delta'[b][p.file] = o /\ inoPath' = inoPath /\ mounted' = mounted
    BY <1>4
  <2>4. Resolve(b, p.file)' = o
    BY <2>2, <2>3 DEF Resolve
  <2>5. Content(b, p.file)' = {data'[o]}
    BY <2>2, <2>4 DEF Content
  <2>6. Visible(i)' = Content(b, p.file)'
    BY <1>1, <1>2, <1>3, <2>3 DEF Visible, BranchOf, Content, Resolve, Inherited
  <2> QED BY <2>1, <2>5, <2>6
<1>5. CASE WriteCached \/ WriteOpened
  <2>1. /\ Cached(wcache, i, epoch)
        /\ data' = [data EXCEPT ![wcache.obj] = req + Original]
        /\ UNCHANGED <<inodes, mounted, delta, base>>
    BY <1>0, <1>1, <1>5 DEF WriteCached, WriteOpened, Serve, TypeInv, OpenedInv
  <2>6. reply'.data = req + Original
    BY <1>5 DEF WriteCached, WriteOpened, Answer
  <2>2. Fresh(wcache, p, b)
    BY <1>1, <1>2, <1>3, <2>1 DEF Fresh, Cached
  <2>3. Steady(p, b) /\ (b \in alive => delta[b][p.file] = wcache.obj)
    BY <1>0, <2>2 DEF WriteInv
  <2>4. b \in alive
    BY <1>1, <1>3, <2>3 DEF Steady, BranchOf
  <2>5. wcache.obj \in 1..Len(data)
    BY <1>0, <2>1, CachedObject
  <2> QED BY <1>4, <2>1, <2>3, <2>4, <2>5, <2>6 DEF inodes
<1>6. ~WriteOpen
  BY <1>0, WriteOpenFacts
<1> QED BY <1>0, <1>5, <1>6, Ending

\* Whatever commits, reverts, switches, truncations and first writes came
\* before, and whatever clients, the worker and other mounts do meanwhile, a
\* read that meets none of the risks shows what the file held at some moment
\* of the request: the fast path never serves a file that was replaced.
THEOREM ReadsStayFresh == Spec => FreshReads
<1>1. IInv /\ [Next]_vars => IInv' /\ [ReadIsFresh]_vars
  BY InductiveStep, ReadsAreFresh
<1>2. FreshReads <=> [][ReadIsFresh]_vars
  BY PTL DEF FreshReads, ReadIsFresh
<1> QED BY <1>1, <1>2, InductiveStart, PTL DEF Spec

\* Whatever interleaves, a write that is acknowledged while no client changed
\* its branch, and that meets none of the risks, is what the file holds: the
\* fast path writes to the delta of the branch and to nothing else.
THEOREM WritesLand == Spec => AckedWrites
<1>1. IInv /\ [Next]_vars => IInv' /\ [WriteIsThere]_vars
  BY InductiveStep, WritesAreThere
<1>2. AckedWrites <=> [][WriteIsThere]_vars
  BY PTL DEF AckedWrites, WriteIsThere
<1> QED BY <1>1, <1>2, InductiveStart, PTL DEF Spec
=============================================================================
