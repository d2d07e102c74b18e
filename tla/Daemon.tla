------------------------------- MODULE Daemon -------------------------------
(***************************************************************************)
(* The daemon (src/src/daemon.rs), its socket, its mount table, and the    *)
(* commands of src/src/main.rs that talk to it.  A command is a process:   *)
(* it may start a daemon, connects, has one request answered, and some     *)
(* then write to the control file of a mount.  A daemon answers one        *)
(* connection after the other, while its FUSE sessions serve the control   *)
(* files at the same time.  Daemons may be killed.                         *)
(*                                                                         *)
(* Branches fork from main; the branch table is on disk and so survives    *)
(* its daemon.  What the branch requests do to files is in BranchManager.  *)
(***************************************************************************)
EXTENDS Naturals, Sequences, FiniteSets

CONSTANTS
    Proc,       \* daemon processes that commands may start
    Client,     \* commands
    Command,    \* the commands that are given
    Branch,     \* branch names
    Main,       \* "main"
    Mountpoint, \* mountpoints
    NoOne,      \* no process, no client, no branch
    Eager,      \* control files are used before the mount is acknowledged
    MaxCrash    \* bound: kills of a daemon

ASSUME CommandAssumption ==
    Command \subseteq {"mount", "start", "unmount", "create", "finish", "drop", "shutdown"}
ASSUME NameAssumption ==
    /\ Main \in Branch
    /\ NoOne \notin Branch \union Proc \union Client
ASSUME SwitchAssumption == Eager \in BOOLEAN /\ MaxCrash \in Nat
ASSUME EnoughProcs ==
    IsFiniteSet(Client) /\ IsFiniteSet(Proc) /\ Cardinality(Client) <= Cardinality(Proc)

VARIABLES
    cl,         \* every command: where it is, what it asks and the answer
    socket,     \* the process that daemon.sock leads to
    dpc,        \* every process: where it is
    cur,        \* every process: the connection it serves
    backlog,    \* every process: connections it has not accepted
    flag,       \* every process: shutdown
    mounts,     \* every process: mounts
    mb,         \* every process: mount_branches
    notifiers,  \* every process: the keys of notifiers
    session,    \* the process that serves a mountpoint and holds its session
    stray,      \* who still serves a mountpoint without holding its session
    alive,      \* the branch table
    crashes,    \* kills so far
    raced       \* whether a daemon was started beside another (not in the code)

procs == <<dpc, cur, backlog, flag, mounts, mb, notifiers, session>>
vars  == <<cl, socket, procs, alive, crashes, raced, stray>>

Running(d) == dpc[d] \notin {"unborn", "starting", "dead"}

\* is_daemon_running: the socket file is there and someone listens.
Reachable == socket # NoOne /\ Running(socket)

At(c, pc) == cl[c].pc = pc
Go(c, pc) == cl' = [cl EXCEPT ![c].pc = pc]

----------------------------------------------------------------------------
(* Commands                                                                *)

InFlight(c) == cl[c].pc \notin {"idle", "done", "failed"}

\* A command is given.  A mountpoint is mounted when it is free.
Issue(c, cmd, b, m) ==
    /\ At(c, "idle")
    /\ cmd \in {"mount", "create", "drop"} \/ b = Main       \* others name no branch
    /\ cmd = "mount" => /\ session[m] = NoOne
                        /\ \A o \in Client : InFlight(o) => cl[o].cmd # "mount" \/ cl[o].mp # m
    /\ cl' = [cl EXCEPT ![c] = [pc |-> IF cmd \in {"mount", "start"} THEN "ensure" ELSE "connect",
                               cmd |-> cmd, br |-> b, mp |-> m, ok |-> FALSE]]
    /\ UNCHANGED <<socket, procs, alive, crashes, raced, stray>>

AfterEnsure(c) == IF cl[c].cmd = "start" THEN "done" ELSE "connect"

\* ensure_daemon: the probe.
Ensure(c) ==
    /\ At(c, "ensure")
    /\ Go(c, IF Reachable THEN AfterEnsure(c) ELSE "spawn")
    /\ UNCHANGED <<socket, procs, alive, crashes, raced, stray>>

\* start_daemon_background: a process is started, whatever others did since
\* the probe.
StartDaemon(c) ==
    /\ At(c, "spawn")
    /\ dpc' = [dpc EXCEPT ![CHOOSE d \in Proc : dpc[d] = "unborn"] = "starting"]
    /\ raced' = (raced \/ \E e \in Proc : dpc[e] \notin {"unborn", "dead"})
    /\ Go(c, "poll")
    /\ UNCHANGED <<socket, cur, backlog, flag, mounts, mb, notifiers, session, alive, crashes, stray>>

\* The rest of start_daemon_background: 50 probes, then an error.
Poll(c) ==
    /\ At(c, "poll")
    /\ Go(c, IF Reachable THEN AfterEnsure(c) ELSE "failed")
    /\ UNCHANGED <<socket, procs, alive, crashes, raced, stray>>

\* send_request, up to the line that is sent.
Connect(c) ==
    /\ At(c, "connect")
    /\ IF Reachable
       THEN /\ backlog' = [backlog EXCEPT ![socket] = Append(@, c)]
            /\ Go(c, "waiting")
       ELSE /\ Go(c, "failed")
            /\ UNCHANGED backlog
    /\ UNCHANGED <<socket, dpc, cur, flag, mounts, mb, notifiers, session, alive, crashes, raced, stray>>

\* The response is read and the connection closed; create and commit or
\* abort go on with a control file.
Consume(c) ==
    /\ At(c, "answered")
    /\ Go(c, IF ~cl[c].ok \/ (cl[c].cmd = "finish" /\ cl[c].br = Main) THEN "failed"
             ELSE IF cl[c].cmd \in {"create", "finish"} THEN "ctl" ELSE "done")
    /\ UNCHANGED <<socket, procs, alive, crashes, raced, stray>>

\* Mutated form of SwitchMount: the notifier stays where it was.
SwitchMountOnly(d, m, b) ==
    /\ mb' = [mb EXCEPT ![d][m] = b]
    /\ UNCHANGED notifiers

\* switch_mount_branch: the notifier, if there is one, moves along.
SwitchMount(d, m, b) ==
    /\ mb' = [mb EXCEPT ![d][m] = b]
    /\ notifiers' = [notifiers EXCEPT ![d] =
          IF <<mb[d][m], m>> \in @ THEN (@ \ {<<mb[d][m], m>>}) \union {<<b, m>>} ELSE @]

\* Who serves what a program opens at m now: the session that d holds, or else
\* one whose unmount left it behind.
Serves(d, m) ==
    \/ session[m] = d
    \/ session[m] = NoOne /\ <<d, m>> \in stray

\* d is about to mount m.
ComingUp(d, m) == dpc[d] \in {"spawning", "notifying"} /\ cl[cur[d]].mp = m

\* The control file of the mountpoint: switch after create, commit or abort
\* of the branch that the daemon named.  It is served by the session.
Ctl(c) ==
    LET m == cl[c].mp
        b == cl[c].br
    IN  /\ At(c, "ctl")
        /\ \/ /\ session[m] = NoOne
              /\ Go(c, "failed")
              /\ UNCHANGED <<mb, notifiers, alive>>
           \/ \E d \in Proc :
                /\ Serves(d, m)
                /\ ~Eager => ~ComingUp(d, m)
                /\ IF b \notin alive THEN Go(c, "failed") /\ UNCHANGED <<mb, notifiers, alive>>
                   ELSE /\ Go(c, "done")
                        /\ IF cl[c].cmd = "create" THEN SwitchMount(d, m, b) /\ UNCHANGED alive
                           ELSE /\ alive' = alive \ {b}
                                /\ IF mb[d][m] = b THEN SwitchMount(d, m, Main)
                                   ELSE UNCHANGED <<mb, notifiers>>
        /\ UNCHANGED <<socket, dpc, cur, backlog, flag, mounts, session, crashes, raced, stray>>

----------------------------------------------------------------------------
(* The daemon                                                              *)

\* Mutated form of Bind: a socket file that is there is left, as its owner's.
BindBeside(d) ==
    /\ dpc[d] = "starting"
    /\ dpc' = [dpc EXCEPT ![d] = "listening"]
    /\ socket' = IF socket = NoOne THEN d ELSE socket
    /\ UNCHANGED <<cl, cur, backlog, flag, mounts, mb, notifiers, session, alive, crashes, raced, stray>>

\* The head of run: whatever socket file there is goes.
Bind(d) ==
    /\ dpc[d] = "starting"
    /\ dpc' = [dpc EXCEPT ![d] = "listening"]
    /\ socket' = d
    /\ UNCHANGED <<cl, cur, backlog, flag, mounts, mb, notifiers, session, alive, crashes, raced, stray>>

\* Mutated form of Accept: the connection stays in line.
AcceptAgain(d) ==
    /\ dpc[d] = "listening" /\ ~flag[d] /\ backlog[d] # <<>>
    /\ dpc' = [dpc EXCEPT ![d] = "serving"]
    /\ cur' = [cur EXCEPT ![d] = Head(backlog[d])]
    /\ UNCHANGED <<cl, socket, backlog, flag, mounts, mb, notifiers, session, alive, crashes, raced, stray>>

\* Mutated form of Accept: the flag is looked at when nobody waits.
AcceptFirst(d) ==
    /\ dpc[d] = "listening" /\ backlog[d] # <<>>
    /\ dpc' = [dpc EXCEPT ![d] = "serving"]
    /\ cur' = [cur EXCEPT ![d] = Head(backlog[d])]
    /\ backlog' = [backlog EXCEPT ![d] = Tail(@)]
    /\ UNCHANGED <<cl, socket, flag, mounts, mb, notifiers, session, alive, crashes, raced, stray>>

\* The loop of run: the flag is looked at before the next connection.
Accept(d) ==
    /\ dpc[d] = "listening" /\ ~flag[d] /\ backlog[d] # <<>>
    /\ dpc' = [dpc EXCEPT ![d] = "serving"]
    /\ cur' = [cur EXCEPT ![d] = Head(backlog[d])]
    /\ backlog' = [backlog EXCEPT ![d] = Tail(@)]
    /\ UNCHANGED <<cl, socket, flag, mounts, mb, notifiers, session, alive, crashes, raced, stray>>

Asked(d, cmd) == dpc[d] = "serving" /\ cl[cur[d]].cmd = cmd
To(d, pc)     == dpc' = [dpc EXCEPT ![d] = pc]

\* handle_client writes the response.
Respond(d, ok) ==
    /\ To(d, "closing")
    /\ cl' = [cl EXCEPT ![cur[d]].pc = "answered", ![cur[d]].ok = ok]

\* spawn_mount, first part: the branch of the mountpoint is set ...
MountRegister(d) ==
    LET c == cl[cur[d]] IN
    /\ Asked(d, "mount")
    /\ IF c.br \notin alive
       THEN Respond(d, FALSE) /\ UNCHANGED mb
       ELSE /\ mb' = [mb EXCEPT ![d][c.mp] = c.br]
            /\ To(d, "spawning")
            /\ UNCHANGED cl
    /\ UNCHANGED <<socket, cur, backlog, flag, mounts, notifiers, session, alive, crashes, raced, stray>>

\* unregister_mount
Unregistered(d, m) ==
    /\ mb' = [mb EXCEPT ![d][m] = NoOne]
    /\ notifiers' = [notifiers EXCEPT ![d] = @ \ {<<mb[d][m], m>>}]

\* ... then the session serves it, or fails and the entry goes ...
MountSpawn(d) ==
    LET m == cl[cur[d]].mp IN
    /\ dpc[d] = "spawning"
    /\ \/ /\ session[m] = NoOne
          /\ session' = [session EXCEPT ![m] = d]
          /\ To(d, "notifying")
          /\ UNCHANGED <<cl, mb, notifiers>>
       \/ /\ Unregistered(d, m)
          /\ Respond(d, FALSE)
          /\ UNCHANGED session
    /\ UNCHANGED <<socket, cur, backlog, flag, mounts, alive, crashes, raced, stray>>

\* ... and the notifier is registered under the branch of the request.
MountInsert(d) ==
    LET c == cl[cur[d]] IN
    /\ dpc[d] = "notifying"
    /\ notifiers' = [notifiers EXCEPT ![d] = @ \union {<<c.br, c.mp>>}]
    /\ mounts' = [mounts EXCEPT ![d] = @ \union {c.mp}]
    /\ Respond(d, TRUE)
    /\ UNCHANGED <<socket, cur, backlog, flag, mb, session, alive, crashes, raced, stray>>

\* Mutated form of UnmountSession: the entry goes first, the session stays.
UnmountEntry(d) ==
    LET m == cl[cur[d]].mp IN
    /\ Asked(d, "unmount")
    /\ IF m \notin mounts[d]
       THEN Respond(d, FALSE) /\ UNCHANGED mb
       ELSE /\ mb' = [mb EXCEPT ![d][m] = NoOne]
            /\ To(d, "unregistering")
            /\ UNCHANGED cl
    /\ UNCHANGED <<mounts, session, socket, cur, backlog, flag, notifiers, alive, crashes, raced, stray>>

\* fuser's BackgroundSession is dropped for the mountpoints M of d.  That
\* unmounts, or, when a program has a file open there, detaches the mount or
\* fails; the thread is not waited for and serves on (external).
DropSessions(d, M) ==
    /\ session' = [m \in Mountpoint |-> IF m \in M THEN NoOne ELSE session[m]]
    /\ \E B \in SUBSET M : stray' = stray \union ({d} \X B)

\* unmount: the session is dropped ...
UnmountSession(d) ==
    LET m == cl[cur[d]].mp IN
    /\ Asked(d, "unmount")
    /\ IF m \notin mounts[d]
       THEN Respond(d, FALSE) /\ UNCHANGED <<mounts, session, stray>>
       ELSE /\ mounts' = [mounts EXCEPT ![d] = @ \ {m}]
            /\ DropSessions(d, {m})
            /\ To(d, "unregistering")
            /\ UNCHANGED cl
    /\ UNCHANGED <<socket, cur, backlog, flag, mb, notifiers, alive, crashes, raced>>

\* ... then its entry goes, and after the last mount the flag is set.
UnmountRegister(d) ==
    /\ dpc[d] = "unregistering"
    /\ Unregistered(d, cl[cur[d]].mp)
    /\ flag' = [flag EXCEPT ![d] = @ \/ mounts[d] = {}]
    /\ Respond(d, TRUE)
    /\ UNCHANGED <<socket, cur, backlog, mounts, session, alive, crashes, raced, stray>>

\* The requests that are one call of the manager: create, commit-branch or
\* abort-branch ("drop"), and the query of a mount's branch ("finish").
ManagerCall(d) ==
    LET c == cl[cur[d]]
        ok == CASE c.cmd = "create" -> c.br \notin alive
                [] c.cmd = "drop"   -> c.br \in alive \ {Main}
                [] OTHER            -> mb[d][c.mp] # NoOne
    IN  /\ dpc[d] = "serving" /\ c.cmd \in {"create", "drop", "finish"}
        /\ alive' = IF ~ok \/ c.cmd = "finish" THEN alive
                    ELSE IF c.cmd = "create" THEN alive \union {c.br}
                    ELSE alive \ {c.br}
        /\ To(d, "closing")
        /\ cl' = [cl EXCEPT ![cur[d]].pc = "answered", ![cur[d]].ok = ok,
                     ![cur[d]].br = IF ok /\ c.cmd = "finish" THEN mb[d][c.mp] ELSE c.br]
        /\ UNCHANGED <<socket, cur, backlog, flag, mounts, mb, notifiers, session, crashes, raced, stray>>

\* Shutdown and cleanup_all_mounts
Shutdown(d) ==
    /\ Asked(d, "shutdown")
    /\ flag' = [flag EXCEPT ![d] = TRUE]
    /\ DropSessions(d, mounts[d])
    /\ mb' = [mb EXCEPT ![d] = [m \in Mountpoint |-> IF m \in mounts[d] THEN NoOne ELSE @[m]]]
    /\ notifiers' = [notifiers EXCEPT ![d] =
                        @ \ {<<mb[d][m], m>> : m \in mounts[d]}]
    /\ mounts' = [mounts EXCEPT ![d] = {}]
    /\ Respond(d, TRUE)
    /\ UNCHANGED <<socket, cur, backlog, alive, crashes, raced>>

\* handle_client ends: with the flag at once, else when the peer has closed.
HangUp(d) ==
    /\ dpc[d] = "closing"
    /\ flag[d] \/ ~At(cur[d], "answered")
    /\ To(d, "listening")
    /\ cur' = [cur EXCEPT ![d] = NoOne]
    /\ UNCHANGED <<cl, socket, backlog, flag, mounts, mb, notifiers, session, alive, crashes, raced, stray>>

\* Whoever is still connected to d reads the end of the stream.
Disconnect(d, S) ==
    cl' = [c \in Client |-> IF c \in S THEN [cl[c] EXCEPT !.pc = "failed"] ELSE cl[c]]

Waiting(d) == {backlog[d][i] : i \in DOMAIN backlog[d]}

\* Mutated form of Exit: the listener is left open.
ExitListening(d) ==
    /\ dpc[d] = "listening" /\ flag[d]
    /\ To(d, "dead")
    /\ socket' = NoOne
    /\ UNCHANGED <<cl, cur, backlog, flag, mounts, mb, notifiers, session, alive, crashes, raced, stray>>

\* The end of run: the socket file goes, whoever made it, and the listener
\* with the connections it has not accepted.
Exit(d) ==
    /\ dpc[d] = "listening" /\ flag[d]
    /\ To(d, "dead")
    /\ socket' = NoOne
    /\ backlog' = [backlog EXCEPT ![d] = <<>>]
    /\ Disconnect(d, Waiting(d))
    /\ stray' = stray \ ({d} \X Mountpoint)
    /\ UNCHANGED <<cur, flag, mounts, mb, notifiers, session, alive, crashes, raced>>

\* The last file is closed, or an administrator unmounts: the thread of a
\* session that was left behind ends.
StrayEnds(d, m) ==
    /\ <<d, m>> \in stray
    /\ stray' = stray \ {<<d, m>>}
    /\ UNCHANGED <<cl, socket, procs, alive, crashes, raced>>

\* The process is killed: the kernel ends its sessions, the socket file stays.
Crash(d) ==
    /\ crashes < MaxCrash /\ dpc[d] \notin {"unborn", "dead"}
    /\ crashes' = crashes + 1
    /\ To(d, "dead")
    /\ Disconnect(d, Waiting(d) \union {c \in {cur[d]} \ {NoOne} : At(c, "waiting")})
    /\ session' = [m \in Mountpoint |-> IF session[m] = d THEN NoOne ELSE session[m]]
    /\ backlog' = [backlog EXCEPT ![d] = <<>>]
    /\ mounts' = [mounts EXCEPT ![d] = {}]
    /\ stray' = stray \ ({d} \X Mountpoint)
    /\ UNCHANGED <<socket, cur, flag, mb, notifiers, alive, raced>>

----------------------------------------------------------------------------
(* The specification                                                       *)

Init ==
    /\ cl = [c \in Client |-> [pc |-> "idle", cmd |-> "none", br |-> Main, mp |-> NoOne, ok |-> FALSE]]
    /\ socket = NoOne
    /\ dpc = [d \in Proc |-> "unborn"]
    /\ cur = [d \in Proc |-> NoOne]
    /\ backlog = [d \in Proc |-> <<>>]
    /\ flag = [d \in Proc |-> FALSE]
    /\ mounts = [d \in Proc |-> {}]
    /\ mb = [d \in Proc |-> [m \in Mountpoint |-> NoOne]]
    /\ notifiers = [d \in Proc |-> {}]
    /\ session = [m \in Mountpoint |-> NoOne]
    /\ alive = {Main}
    /\ crashes = 0
    /\ raced = FALSE
    /\ stray = {}

ClientStep(c) == Ensure(c) \/ StartDaemon(c) \/ Poll(c) \/ Connect(c) \/ Consume(c) \/ Ctl(c)

DaemonStep(d) ==
    \/ Bind(d) \/ Accept(d)
    \/ MountRegister(d) \/ MountSpawn(d) \/ MountInsert(d)
    \/ UnmountSession(d) \/ UnmountRegister(d)
    \/ ManagerCall(d) \/ Shutdown(d)
    \/ HangUp(d) \/ Exit(d)

Next ==
    \/ \E c \in Client, cmd \in Command, b \in Branch, m \in Mountpoint : Issue(c, cmd, b, m)
    \/ \E c \in Client : ClientStep(c)
    \/ \E d \in Proc : DaemonStep(d) \/ Crash(d) \/ \E m \in Mountpoint : StrayEnds(d, m)

\* A daemon and a command that can go on do: neither waits for anything but
\* the other, and sleeps are bounded.
Spec ==
    /\ Init /\ [][Next]_vars
    /\ \A c \in Client : WF_vars(ClientStep(c))
    /\ \A d \in Proc : WF_vars(DaemonStep(d))

----------------------------------------------------------------------------
(* Properties                                                              *)

\* Shapes, and who points at whom: a connection is with one daemon, and only
\* while its command waits; what a daemon holds as mounted it serves.
TypeOK ==
    /\ \A c \in Client : cl[c].br \in Branch /\ cl[c].mp \in Mountpoint \union {NoOne}
    /\ socket \in Proc \union {NoOne}
    /\ \A d \in Proc :
          /\ \A c \in Waiting(d) : At(c, "waiting") /\ \A e \in Proc \ {d} : c \notin Waiting(e)
          /\ dpc[d] \in {"serving", "spawning", "notifying", "unregistering"} => At(cur[d], "waiting")
          /\ mounts[d] \subseteq {m \in Mountpoint : session[m] = d}
    /\ alive \subseteq Branch /\ Main \in alive
    /\ stray \subseteq Proc \X Mountpoint

\* Two daemons run over one storage, or one that the socket does not lead to,
\* only after a command started one beside another: while it was starting, or
\* had come up since the command's probe (ensure_daemon has no lock against
\* that).  Exits, kills, stale socket files and restarts never lead there.
\* (README: mounts "share a single branch namespace managed by the daemon".)
OneDaemon ==
    \A d, e \in Proc : Running(d) /\ Running(e) => (d = e /\ socket = d) \/ raced

\* A mountpoint whose session a daemon holds has its branch: get_branch_name
\* never falls back to main behind a program's back, neither while the mount
\* comes up nor until its session is dropped (spawn_mount, unmount).  A session
\* that outlives its unmount (stray) is not covered: it does fall back.
NeverFallsBack ==
    \A m \in Mountpoint : session[m] # NoOne => mb[session[m]][m] # NoOne

\* The notifier of a mount is found under the branch it shows, so that a
\* commit or a revert there reaches its kernel cache (invalidate_branches),
\* after any switches.
NotifierFollows ==
    \A d \in Proc : \A m \in mounts[d] :
        <<mb[d][m], m>> \in notifiers[d] /\ Cardinality({k \in notifiers[d] : k[2] = m}) = 1

\* A daemon that ends by itself takes no mount with it whose session it holds:
\* none is made between the decision to shut down and the end.
ExitTakesNoMount ==
    [][\A d \in Proc : dpc[d] # "dead" /\ dpc'[d] = "dead" /\ crashes' = crashes
          => \A m \in Mountpoint : session[m] # d]_vars

\* Every command comes to its end, whether its daemon answers, exits or is
\* killed meanwhile (a command is given once, so in the end none is under way).
CommandsEnd == <>[](\A c \in Client : ~InFlight(c))
=============================================================================
