--------------------------- MODULE Daemon_proofs ---------------------------
(***************************************************************************)
(* The daemon for any numbers of commands, processes, mountpoints,         *)
(* branches and kills.  Who is connected to whom, and how far each mount   *)
(* and unmount has come, is one inductive invariant; the properties follow *)
(* from it.                                                                *)
(***************************************************************************)
EXTENDS Daemon, FiniteSetTheorems, TLAPS

ClientPc == {"idle", "ensure", "spawn", "poll", "connect", "waiting", "answered", "ctl", "done", "failed"}
DaemonPc == {"unborn", "starting", "listening", "serving", "spawning", "notifying",
             "unregistering", "closing", "dead"}

\* d works on the request of cur[d].
Busy(d) == dpc[d] \in {"serving", "spawning", "notifying", "unregistering"}

\* What d is asked.
Asks(d) == cl[cur[d]]

ClientRec ==
    [pc : ClientPc, cmd : Command \union {"none"}, br : Branch,
     mp : Mountpoint \union {NoOne}, ok : BOOLEAN]

Shape ==
    /\ cl \in [Client -> ClientRec]
    /\ \A c \in Client :
          /\ At(c, "idle") \/ cl[c].mp \in Mountpoint
          /\ At(c, "ctl") => cl[c].cmd = "create" \/ (cl[c].cmd = "finish" /\ cl[c].br # Main)
    /\ socket \in Proc \union {NoOne}
    /\ dpc \in [Proc -> DaemonPc]
    /\ cur \in [Proc -> Client \union {NoOne}]
    /\ \A d \in Proc : dpc[d] \in {"unborn", "starting", "listening"} => cur[d] = NoOne
    /\ backlog \in [Proc -> Seq(Client)]
    /\ flag \in [Proc -> BOOLEAN]
    /\ mounts \in [Proc -> SUBSET Mountpoint]
    /\ mb \in [Proc -> [Mountpoint -> Branch \union {NoOne}]]
    /\ notifiers \in [Proc -> SUBSET (Branch \X Mountpoint)]
    /\ session \in [Mountpoint -> Proc \union {NoOne}]
    /\ alive \subseteq Branch /\ Main \in alive
    /\ crashes \in Nat

Distinct(s) == \A i, j \in DOMAIN s : s[i] = s[j] => i = j

\* A command is in one place: in one backlog, once, or with one daemon.
Connected ==
    \A d \in Proc :
        /\ Distinct(backlog[d])
        /\ \A c \in Waiting(d) :
              /\ At(c, "waiting")
              /\ \A e \in Proc : (e # d => c \notin Waiting(e)) /\ (Busy(e) => cur[e] # c)
        /\ Busy(d) => /\ cur[d] \in Client /\ At(cur[d], "waiting")
                      /\ \A e \in Proc \ {d} : Busy(e) => cur[e] # cur[d]
        /\ dpc[d] = "closing" => cur[d] \in Client /\ Asks(d).pc \in {"answered", "ctl", "done", "failed"}

\* c asks for a mount that no session serves yet.
Mounting(c) ==
    /\ cl[c].cmd = "mount" /\ cl[c].pc \in {"ensure", "spawn", "poll", "connect", "waiting"}
    /\ \A d \in Proc : ~(dpc[d] = "notifying" /\ cur[d] = c)

\* A mountpoint that is asked for is free, and nobody else asks for it.
Free ==
    \A c \in Client :
        Mounting(c) => /\ session[cl[c].mp] = NoOne
                       /\ \A o \in Client : Mounting(o) /\ cl[o].mp = cl[c].mp => o = c

\* The sessions, and how far mounts and unmounts are.
Serving ==
    /\ \A m \in Mountpoint : \A d \in Proc :
          session[m] = d => /\ dpc[d] # "dead" /\ mb[d][m] # NoOne
                            /\ m \in mounts[d] \/ (dpc[d] = "notifying" /\ Asks(d).mp = m)
    /\ \A d \in Proc :
          /\ \A m \in mounts[d] : session[m] = d
          /\ dpc[d] \in {"spawning", "notifying"} => Asks(d).cmd = "mount"
          /\ dpc[d] = "spawning" => mb[d][Asks(d).mp] # NoOne
          /\ dpc[d] = "notifying" => session[Asks(d).mp] = d /\ Asks(d).mp \notin mounts[d]
          /\ dpc[d] = "unregistering" => Asks(d).mp \notin mounts[d]
          /\ flag[d] => mounts[d] = {} /\ dpc[d] \in {"closing", "listening", "dead"}

\* The notifiers are those of the mounts, each under its branch.
Notified ==
    \A d \in Proc :
        /\ dpc[d] \in {"spawning", "notifying"} => mb[d][Asks(d).mp] = Asks(d).br
        /\ \A m \in mounts[d] : <<mb[d][m], m>> \in notifiers[d]
        /\ dpc[d] # "dead" =>
              \A k \in notifiers[d] :
                  /\ k[1] = mb[d][k[2]]
                  /\ k[2] \in mounts[d] \/ (dpc[d] = "unregistering" /\ Asks(d).mp = k[2])

Up(d) == dpc[d] \notin {"unborn", "dead"}

\* One process at a time, and the socket leads to it.
Single ==
    \A d \in Proc :
        /\ Running(d) => socket = d
        /\ \A e \in Proc : Up(d) /\ Up(e) => d = e

\* Unless a daemon was started beside another.
Sole == raced \/ Single

Born    == {d \in Proc : dpc[d] # "unborn"}
Started == {c \in Client : cl[c].pc \notin {"idle", "ensure", "spawn"}}

\* Every process was started by a command of its own.
Enough == Cardinality(Born) <= Cardinality(Started)

IInv ==
    /\ Shape /\ Connected /\ Free /\ Serving /\ Enough
    /\ ~Eager => Notified
    /\ Sole
----------------------------------------------------------------------------
(* Processes and the commands that started them                            *)

\* No process is born, and no command goes back.
LEMMA EnoughKept ==
    ASSUME Enough, Born' = Born, Started \subseteq Started'
    PROVE  Enough'
<1>1. IsFiniteSet(Started') /\ IsFiniteSet(Started) /\ IsFiniteSet(Born)
  BY EnoughProcs, FS_Subset, Started \subseteq Client, Started' \subseteq Client, Born \subseteq Proc
     DEF Started, Born
<1>2. Cardinality(Started) <= Cardinality(Started')
  BY <1>1, FS_Subset
<1>3. Cardinality(Started) \in Nat /\ Cardinality(Started') \in Nat /\ Cardinality(Born) \in Nat
  BY <1>1, FS_CardinalityType
<1> QED BY <1>2, <1>3 DEF Enough

\* A command that finds no daemon has a process left to start.
LEMMA SomeUnborn ==
    ASSUME Enough, NEW c \in Client \ Started
    PROVE  \E d \in Proc : d \notin Born
<1> SUFFICES ASSUME Proc \subseteq Born PROVE FALSE
  OBVIOUS
<1>1. Born = Proc
  BY DEF Born
<1>2. Started \subseteq Client /\ IsFiniteSet(Started)
  BY EnoughProcs, FS_Subset DEF Started
<1>3. Cardinality(Started) < Cardinality(Client)
  <2>1. Cardinality(Started) <= Cardinality(Client) /\ Cardinality(Started) # Cardinality(Client)
    BY <1>2, EnoughProcs, FS_Subset
  <2>2. Cardinality(Started) \in Nat /\ Cardinality(Client) \in Nat
    BY <1>2, EnoughProcs, FS_CardinalityType
  <2> QED BY <2>1, <2>2
<1>4. /\ Cardinality(Started) \in Nat /\ Cardinality(Client) \in Nat
      /\ Cardinality(Proc) \in Nat
  BY <1>2, EnoughProcs, FS_CardinalityType
<1> QED BY <1>1, <1>3, <1>4, EnoughProcs DEF Enough

\* A process is born for the command that starts it.
LEMMA OneMore ==
    ASSUME Enough, NEW c \in Client \ Started, NEW d \in Proc \ Born,
           Started' = Started \union {c}, Born' = Born \union {d}
    PROVE  Enough'
<1>1. IsFiniteSet(Started) /\ IsFiniteSet(Born)
  BY EnoughProcs, FS_Subset, Started \subseteq Client, Born \subseteq Proc DEF Started, Born
<1>2. Cardinality(Started') = Cardinality(Started) + 1 /\ Cardinality(Born') = Cardinality(Born) + 1
  BY <1>1, FS_AddElement
<1>3. Cardinality(Started) \in Nat /\ Cardinality(Born) \in Nat
  BY <1>1, FS_CardinalityType
<1> QED BY <1>2, <1>3 DEF Enough

----------------------------------------------------------------------------
(* Steps of a command                                                      *)

\* Command c goes to pc, with the request it has.
Moves(c, pc) ==
    /\ cl' \in [Client -> ClientRec]
    /\ \A o \in Client \ {c} : cl'[o] = cl[o]
    /\ cl'[c].pc = pc /\ cl'[c].cmd = cl[c].cmd /\ cl'[c].mp = cl[c].mp

\* A command that goes on changes its own place only.
LEMMA GoMoves ==
    ASSUME Shape, NEW c \in Client, NEW pc \in ClientPc, Go(c, pc)
    PROVE  Moves(c, pc) /\ cl'[c].br = cl[c].br
<1>1. cl' = [cl EXCEPT ![c].pc = pc] /\ cl \in [Client -> ClientRec]
  BY DEF Go, Shape
<1> QED BY <1>1 DEF Moves, ClientRec

\* A daemon answers the command it serves.
LEMMA RespondMoves ==
    ASSUME Shape, NEW d \in Proc, cur[d] \in Client, NEW ok \in BOOLEAN, Respond(d, ok)
    PROVE  Moves(cur[d], "answered") /\ cl'[cur[d]].br = cl[cur[d]].br
<1>1. cl' = [cl EXCEPT ![cur[d]].pc = "answered", ![cur[d]].ok = ok] /\ cl \in [Client -> ClientRec]
  BY DEF Respond, Shape
<1> QED BY <1>1 DEF Moves, ClientRec, ClientPc

\* A step of a command that no daemon works on: everyone else stays where
\* they are.
LEMMA OneCommand ==
    ASSUME IInv, NEW c \in Client, cl[c].pc # "waiting", cl'[c].pc # "waiting",
           cl' \in [Client -> ClientRec], \A o \in Client \ {c} : cl'[o] = cl[o],
           cl[c].pc \in {"answered", "ctl", "done", "failed"}
              => cl'[c].pc \in {"answered", "ctl", "done", "failed"},
           \A d \in Proc : (Busy(d)' <=> Busy(d)) /\ (dpc'[d] = "closing" <=> dpc[d] = "closing"),
           UNCHANGED <<cur, backlog>>
    PROVE  Connected' /\ \A d \in Proc : Busy(d) => Asks(d)' = Asks(d)
<1>1. \A d \in Proc : Waiting(d)' = Waiting(d) /\ c \notin Waiting(d)
  BY DEF Waiting, IInv, Connected, At
<1>2. \A d \in Proc : Busy(d) => cur[d] \in Client /\ cur[d] # c /\ Asks(d)' = Asks(d)
  BY DEF IInv, Connected, At, Asks
<1>3. ASSUME NEW d \in Proc PROVE Connected!(d)'
  <2>1. \A o \in Waiting(d)' : At(o, "waiting")'
    BY <1>1 DEF IInv, Connected, At, Shape, Waiting
  <2>2. \A o \in Waiting(d)' : \A e \in Proc :
            (e # d => o \notin Waiting(e)') /\ (Busy(e)' => cur'[e] # o)
    BY <1>1 DEF IInv, Connected
  <2>3. Busy(d)' => /\ cur'[d] \in Client /\ At(cur[d], "waiting")'
                    /\ \A e \in Proc \ {d} : Busy(e)' => cur'[e] # cur'[d]
    BY <1>2 DEF IInv, Connected, At, Asks
  <2>4. dpc'[d] = "closing" =>
            cur'[d] \in Client /\ Asks(d)'.pc \in {"answered", "ctl", "done", "failed"}
    BY DEF IInv, Connected, Asks
  <2> QED BY <2>1, <2>2, <2>3, <2>4 DEF Connected, IInv
<1> QED BY <1>2, <1>3 DEF Connected

\* A step of one command on its own keeps everything.
LEMMA ClientMove ==
    ASSUME IInv, NEW c \in Client, NEW pc, Moves(c, pc), cl'[c].br = cl[c].br,
           cl[c].pc \in {"ensure", "poll", "connect", "answered", "ctl"},
           \/ pc = "spawn" /\ cl[c].pc = "ensure"
           \/ pc = "connect" /\ cl[c].pc \in {"ensure", "poll"}
           \/ pc \in {"ctl", "done", "failed"},
           pc = "ctl" => cl[c].cmd = "create" \/ (cl[c].cmd = "finish" /\ cl[c].br # Main),
           UNCHANGED <<socket, procs, alive, crashes, raced>>
    PROVE  IInv'
<1> USE DEF procs
<1>1. Shape'
  BY DEF IInv, Shape, Moves, At
<1>2. Connected' /\ \A d \in Proc : Busy(d) => Asks(d)' = Asks(d)
  BY OneCommand DEF Moves, Busy
<1>3. Free'
  <2>1. \A o \in Client : Mounting(o)' => Mounting(o) /\ cl'[o].mp = cl[o].mp
    BY DEF Mounting, Moves
  <2> QED BY <2>1 DEF IInv, Free
<1>4. Serving'
  BY <1>2 DEF IInv, Serving, Busy
<1>5. ~Eager => Notified'
  BY <1>2 DEF IInv, Notified, Busy
<1>6. Sole'
  BY DEF IInv, Sole, Single, Up, Running
<1>7. Enough'
  <2>1. Started \subseteq Started' /\ Born' = Born
    BY DEF Started, Born, Moves
  <2> QED BY <2>1, EnoughKept DEF IInv
<1> QED BY <1>1, <1>2, <1>3, <1>4, <1>5, <1>6, <1>7 DEF IInv
\* A command that polls for the socket of the daemon it started.
LEMMA PollInv == ASSUME IInv, NEW c \in Client, Poll(c) PROVE IInv'
<1>1. PICK pc \in {"done", "connect", "failed"} : Go(c, pc)
  BY DEF Poll, AfterEnsure
<1>2. Moves(c, pc) /\ cl'[c].br = cl[c].br
  BY <1>1, GoMoves DEF IInv, ClientPc
<1> QED BY <1>2, ClientMove DEF Poll, At

\* A command that reads the response.
LEMMA ConsumeInv == ASSUME IInv, NEW c \in Client, Consume(c) PROVE IInv'
<1>1. PICK pc \in {"ctl", "done", "failed"} :
          /\ Go(c, pc)
          /\ pc = "ctl" => cl[c].cmd = "create" \/ (cl[c].cmd = "finish" /\ cl[c].br # Main)
  BY DEF Consume
<1>2. Moves(c, pc) /\ cl'[c].br = cl[c].br
  BY <1>1, GoMoves DEF IInv, ClientPc
<1> QED BY <1>1, <1>2, ClientMove DEF Consume, At

\* A command is given: its mountpoint is free and nobody else's.
LEMMA IssueInv ==
    ASSUME IInv, NEW c \in Client, NEW cmd \in Command, NEW b \in Branch, NEW m \in Mountpoint,
           Issue(c, cmd, b, m)
    PROVE  IInv'
<1> DEFINE pc == IF cmd \in {"mount", "start"} THEN "ensure" ELSE "connect"
<1>0. /\ cl \in [Client -> ClientRec]
      /\ cl' = [cl EXCEPT ![c] = [pc |-> pc, cmd |-> cmd, br |-> b, mp |-> m, ok |-> FALSE]]
      /\ UNCHANGED <<socket, procs, alive, crashes, raced>>
      /\ cl[c].pc = "idle"
  BY DEF IInv, Shape, Issue, At
<1>1. /\ cl' \in [Client -> ClientRec]
      /\ \A o \in Client \ {c} : cl'[o] = cl[o]
      /\ cl'[c].pc \in {"ensure", "connect"} /\ cl'[c].cmd = cmd /\ cl'[c].br = b /\ cl'[c].mp = m
  BY <1>0 DEF ClientRec, ClientPc
<1> HIDE DEF pc
<1> USE <1>0 DEF procs
<1>2. Shape'
  BY <1>1 DEF IInv, Shape, At
<1>3. Connected' /\ \A d \in Proc : Busy(d) => Asks(d)' = Asks(d)
  BY <1>1, OneCommand DEF Busy
<1>4. Free'
  <2>1. \A o \in Client \ {c} : Mounting(o)' <=> Mounting(o)
    BY <1>1 DEF Mounting
  <2>2. Mounting(c)' => cmd = "mount"
    BY <1>1 DEF Mounting
  <2>3. \A o \in Client \ {c} : Mounting(o) => InFlight(o) /\ cl[o].cmd = "mount"
    BY DEF Mounting, InFlight
  <2>4. cmd = "mount" =>
            session[m] = NoOne /\ \A o \in Client \ {c} : Mounting(o) => cl[o].mp # m
    BY <2>3 DEF Issue
  <2> QED BY <1>1, <2>1, <2>2, <2>4 DEF IInv, Free
<1>5. Serving'
  BY <1>3 DEF IInv, Serving, Busy
<1>6. ~Eager => Notified'
  BY <1>3 DEF IInv, Notified, Busy
<1>7. Sole'
  BY DEF IInv, Sole, Single, Up, Running
<1>8. Enough'
  <2>1. Started \subseteq Started' /\ Born' = Born
    BY <1>1 DEF Started, Born
  <2> QED BY <2>1, EnoughKept DEF IInv
<1> QED BY <1>2, <1>3, <1>4, <1>5, <1>6, <1>7, <1>8 DEF IInv
\* A command that looks for a daemon.
LEMMA EnsureInv == ASSUME IInv, NEW c \in Client, Ensure(c) PROVE IInv'
<1>1. PICK pc \in {"done", "connect", "spawn"} : Go(c, pc)
  BY DEF Ensure, AfterEnsure
<1>2. Moves(c, pc) /\ cl'[c].br = cl[c].br
  BY <1>1, GoMoves DEF IInv, ClientPc
<1> QED BY <1>2, ClientMove DEF Ensure, At

\* A process is started: it is one of those left, and alone or noted as not.
LEMMA StartDaemonInv == ASSUME IInv, NEW c \in Client, StartDaemon(c) PROVE IInv'
<1> DEFINE d == CHOOSE d \in Proc : dpc[d] = "unborn"
<1>1. /\ dpc' = [dpc EXCEPT ![d] = "starting"]
      /\ Go(c, "poll")
      /\ cl[c].pc = "spawn"
      /\ UNCHANGED <<socket, cur, backlog, flag, mounts, mb, notifiers, session, alive, crashes>>
  BY DEF StartDaemon, At
<1>2. d \in Proc /\ dpc[d] = "unborn"
  <2>1. \E e \in Proc : dpc[e] = "unborn"
    BY <1>1, SomeUnborn DEF IInv, Started, Born
  <2> QED BY <2>1
<1> HIDE DEF d
<1>3. Moves(c, "poll") /\ cl'[c].br = cl[c].br
  BY <1>1, GoMoves DEF IInv, ClientPc
<1>4. dpc' \in [Proc -> DaemonPc] /\ dpc'[d] = "starting" /\ \A e \in Proc \ {d} : dpc'[e] = dpc[e]
  BY <1>1, <1>2 DEF IInv, Shape, DaemonPc
<1>5. Shape'
  BY <1>1, <1>2, <1>3, <1>4, ZenonT(40) DEF IInv, Shape, Moves, At
<1>6. Connected' /\ \A e \in Proc : Busy(e) => Asks(e)' = Asks(e)
  BY <1>1, <1>2, <1>3, <1>4, OneCommand DEF Moves, Busy
<1>7. Free'
  <2>1. \A o \in Client : Mounting(o)' => Mounting(o) /\ cl'[o].mp = cl[o].mp
    BY <1>1, <1>2, <1>3, <1>4 DEF Mounting, Moves
  <2> QED BY <1>1, <2>1 DEF IInv, Free
<1>8. Serving'
  BY <1>1, <1>2, <1>4, <1>6 DEF IInv, Serving, Busy
<1>9. ~Eager => Notified'
  BY <1>1, <1>2, <1>4, <1>6 DEF IInv, Notified, Busy
<1>10. Sole'
  <2>1. CASE \E e \in Proc : Up(e)
    BY <2>1, Zenon DEF StartDaemon, Sole, Up
  <2>2. CASE \A e \in Proc : ~Up(e)
    <3>1. Single'
      BY <1>2, <1>4, <2>2 DEF Single, Up, Running
    <3> QED BY <3>1 DEF Sole
  <2> QED BY <2>1, <2>2
<1>11. Enough'
  <2>1. Started' = Started \union {c} /\ c \notin Started
    BY <1>1, <1>3 DEF Started, Moves
  <2>2. Born' = Born \union {d} /\ d \notin Born
    BY <1>2, <1>4 DEF Born
  <2> QED BY <1>2, <2>1, <2>2, OneMore DEF IInv
<1> QED BY <1>5, <1>6, <1>7, <1>8, <1>9, <1>10, <1>11 DEF IInv

\* A command joins the backlog of the daemon it reaches.
LEMMA ConnectInv == ASSUME IInv, NEW c \in Client, Connect(c) PROVE IInv'
<1>1. CASE ~Reachable
  <2>1. Moves(c, "failed") /\ cl'[c].br = cl[c].br
    BY <1>1, GoMoves DEF IInv, ClientPc, Connect
  <2> QED BY <1>1, <2>1, ClientMove DEF Connect, At, procs
<1>2. CASE Reachable
  <2>1. /\ backlog' = [backlog EXCEPT ![socket] = Append(@, c)]
        /\ Go(c, "waiting") /\ cl[c].pc = "connect"
        /\ UNCHANGED <<socket, dpc, cur, flag, mounts, mb, notifiers, session, alive, crashes, raced>>
    BY <1>2 DEF Connect, At
  <2>2. Moves(c, "waiting") /\ cl'[c].br = cl[c].br
    BY <2>1, GoMoves DEF IInv, ClientPc
  <2>3. socket \in Proc /\ backlog \in [Proc -> Seq(Client)]
    BY <1>2 DEF Reachable, IInv, Shape
  <2>4. c \notin UNION {Waiting(d) : d \in Proc} /\ \A d \in Proc : Busy(d) => cur[d] # c
    BY <2>1 DEF IInv, Connected, At
  <2>5. /\ backlog' \in [Proc -> Seq(Client)] /\ Distinct(backlog'[socket])
        /\ \A d \in Proc : d = socket => Waiting(d)' = Waiting(d) \union {c}
        /\ \A d \in Proc \ {socket} : backlog'[d] = backlog[d] /\ Waiting(d)' = Waiting(d)
    <3> DEFINE s == backlog[socket]
    <3>1. s \in Seq(Client) /\ Distinct(s) /\ \A i \in DOMAIN s : s[i] # c
      BY <2>3, <2>4 DEF IInv, Connected, Waiting
    <3> HIDE DEF s
    <3>2. /\ Append(s, c) \in Seq(Client) /\ Len(Append(s, c)) = Len(s) + 1
          /\ \A i \in 1..Len(s) : Append(s, c)[i] = s[i]
          /\ Append(s, c)[Len(s) + 1] = c
      BY <3>1
    <3>3. DOMAIN s = 1..Len(s) /\ DOMAIN Append(s, c) = 1..(Len(s) + 1) /\ Len(s) \in Nat
      BY <3>1, <3>2
    <3>4. Distinct(Append(s, c))
      BY <3>1, <3>2, <3>3 DEF Distinct
    <3>5. {Append(s, c)[i] : i \in DOMAIN Append(s, c)} = {s[i] : i \in DOMAIN s} \union {c}
      BY <3>2, <3>3
    <3>6. backlog'[socket] = Append(s, c) /\ \A d \in Proc \ {socket} : backlog'[d] = backlog[d]
      BY <2>1, <2>3 DEF s
    <3>7. backlog' \in [Proc -> Seq(Client)]
      BY <2>1, <2>3, <3>2 DEF s
    <3> QED BY <2>1, <2>3, <3>4, <3>5, <3>6, <3>7 DEF Waiting, s
  <2>6. Shape'
    BY <2>1, <2>2, <2>5 DEF IInv, Shape, Moves, At
  <2>7. \A d \in Proc : (Busy(d)' <=> Busy(d)) /\ (Busy(d) => cur[d] \in Client /\ Asks(d)' = Asks(d))
    BY <2>1, <2>2, <2>4 DEF IInv, Connected, Asks, Moves, Busy
  <2>8. Connected'
    <3> SUFFICES ASSUME NEW d \in Proc PROVE Connected!(d)'
      BY DEF Connected
    <3>1. Distinct(backlog'[d])
      BY <2>5 DEF IInv, Connected
    <3>2. \A o \in Waiting(d)' : At(o, "waiting")'
      <4>1. Waiting(d) \subseteq Client \ {c} /\ \A o \in Waiting(d) : At(o, "waiting")
        BY <2>3, <2>4 DEF IInv, Connected, Waiting
      <4>2. Waiting(d)' \subseteq Waiting(d) \union {c}
        BY <2>5
      <4> QED BY <2>2, <4>1, <4>2 DEF At, Moves
    <3>3. \A o \in Waiting(d)' : \A e \in Proc :
              (e # d => o \notin Waiting(e)') /\ (Busy(e)' => cur'[e] # o)
      BY <2>1, <2>3, <2>4, <2>5, <2>7 DEF IInv, Connected
    <3>4. Busy(d)' => /\ cur'[d] \in Client /\ At(cur[d], "waiting")'
                      /\ \A e \in Proc \ {d} : Busy(e)' => cur'[e] # cur'[d]
      BY <2>1, <2>7 DEF IInv, Connected, At, Asks
    <3>5. dpc'[d] = "closing" =>
              cur'[d] \in Client /\ Asks(d)'.pc \in {"answered", "ctl", "done", "failed"}
      BY <2>1, <2>2 DEF IInv, Connected, Asks, Moves
    <3> QED BY <3>1, <3>2, <3>3, <3>4, <3>5 DEF Connected
  <2>9. Free'
    <3>1. \A o \in Client : Mounting(o)' => Mounting(o) /\ cl'[o].mp = cl[o].mp
      BY <2>1, <2>2 DEF Mounting, Moves
    <3> QED BY <2>1, <3>1 DEF IInv, Free
  <2>10. Serving'
    BY <2>1, <2>7 DEF IInv, Serving, Busy
  <2>11. ~Eager => Notified'
    BY <2>1, <2>7 DEF IInv, Notified, Busy
  <2>12. Sole'
    BY <2>1 DEF IInv, Sole, Single, Up, Running
  <2>13. Enough'
    <3>1. Started \subseteq Started' /\ Born' = Born
      BY <2>1, <2>2 DEF Started, Born, Moves
    <3> QED BY <3>1, EnoughKept DEF IInv
  <2> QED BY <2>6, <2>8, <2>9, <2>10, <2>11, <2>12, <2>13 DEF IInv
<1> QED BY <1>1, <1>2

\* What a daemon is asked has a mountpoint; a mount that has no session yet
\* is of a free one.
LEMMA MountIsNew ==
    ASSUME IInv, NEW d \in Proc, Busy(d)
    PROVE  /\ cur[d] \in Client /\ Asks(d) \in ClientRec /\ Asks(d).mp \in Mountpoint
           /\ Asks(d).cmd = "mount" /\ dpc[d] # "notifying" =>
                  /\ Mounting(cur[d])
                  /\ session[Asks(d).mp] = NoOne
                  /\ \A e \in Proc : Asks(d).mp \notin mounts[e]
<1>1. /\ cur[d] \in Client /\ At(cur[d], "waiting")
      /\ \A e \in Proc \ {d} : Busy(e) => cur[e] # cur[d]
  BY DEF IInv, Connected
<1>2. Asks(d) \in ClientRec /\ Asks(d).mp \in Mountpoint
  BY <1>1 DEF IInv, Shape, At, Asks
<1>3. Asks(d).cmd = "mount" /\ dpc[d] # "notifying" => Mounting(cur[d])
  BY <1>1 DEF Mounting, Asks, At, Busy
<1>4. \A e \in Proc : e # NoOne
  BY NameAssumption
<1> QED BY <1>1, <1>2, <1>3, <1>4 DEF IInv, Free, Serving, Asks

\* The session serves the control file: branch and notifier of the mount move
\* together.
LEMMA CtlInv == ASSUME IInv, NEW c \in Client, Ctl(c) PROVE IInv'
<1>1. PICK m \in Mountpoint, b \in Branch :
          /\ cl[c].pc = "ctl" /\ m = cl[c].mp /\ b = cl[c].br
          /\ cl[c].cmd = "create" \/ b # Main
  BY DEF Ctl, At, IInv, Shape, ClientRec
<1>2. UNCHANGED <<socket, dpc, cur, backlog, flag, mounts, session, crashes, raced>>
  BY DEF Ctl
<1>3. PICK pc \in {"failed", "done"} : Go(c, pc)
  BY DEF Ctl
<1>4. Moves(c, pc) /\ cl'[c].br = cl[c].br
  BY <1>3, GoMoves DEF IInv, ClientPc
<1>5. CASE UNCHANGED <<mb, notifiers, alive>>
  BY <1>1, <1>2, <1>4, <1>5, ClientMove DEF procs
<1>6. ASSUME NEW d \in Proc,
             ~Eager => ~ComingUp(d, m),
             IF cl[c].cmd = "create" THEN SwitchMount(d, m, b) /\ UNCHANGED alive
             ELSE /\ alive' = alive \ {b}
                  /\ IF mb[d][m] = b THEN SwitchMount(d, m, Main) ELSE UNCHANGED <<mb, notifiers>>
      PROVE  IInv'
  <2>1. ~Eager /\ dpc[d] \in {"spawning", "notifying"} => Asks(d).mp # m
    BY <1>6 DEF ComingUp, Asks
  <2>2. alive' \subseteq alive /\ Main \in alive'
    BY <1>1, <1>6 DEF IInv, Shape
  <2>3. \/ UNCHANGED <<mb, notifiers>>
        \/ \E x \in Branch : SwitchMount(d, m, x)
    BY <1>1, <1>6, NameAssumption
  <2>4. mb' \in [Proc -> [Mountpoint -> Branch \union {NoOne}]]
           /\ notifiers' \in [Proc -> SUBSET (Branch \X Mountpoint)]
    <3>1. CASE UNCHANGED <<mb, notifiers>>
      BY <3>1 DEF IInv, Shape
    <3>2. ASSUME NEW x \in Branch, SwitchMount(d, m, x)
          PROVE  /\ mb' \in [Proc -> [Mountpoint -> Branch \union {NoOne}]]
                 /\ notifiers' \in [Proc -> SUBSET (Branch \X Mountpoint)]
      <4>1. mb' = [mb EXCEPT ![d][m] = x] /\ mb \in [Proc -> [Mountpoint -> Branch \union {NoOne}]]
        BY <3>2 DEF SwitchMount, IInv, Shape
      <4>2. PICK N \in SUBSET (Branch \X Mountpoint) : notifiers' = [notifiers EXCEPT ![d] = N]
        <5>1. notifiers[d] \subseteq Branch \X Mountpoint /\ <<x, m>> \in Branch \X Mountpoint
          BY <1>1, <2>1 DEF IInv, Shape
        <5> QED BY <2>1, <3>2, <5>1 DEF SwitchMount
      <4> QED BY <1>1, <2>1, <4>1, <4>2 DEF IInv, Shape
    <3> QED BY <2>3, <3>1, <3>2
  <2>5. Shape'
    BY <1>1, <1>2, <1>4, <2>2, <2>4 DEF IInv, Shape, Moves, At
  <2>6. Connected' /\ \A e \in Proc : Busy(e) => Asks(e)' = Asks(e)
    BY <1>1, <1>2, <1>4, OneCommand DEF Moves, Busy
  <2>7. Free'
    <3>1. \A o \in Client : Mounting(o)' => Mounting(o) /\ cl'[o].mp = cl[o].mp
      BY <1>1, <1>2, <1>4 DEF Mounting, Moves
    <3> QED BY <1>2, <3>1 DEF IInv, Free
  <2>8. Serving'
    <3>1. \A e \in Proc, n \in Mountpoint : mb[e][n] # NoOne => mb'[e][n] # NoOne
      <4>1. ASSUME NEW x \in Branch, SwitchMount(d, m, x)
            PROVE  \A e \in Proc, n \in Mountpoint : mb'[e][n] \in {mb[e][n], x}
        <5>1. mb' = [mb EXCEPT ![d][m] = x] /\ mb \in [Proc -> [Mountpoint -> Branch \union {NoOne}]]
          BY <4>1 DEF SwitchMount, IInv, Shape
        <5> QED BY <5>1
      <4>2. \A x \in Branch : x # NoOne
        BY NameAssumption
      <4> QED BY <2>3, <4>1, <4>2
    <3>2. \A e \in Proc : Busy(e) => Asks(e).mp \in Mountpoint
      BY DEF IInv, Shape, Connected, At, Asks
    <3> QED BY <1>2, <2>6, <3>1, <3>2 DEF IInv, Serving, Busy
  <2>9. ~Eager => Notified'
    <3> SUFFICES ASSUME ~Eager, NEW e \in Proc PROVE Notified!(e)'
      BY DEF Notified
    <3>1. CASE UNCHANGED <<mb, notifiers>>
      BY <1>2, <2>6, <3>1 DEF IInv, Notified, Busy
    <3>2. ASSUME NEW x \in Branch, SwitchMount(d, m, x) PROVE Notified!(e)'
      <4>1. PICK N : /\ N = IF <<mb[d][m], m>> \in notifiers[d]
                            THEN (notifiers[d] \ {<<mb[d][m], m>>}) \union {<<x, m>>}
                            ELSE notifiers[d]
                     /\ notifiers' = [notifiers EXCEPT ![d] = N]
        BY <3>2 DEF SwitchMount
      <4>2. /\ mb'[d][m] = x
            /\ \A n \in Mountpoint \ {m} : mb'[d][n] = mb[d][n]
            /\ \A a \in Proc \ {d} : mb'[a] = mb[a] /\ notifiers'[a] = notifiers[a]
            /\ notifiers'[d] = N
        BY <1>1, <3>2, <4>1 DEF SwitchMount, IInv, Shape
      <4>3. CASE e # d
        BY <1>2, <2>6, <4>2, <4>3 DEF IInv, Notified, Busy
      <4>4. CASE e = d
        <5>1. dpc'[d] \in {"spawning", "notifying"} => mb'[d][Asks(d)'.mp] = Asks(d)'.br
          <6>1. dpc[d] \in {"spawning", "notifying"} =>
                    Asks(d).mp \in Mountpoint /\ Asks(d).mp # m
            BY <2>1, MountIsNew DEF Busy
          <6> QED BY <1>2, <2>6, <4>2, <6>1 DEF IInv, Notified, Busy
        <5>2. \A n \in mounts'[d] : <<mb'[d][n], n>> \in notifiers'[d]
          BY <1>2, <4>1, <4>2 DEF IInv, Notified, Shape
        <5>3. dpc[d] # "dead" => \A k \in notifiers'[d] :
                  k[1] = mb'[d][k[2]] /\
                  (k[2] \in mounts[d] \/ (dpc[d] = "unregistering" /\ Asks(d).mp = k[2]))
          <6> SUFFICES ASSUME dpc[d] # "dead", NEW k \in N
                       PROVE  k[1] = mb'[d][k[2]] /\
                              (k[2] \in mounts[d] \/ (dpc[d] = "unregistering" /\ Asks(d).mp = k[2]))
            BY <4>2
          <6>1. \A j \in notifiers[d] :
                    /\ j = <<j[1], j[2]>> /\ j[2] \in Mountpoint /\ j[1] = mb[d][j[2]]
                    /\ j[2] \in mounts[d] \/ (dpc[d] = "unregistering" /\ Asks(d).mp = j[2])
            BY DEF IInv, Shape, Notified
          <6>2. CASE k \in notifiers[d] /\ k[2] # m
            BY <4>2, <6>1, <6>2
          <6>3. CASE k \in notifiers[d] /\ k[2] = m
            <7>1. k = <<mb[d][m], m>>
              BY <6>1, <6>3
            <7>2. k = <<x, m>>
              BY <4>1, <6>3, <7>1
            <7> QED BY <4>2, <6>1, <6>3, <7>2
          <6>4. CASE k \notin notifiers[d]
            <7>1. <<mb[d][m], m>> \in notifiers[d] /\ k = <<x, m>>
              BY <4>1, <6>4
            <7> QED BY <4>2, <6>1, <7>1
          <6> QED BY <6>2, <6>3, <6>4
        <5> QED BY <1>2, <2>6, <4>4, <5>1, <5>2, <5>3 DEF Busy
      <4> QED BY <4>3, <4>4
    <3> QED BY <2>3, <3>1, <3>2
  <2>10. Sole'
    BY <1>2 DEF IInv, Sole, Single, Up, Running
  <2>11. Enough'
    <3>1. Started \subseteq Started' /\ Born' = Born
      BY <1>2, <1>4 DEF Started, Born, Moves
    <3> QED BY <3>1, EnoughKept DEF IInv
  <2> QED BY <2>5, <2>6, <2>7, <2>8, <2>9, <2>10, <2>11 DEF IInv
<1> QED BY <1>1, <1>5, <1>6 DEF Ctl
----------------------------------------------------------------------------
(* Steps of a daemon                                                       *)

\* The others are not touched by what d does with its own request.
Alone(d) ==
    \A e \in Proc \ {d} :
        /\ dpc'[e] = dpc[e] /\ (Busy(e) => Asks(e)' = Asks(e))
        /\ mounts'[e] = mounts[e] /\ mb'[e] = mb[e] /\ notifiers'[e] = notifiers[e]
        /\ flag'[e] = flag[e]
        /\ \A m \in Mountpoint : session'[m] = e <=> session[m] = e

\* So the others keep what they are to keep.
LEMMA AloneKeeps ==
    ASSUME IInv, NEW d \in Proc, Alone(d), NEW e \in Proc \ {d}
    PROVE  /\ \A m \in Mountpoint :
                session'[m] = e => /\ dpc'[e] # "dead" /\ mb'[e][m] # NoOne
                                   /\ m \in mounts'[e] \/ (dpc'[e] = "notifying" /\ Asks(e)'.mp = m)
           /\ Serving!2!(e)'
           /\ ~Eager => Notified!(e)'
<1>1. e \in Proc
  OBVIOUS
<1>2. Busy(e) => Asks(e).mp \in Mountpoint
  BY MountIsNew
<1>3. Serving!2!(e)'
  BY <1>2 DEF IInv, Serving, Alone, Busy, Shape
<1>4. ~Eager => Notified!(e)'
  BY <1>2 DEF IInv, Notified, Alone, Busy
<1>5. ASSUME NEW m \in Mountpoint, session'[m] = e
      PROVE  /\ dpc'[e] # "dead" /\ mb'[e][m] # NoOne
             /\ m \in mounts'[e] \/ (dpc'[e] = "notifying" /\ Asks(e)'.mp = m)
  BY <1>1, <1>5 DEF IInv, Serving, Alone, Busy
<1> QED BY <1>3, <1>4, <1>5

\* d answers its command.
LEMMA Answers ==
    ASSUME IInv, NEW d \in Proc, Busy(d), Moves(cur[d], "answered"), To(d, "closing"),
           UNCHANGED <<socket, cur, backlog, raced>>
    PROVE  /\ Connected' /\ Enough' /\ Sole'
           /\ dpc' \in [Proc -> DaemonPc] /\ dpc'[d] = "closing"
           /\ \A e \in Proc \ {d} : dpc'[e] = dpc[e] /\ (Busy(e) => Asks(e)' = Asks(e))
           /\ \A o \in Client : Mounting(o)' => Mounting(o) /\ cl'[o].mp = cl[o].mp
<1>1. dpc' \in [Proc -> DaemonPc] /\ dpc'[d] = "closing" /\ \A e \in Proc \ {d} : dpc'[e] = dpc[e]
  BY DEF IInv, Shape, DaemonPc, To
<1>2. /\ cur[d] \in Client /\ At(cur[d], "waiting")
      /\ \A e \in Proc \ {d} : Busy(e) => cur[e] \in Client /\ cur[e] # cur[d]
      /\ \A e \in Proc : Waiting(e)' = Waiting(e) /\ cur[d] \notin Waiting(e)
  BY DEF IInv, Connected, Waiting
<1>3. \A e \in Proc \ {d} : (Busy(e)' <=> Busy(e)) /\ (Busy(e) => Asks(e)' = Asks(e))
  BY <1>1, <1>2 DEF Busy, Asks, Moves
<1>4. Connected'
  <2> SUFFICES ASSUME NEW e \in Proc PROVE Connected!(e)'
    BY DEF Connected
  <2>1. \A o \in Waiting(e)' : At(o, "waiting")'
    BY <1>2 DEF IInv, Connected, At, Shape, Waiting, Moves
  <2>2. ~Busy(d)'
    BY <1>1 DEF Busy
  <2>3. \A o \in Waiting(e)' : \A a \in Proc :
            (a # e => o \notin Waiting(a)') /\ (Busy(a)' => cur'[a] # o)
    BY <1>2, <1>3, <2>2 DEF IInv, Connected
  <2>4. Busy(e)' => /\ cur'[e] \in Client /\ At(cur[e], "waiting")'
                    /\ \A a \in Proc \ {e} : Busy(a)' => cur'[a] # cur'[e]
    BY <1>2, <1>3, <2>2 DEF IInv, Connected, At, Asks
  <2>5. dpc'[e] = "closing" =>
            cur'[e] \in Client /\ Asks(e)'.pc \in {"answered", "ctl", "done", "failed"}
    BY <1>1, <1>2 DEF IInv, Connected, Asks, Moves
  <2> QED BY <2>1, <2>3, <2>4, <2>5 DEF Connected, IInv
<1>5. \A o \in Client : Mounting(o)' => Mounting(o) /\ cl'[o].mp = cl[o].mp
  BY <1>1, <1>2 DEF Mounting, Moves
<1>6. Enough'
  <2>1. Started \subseteq Started' /\ Born' = Born
    BY <1>1, <1>2 DEF Started, Born, Moves, Busy, To
  <2> QED BY <2>1, EnoughKept DEF IInv
<1>7. Sole'
  BY <1>1 DEF IInv, Sole, Single, Up, Running, Busy
<1> QED BY <1>1, <1>3, <1>4, <1>5, <1>6, <1>7

\* d goes on with its request.
LEMMA GoesOn ==
    ASSUME IInv, NEW d \in Proc, Busy(d), NEW pc \in {"spawning", "notifying", "unregistering"},
           To(d, pc), UNCHANGED <<cl, socket, cur, backlog, raced>>
    PROVE  /\ Connected' /\ Enough' /\ Sole'
           /\ dpc' \in [Proc -> DaemonPc] /\ dpc'[d] = pc
           /\ \A e \in Proc \ {d} : dpc'[e] = dpc[e]
           /\ \A e \in Proc : Asks(e)' = Asks(e)
<1>1. dpc' \in [Proc -> DaemonPc] /\ dpc'[d] = pc /\ \A e \in Proc \ {d} : dpc'[e] = dpc[e]
  BY DEF IInv, Shape, DaemonPc, To
<1>2. \A e \in Proc : Asks(e)' = Asks(e) /\ (Busy(e)' <=> Busy(e)) /\ Waiting(e)' = Waiting(e)
  BY <1>1 DEF Asks, Busy, Waiting
<1>3. Connected'
  BY <1>1, <1>2 DEF IInv, Connected, At
<1>4. Enough'
  <2>1. Started = Started' /\ Born' = Born
    BY <1>1 DEF Started, Born, Busy, To
  <2> QED BY <2>1 DEF IInv, Enough
<1>5. Sole'
  BY <1>1 DEF IInv, Sole, Single, Up, Running, Busy
<1> QED BY <1>1, <1>2, <1>3, <1>4, <1>5

\* The shapes of what a daemon holds.
Held ==
    /\ mounts \in [Proc -> SUBSET Mountpoint]
    /\ mb \in [Proc -> [Mountpoint -> Branch \union {NoOne}]]
    /\ notifiers \in [Proc -> SUBSET (Branch \X Mountpoint)]
    /\ session \in [Mountpoint -> Proc \union {NoOne}]
    /\ flag \in [Proc -> BOOLEAN]

\* Between two requests d serves what it holds as mounted, with branch and
\* notifier.
Settled(d) ==
    /\ \A m \in Mountpoint : session[m] = d <=> m \in mounts[d]
    /\ \A m \in mounts[d] : mb[d][m] # NoOne
    /\ flag[d] => mounts[d] = {}
    /\ ~Eager =>
          /\ \A m \in mounts[d] : <<mb[d][m], m>> \in notifiers[d]
          /\ \A k \in notifiers[d] : k[1] = mb[d][k[2]] /\ k[2] \in mounts[d]

\* A daemon that serves a request has settled the requests before it and is not
\* shutting down.
LEMMA ServingSettled ==
    ASSUME IInv, NEW d \in Proc, dpc[d] \in {"serving", "spawning"}
    PROVE  Settled(d) /\ ~flag[d]
<1>1. \A m \in mounts[d] : m \in Mountpoint
  BY DEF IInv, Shape
<1> QED BY <1>1 DEF IInv, Serving, Notified, Settled

\* A request ends with d settled, and sessions only go.
LEMMA AnswerInv ==
    ASSUME IInv, NEW d \in Proc, Busy(d), Moves(cur[d], "answered"), To(d, "closing"),
           UNCHANGED <<socket, cur, backlog, crashes, raced>>,
           Held', alive' \subseteq Branch, Main \in alive',
           \A e \in Proc \ {d} : /\ mounts'[e] = mounts[e] /\ mb'[e] = mb[e]
                                 /\ notifiers'[e] = notifiers[e] /\ flag'[e] = flag[e],
           \A m \in Mountpoint : session'[m] # session[m] => session[m] = d /\ session'[m] = NoOne,
           Settled(d)'
    PROVE  IInv'
<1>1. cur[d] \in Client /\ cl[cur[d]].mp \in Mountpoint
  BY MountIsNew DEF Asks
<1>2. /\ Connected' /\ Enough' /\ Sole'
      /\ dpc' \in [Proc -> DaemonPc] /\ dpc'[d] = "closing"
      /\ \A e \in Proc \ {d} : dpc'[e] = dpc[e] /\ (Busy(e) => Asks(e)' = Asks(e))
      /\ \A o \in Client : Mounting(o)' => Mounting(o) /\ cl'[o].mp = cl[o].mp
  BY Answers
<1>3. Shape'
  <2>1. \A c \in Client :
            /\ At(c, "idle")' \/ cl'[c].mp \in Mountpoint
            /\ At(c, "ctl")' => cl'[c].cmd = "create" \/ (cl'[c].cmd = "finish" /\ cl'[c].br # Main)
    BY <1>1, ZenonT(40) DEF IInv, Shape, Moves, At
  <2> QED BY <1>2, <2>1 DEF IInv, Shape, Moves, Held
<1>4. \A m \in Mountpoint : session'[m] \in {session[m], NoOne}
  OBVIOUS
<1>5. Free'
  <2>1. \A c \in Client : Mounting(c) => cl[c].mp \in Mountpoint
    BY DEF IInv, Shape, Mounting, At
  <2> QED BY <1>2, <1>4, <2>1 DEF IInv, Free
<1>6. \A e \in Proc : e # NoOne
  BY NameAssumption
<1>7. Alone(d)
  <2>1. \A e \in Proc \ {d} : \A m \in Mountpoint : session'[m] = e <=> session[m] = e
    BY <1>6
  <2> QED BY <1>2, <2>1 DEF Alone
<1>8. Serving'
  <2>1. \A m \in Mountpoint : session'[m] = d =>
            dpc'[d] # "dead" /\ mb'[d][m] # NoOne /\ m \in mounts'[d]
    BY <1>2 DEF Settled
  <2>2. Serving!2!(d)'
    BY <1>2 DEF Settled, Held
  <2> QED BY <1>7, <2>1, <2>2, AloneKeeps DEF Serving
<1>9. ~Eager => Notified'
  <2>1. ~Eager => Notified!(d)'
    BY <1>2 DEF Settled
  <2> QED BY <1>7, <2>1, AloneKeeps DEF Notified
<1> QED BY <1>2, <1>3, <1>5, <1>8, <1>9 DEF IInv

\* A request that changes nothing but the branch table is answered.
LEMMA PlainAnswerInv ==
    ASSUME IInv, NEW d \in Proc, dpc[d] = "serving", Moves(cur[d], "answered"), To(d, "closing"),
           UNCHANGED <<socket, cur, backlog, flag, mounts, mb, notifiers, session, crashes, raced>>,
           alive' \subseteq Branch, Main \in alive'
    PROVE  IInv'
<1>1. Busy(d) /\ Settled(d)
  BY ServingSettled DEF Busy
<1>2. Held' /\ Settled(d)'
  BY <1>1 DEF IInv, Shape, Held, Settled
<1> QED BY <1>1, <1>2, AnswerInv

\* Create, commit-branch, abort-branch and the query of a mount's branch.
LEMMA ManagerCallInv == ASSUME IInv, NEW d \in Proc, ManagerCall(d) PROVE IInv'
<1>1. /\ dpc[d] = "serving" /\ To(d, "closing")
      /\ UNCHANGED <<socket, cur, backlog, flag, mounts, mb, notifiers, session, crashes, raced>>
  BY DEF ManagerCall
<1>2. cur[d] \in Client /\ Asks(d) \in ClientRec /\ Asks(d).mp \in Mountpoint
  BY <1>1, MountIsNew DEF Busy
<1>3. alive' \subseteq Branch /\ Main \in alive'
  <2>1. Asks(d).br \in Branch
    BY <1>2 DEF ClientRec
  <2> QED BY <2>1 DEF ManagerCall, IInv, Shape, Asks
<1>4. Moves(cur[d], "answered")
  <2>1. PICK ok \in BOOLEAN, br \in Branch :
            cl' = [cl EXCEPT ![cur[d]].pc = "answered", ![cur[d]].ok = ok, ![cur[d]].br = br]
    <3>1. Asks(d).br \in Branch /\ mb[d][Asks(d).mp] \in Branch \union {NoOne}
      BY <1>2 DEF ClientRec, IInv, Shape
    <3>2. cl \in [Client -> ClientRec]
      BY DEF IInv, Shape
    <3> DEFINE k == CASE cl[cur[d]].cmd = "create" -> cl[cur[d]].br \notin alive
                      [] cl[cur[d]].cmd = "drop"   -> cl[cur[d]].br \in alive \ {Main}
                      [] OTHER                     -> mb[d][cl[cur[d]].mp] # NoOne
               r == IF k /\ cl[cur[d]].cmd = "finish" THEN mb[d][cl[cur[d]].mp] ELSE cl[cur[d]].br
    <3>3. k \in BOOLEAN
      <4>1. CASE cl[cur[d]].cmd = "create"
        BY <4>1
      <4>2. CASE cl[cur[d]].cmd = "drop"
        BY <4>2
      <4>3. CASE cl[cur[d]].cmd \notin {"create", "drop"}
        BY <4>3
      <4> QED BY <4>1, <4>2, <4>3
    <3>4. r \in Branch
      <4>1. Asks(d).cmd = "finish" => (k <=> mb[d][Asks(d).mp] # NoOne)
        BY DEF Asks
      <4> HIDE DEF k
      <4> QED BY <3>1, <4>1 DEF Asks
    <3>5. cl' = [cl EXCEPT ![cur[d]].pc = "answered", ![cur[d]].ok = k, ![cur[d]].br = r]
      BY DEF ManagerCall
    <3> HIDE DEF k, r
    <3> QED BY <3>3, <3>4, <3>5 DEF Asks
  <2>2. cl \in [Client -> ClientRec]
    BY DEF IInv, Shape
  <2> QED BY <1>2, <2>1, <2>2 DEF Moves, ClientRec, ClientPc, Asks
<1> QED BY <1>1, <1>3, <1>4, PlainAnswerInv

\* spawn_mount sets the branch of a mountpoint that nobody serves.
LEMMA MountRegisterInv == ASSUME IInv, NEW d \in Proc, MountRegister(d) PROVE IInv'
<1>0. Busy(d) /\ dpc[d] = "serving" /\ Asks(d).cmd = "mount"
         /\ UNCHANGED <<socket, cur, backlog, flag, mounts, notifiers, session, alive, crashes, raced>>
  BY DEF MountRegister, Asked, Busy, Asks
<1>1. PICK m \in Mountpoint, b \in Branch : m = Asks(d).mp /\ b = Asks(d).br
  BY <1>0, MountIsNew DEF ClientRec
<1>2. cur[d] \in Client /\ session[m] = NoOne /\ \A e \in Proc : m \notin mounts[e]
  BY <1>0, <1>1, MountIsNew
<1>3. CASE b \notin alive
  <2>1. Respond(d, FALSE) /\ UNCHANGED mb
    BY <1>1, <1>3 DEF MountRegister, Asks
  <2>2. Moves(cur[d], "answered") /\ To(d, "closing")
    BY <1>2, <2>1, RespondMoves DEF IInv, Respond
  <2> QED BY <1>0, <2>1, <2>2, PlainAnswerInv DEF IInv, Shape
<1>4. CASE b \in alive
  <2>1. mb' = [mb EXCEPT ![d][m] = b] /\ To(d, "spawning") /\ UNCHANGED cl
    BY <1>1, <1>4 DEF MountRegister, Asks
  <2>2. /\ Connected' /\ Enough' /\ Sole'
        /\ dpc' \in [Proc -> DaemonPc] /\ dpc'[d] = "spawning"
        /\ \A e \in Proc \ {d} : dpc'[e] = dpc[e]
        /\ \A e \in Proc : Asks(e)' = Asks(e)
    BY <1>0, <2>1, GoesOn
  <2>3. /\ mb' \in [Proc -> [Mountpoint -> Branch \union {NoOne}]]
        /\ mb'[d][m] = b /\ b # NoOne
        /\ \A n \in Mountpoint \ {m} : mb'[d][n] = mb[d][n]
        /\ \A e \in Proc \ {d} : mb'[e] = mb[e]
    BY <2>1, NameAssumption DEF IInv, Shape
  <2>4. Shape'
    BY <1>0, <2>1, <2>2, <2>3 DEF IInv, Shape, At
  <2>5. Free'
    <3>1. \A o \in Client : Mounting(o)' => Mounting(o)
      BY <1>0, <2>1, <2>2 DEF Mounting
    <3> QED BY <1>0, <2>1, <3>1 DEF IInv, Free
  <2>6. Settled(d)
    BY <1>0, ServingSettled
  <2>7. Alone(d)
    BY <1>0, <2>2, <2>3 DEF Alone
  <2>8. Serving'
    <3>1. \A n \in Mountpoint : session'[n] = d =>
              dpc'[d] # "dead" /\ mb'[d][n] # NoOne /\ n \in mounts'[d]
      BY <1>0, <1>2, <2>2, <2>3, <2>6 DEF Settled
    <3>2. Serving!2!(d)'
      BY <1>0, <1>1, <2>2, <2>3, ServingSettled DEF IInv, Serving
    <3> QED BY <2>7, <3>1, <3>2, AloneKeeps DEF Serving
  <2>9. ~Eager => Notified'
    <3>1. ~Eager => Notified!(d)'
      <4>1. \A n \in mounts[d] : n \in Mountpoint \ {m}
        BY <1>2 DEF IInv, Shape
      <4> QED BY <1>0, <1>1, <2>2, <2>3, <2>6, <4>1 DEF Settled
    <3> QED BY <2>7, <3>1, AloneKeeps DEF Notified
  <2> QED BY <2>2, <2>4, <2>5, <2>8, <2>9 DEF IInv
<1> QED BY <1>3, <1>4
\* The session serves the mountpoint, or fails and leaves no trace.
LEMMA MountSpawnInv == ASSUME IInv, NEW d \in Proc, MountSpawn(d) PROVE IInv'
<1>0. Busy(d) /\ dpc[d] = "spawning" /\ Settled(d) /\ ~flag[d] /\ Asks(d).cmd = "mount"
         /\ UNCHANGED <<socket, cur, backlog, flag, mounts, alive, crashes, raced>>
  BY ServingSettled DEF MountSpawn, Busy, IInv, Serving
<1>1. PICK m \in Mountpoint : m = Asks(d).mp
  BY <1>0, MountIsNew
<1>2. /\ cur[d] \in Client /\ session[m] = NoOne /\ \A e \in Proc : m \notin mounts[e]
      /\ Mounting(cur[d])
  BY <1>0, <1>1, MountIsNew
<1>3. CASE Unregistered(d, m) /\ Respond(d, FALSE) /\ UNCHANGED session
  <2>1. Moves(cur[d], "answered") /\ To(d, "closing")
    BY <1>2, <1>3, RespondMoves DEF IInv, Respond
  <2>2. /\ mb' = [mb EXCEPT ![d][m] = NoOne]
        /\ notifiers' = [notifiers EXCEPT ![d] = @ \ {<<mb[d][m], m>>}]
        /\ mb \in [Proc -> [Mountpoint -> Branch \union {NoOne}]]
        /\ notifiers \in [Proc -> SUBSET (Branch \X Mountpoint)]
    BY <1>3 DEF Unregistered, IInv, Shape
  <2>3. Held'
    BY <1>0, <1>3, <2>2 DEF IInv, Shape, Held
  <2>4. /\ \A n \in Mountpoint \ {m} : mb'[d][n] = mb[d][n]
        /\ notifiers'[d] = notifiers[d] \ {<<mb[d][m], m>>}
        /\ \A e \in Proc \ {d} : mb'[e] = mb[e] /\ notifiers'[e] = notifiers[e]
    BY <2>2
  <2>5. Settled(d)'
    <3>1. \A n \in mounts[d] : n \in Mountpoint \ {m}
      BY <1>2 DEF IInv, Shape
    <3> QED BY <1>0, <1>3, <2>4, <3>1 DEF Settled
  <2> QED BY <1>0, <1>3, <2>1, <2>3, <2>4, <2>5, AnswerInv DEF IInv, Shape
<1>4. CASE session' = [session EXCEPT ![m] = d] /\ To(d, "notifying") /\ UNCHANGED <<cl, mb, notifiers>>
  <2>1. /\ Connected' /\ Enough' /\ Sole'
        /\ dpc' \in [Proc -> DaemonPc] /\ dpc'[d] = "notifying"
        /\ \A e \in Proc \ {d} : dpc'[e] = dpc[e]
        /\ \A e \in Proc : Asks(e)' = Asks(e)
    BY <1>0, <1>4, GoesOn
  <2>2. /\ session' \in [Mountpoint -> Proc \union {NoOne}] /\ session'[m] = d
        /\ \A n \in Mountpoint \ {m} : session'[n] = session[n]
    BY <1>4 DEF IInv, Shape
  <2>3. Shape'
    BY <1>0, <1>4, <2>1, <2>2 DEF IInv, Shape, At
  <2>4. Free'
    <3>1. \A o \in Client : Mounting(o)' => Mounting(o) /\ o # cur[d]
      BY <1>0, <1>2, <1>4, <2>1 DEF Mounting
    <3>2. \A o \in Client : Mounting(o)' => cl[o].mp # m
      BY <1>1, <1>2, <3>1 DEF IInv, Free, Asks
    <3>3. \A o \in Client : Mounting(o) => cl[o].mp \in Mountpoint
      BY DEF IInv, Shape, Mounting, At
    <3> QED BY <1>4, <2>2, <3>1, <3>2, <3>3 DEF IInv, Free
  <2>5. Alone(d)
    <3>1. \A e \in Proc : e # NoOne
      BY NameAssumption
    <3> QED BY <1>0, <1>2, <1>4, <2>1, <2>2, <3>1 DEF Alone
  <2>6. mb[d][m] # NoOne /\ (~Eager => mb[d][m] = Asks(d).br)
    BY <1>0, <1>1 DEF IInv, Serving, Notified
  <2>7. Serving'
    <3>1. \A n \in Mountpoint : session'[n] = d =>
              /\ dpc'[d] # "dead" /\ mb'[d][n] # NoOne
              /\ n \in mounts'[d] \/ (dpc'[d] = "notifying" /\ Asks(d)'.mp = n)
      BY <1>0, <1>1, <1>4, <2>1, <2>2, <2>6 DEF Settled
    <3>2. \A n \in mounts'[d] : session'[n] = d
      <4>1. \A n \in mounts[d] : n \in Mountpoint \ {m}
        BY <1>2 DEF IInv, Shape
      <4> QED BY <1>0, <2>2, <4>1 DEF Settled
    <3>3. Serving!2!(d)'
      BY <1>0, <1>1, <1>2, <2>1, <2>2, <3>2
    <3> QED BY <2>5, <3>1, <3>3, AloneKeeps DEF Serving
  <2>8. ~Eager => Notified'
    <3>1. ~Eager => Notified!(d)'
      BY <1>0, <1>1, <1>4, <2>1, <2>6 DEF Settled
    <3> QED BY <2>5, <3>1, AloneKeeps DEF Notified
  <2> QED BY <2>1, <2>3, <2>4, <2>7, <2>8 DEF IInv
<1> QED BY <1>1, <1>3, <1>4 DEF MountSpawn, Asks

\* The notifier is registered under the branch that was set.
LEMMA MountInsertInv == ASSUME IInv, NEW d \in Proc, MountInsert(d) PROVE IInv'
<1>0. Busy(d) /\ dpc[d] = "notifying"
         /\ UNCHANGED <<socket, cur, backlog, flag, mb, session, alive, crashes, raced>>
         /\ Respond(d, TRUE)
  BY DEF MountInsert, Busy
<1>1. PICK m \in Mountpoint, b \in Branch : m = Asks(d).mp /\ b = Asks(d).br
  BY <1>0, MountIsNew DEF ClientRec
<1>2. Moves(cur[d], "answered") /\ To(d, "closing")
  BY <1>0, MountIsNew, RespondMoves DEF IInv, Respond
<1>3. /\ notifiers' = [notifiers EXCEPT ![d] = @ \union {<<b, m>>}]
      /\ mounts' = [mounts EXCEPT ![d] = @ \union {m}]
      /\ notifiers \in [Proc -> SUBSET (Branch \X Mountpoint)]
      /\ mounts \in [Proc -> SUBSET Mountpoint]
  BY <1>1 DEF MountInsert, Asks, IInv, Shape
<1>4. Held'
  <2>1. /\ notifiers' \in [Proc -> SUBSET (Branch \X Mountpoint)]
        /\ mounts' \in [Proc -> SUBSET Mountpoint]
    BY <1>3
  <2> QED BY <1>0, <2>1 DEF IInv, Shape, Held
<1>5. /\ notifiers'[d] = notifiers[d] \union {<<b, m>>} /\ mounts'[d] = mounts[d] \union {m}
      /\ \A e \in Proc \ {d} : notifiers'[e] = notifiers[e] /\ mounts'[e] = mounts[e]
  BY <1>3
<1>6. session[m] = d /\ m \notin mounts[d] /\ mb[d][m] # NoOne /\ ~flag[d]
         /\ (~Eager => mb[d][m] = b)
  BY <1>0, <1>1 DEF IInv, Serving, Notified
<1>7. Settled(d)'
  <2>1. \A n \in mounts[d] : n \in Mountpoint /\ session[n] = d /\ mb[d][n] # NoOne
    BY DEF IInv, Shape, Serving
  <2>2. \A n \in Mountpoint : session[n] = d => n \in mounts[d] \/ n = m
    BY <1>1 DEF IInv, Serving
  <2>3. ~Eager =>
            /\ \A n \in mounts[d] : <<mb[d][n], n>> \in notifiers[d]
            /\ \A k \in notifiers[d] : k[1] = mb[d][k[2]] /\ k[2] \in mounts[d]
    BY <1>0 DEF IInv, Notified
  <2> QED BY <1>0, <1>5, <1>6, <2>1, <2>2, <2>3 DEF Settled
<1> QED BY <1>0, <1>2, <1>4, <1>5, <1>7, AnswerInv DEF IInv, Shape

\* unmount ends the session first ...
LEMMA UnmountSessionInv == ASSUME IInv, NEW d \in Proc, UnmountSession(d) PROVE IInv'
<1>0. Busy(d) /\ dpc[d] = "serving" /\ Settled(d) /\ ~flag[d] /\ Asks(d).cmd = "unmount"
         /\ UNCHANGED <<socket, cur, backlog, flag, mb, notifiers, alive, crashes, raced>>
  BY ServingSettled DEF UnmountSession, Asked, Busy, Asks
<1>1. PICK m \in Mountpoint : m = Asks(d).mp
  BY <1>0, MountIsNew
<1>2. CASE m \notin mounts[d]
  <2>1. Respond(d, FALSE) /\ UNCHANGED <<mounts, session>>
    BY <1>1, <1>2 DEF UnmountSession, Asks
  <2>2. Moves(cur[d], "answered") /\ To(d, "closing")
    BY <1>0, <2>1, MountIsNew, RespondMoves DEF IInv, Respond
  <2> QED BY <1>0, <2>1, <2>2, PlainAnswerInv DEF IInv, Shape
<1>3. CASE m \in mounts[d]
  <2>1. /\ mounts' = [mounts EXCEPT ![d] = @ \ {m}]
        /\ session' = [n \in Mountpoint |-> IF n \in {m} THEN NoOne ELSE session[n]]
        /\ To(d, "unregistering") /\ UNCHANGED cl
    BY <1>1, <1>3 DEF UnmountSession, DropSessions, Asks
  <2>2. /\ Connected' /\ Enough' /\ Sole'
        /\ dpc' \in [Proc -> DaemonPc] /\ dpc'[d] = "unregistering"
        /\ \A e \in Proc \ {d} : dpc'[e] = dpc[e]
        /\ \A e \in Proc : Asks(e)' = Asks(e)
    BY <1>0, <2>1, GoesOn
  <2>3. /\ session' \in [Mountpoint -> Proc \union {NoOne}] /\ session'[m] = NoOne
        /\ \A n \in Mountpoint \ {m} : session'[n] = session[n]
        /\ mounts' \in [Proc -> SUBSET Mountpoint] /\ mounts'[d] = mounts[d] \ {m}
        /\ \A e \in Proc \ {d} : mounts'[e] = mounts[e]
    BY <2>1 DEF IInv, Shape
  <2>4. session[m] = d /\ \A e \in Proc : e # NoOne
    BY <1>0, <1>3, NameAssumption DEF Settled
  <2>5. Shape'
    BY <1>0, <2>1, <2>2, <2>3 DEF IInv, Shape, At
  <2>6. Free'
    <3>1. \A o \in Client : Mounting(o)' => Mounting(o) /\ cl[o].mp \in Mountpoint
      BY <1>0, <2>1, <2>2 DEF Mounting, IInv, Shape, At
    <3> QED BY <2>1, <2>3, <3>1 DEF IInv, Free
  <2>7. Alone(d)
    BY <1>0, <2>2, <2>3, <2>4 DEF Alone
  <2>8. Serving'
    <3>1. \A n \in Mountpoint : session'[n] = d =>
              dpc'[d] # "dead" /\ mb'[d][n] # NoOne /\ n \in mounts'[d]
      BY <1>0, <2>2, <2>3, <2>4 DEF Settled
    <3>2. Serving!2!(d)'
      <4>1. \A n \in mounts[d] : n \in Mountpoint
        BY DEF IInv, Shape
      <4> QED BY <1>0, <1>1, <2>2, <2>3, <4>1 DEF Settled
    <3> QED BY <2>7, <3>1, <3>2, AloneKeeps DEF Serving
  <2>9. ~Eager => Notified'
    <3>1. ~Eager => Notified!(d)'
      BY <1>0, <1>1, <2>2, <2>3 DEF Settled
    <3> QED BY <2>7, <3>1, AloneKeeps DEF Notified
  <2> QED BY <2>2, <2>5, <2>6, <2>8, <2>9 DEF IInv
<1> QED BY <1>2, <1>3
\* ... then its entry and its notifier go.
LEMMA UnmountRegisterInv == ASSUME IInv, NEW d \in Proc, UnmountRegister(d) PROVE IInv'
<1>0. Busy(d) /\ dpc[d] = "unregistering" /\ Respond(d, TRUE)
         /\ UNCHANGED <<socket, cur, backlog, mounts, session, alive, crashes, raced>>
  BY DEF UnmountRegister, Busy
<1>1. PICK m \in Mountpoint : m = Asks(d).mp
  BY <1>0, MountIsNew
<1>2. Moves(cur[d], "answered") /\ To(d, "closing")
  BY <1>0, MountIsNew, RespondMoves DEF IInv, Respond
<1>3. /\ mb' = [mb EXCEPT ![d][m] = NoOne]
      /\ notifiers' = [notifiers EXCEPT ![d] = @ \ {<<mb[d][m], m>>}]
      /\ flag' = [flag EXCEPT ![d] = @ \/ mounts[d] = {}]
      /\ mb \in [Proc -> [Mountpoint -> Branch \union {NoOne}]]
      /\ notifiers \in [Proc -> SUBSET (Branch \X Mountpoint)]
      /\ flag \in [Proc -> BOOLEAN]
  BY <1>1 DEF UnmountRegister, Unregistered, Asks, IInv, Shape
<1>4. Held'
  BY <1>0, <1>3 DEF IInv, Shape, Held
<1>5. /\ \A n \in Mountpoint \ {m} : mb'[d][n] = mb[d][n]
      /\ notifiers'[d] = notifiers[d] \ {<<mb[d][m], m>>}
      /\ flag'[d] = (flag[d] \/ mounts[d] = {})
      /\ \A e \in Proc \ {d} : mb'[e] = mb[e] /\ notifiers'[e] = notifiers[e] /\ flag'[e] = flag[e]
  BY <1>3
<1>6. Settled(d)'
  <2>1. \A n \in mounts[d] : n \in Mountpoint \ {m} /\ session[n] = d /\ mb[d][n] # NoOne
    BY <1>0, <1>1 DEF IInv, Shape, Serving
  <2>2. \A n \in Mountpoint : session[n] = d => n \in mounts[d]
    BY <1>0 DEF IInv, Serving
  <2>3. ~flag[d]
    BY <1>0 DEF IInv, Serving
  <2>4. ~Eager =>
            /\ \A n \in mounts[d] : <<mb[d][n], n>> \in notifiers[d]
            /\ \A k \in notifiers[d] : k[1] = mb[d][k[2]] /\ (k[2] \in mounts[d] \/ k[2] = m)
    BY <1>0, <1>1 DEF IInv, Notified
  <2>5. \A k \in notifiers[d] : k = <<k[1], k[2]>>
    BY <1>3
  <2>6. ~Eager =>
            /\ \A n \in mounts'[d] : <<mb'[d][n], n>> \in notifiers'[d]
            /\ \A k \in notifiers'[d] : k[1] = mb'[d][k[2]] /\ k[2] \in mounts'[d]
    BY <1>0, <1>5, <2>1, <2>4, <2>5
  <2>7. /\ \A n \in Mountpoint : session'[n] = d <=> n \in mounts'[d]
        /\ \A n \in mounts'[d] : mb'[d][n] # NoOne
        /\ flag'[d] => mounts'[d] = {}
    BY <1>0, <1>5, <2>1, <2>2, <2>3
  <2> QED BY <2>6, <2>7 DEF Settled
<1> QED BY <1>0, <1>2, <1>4, <1>5, <1>6, AnswerInv DEF IInv, Shape

\* cleanup_all_mounts leaves neither session, entry nor notifier.
LEMMA ShutdownInv == ASSUME IInv, NEW d \in Proc, Shutdown(d) PROVE IInv'
<1>0. Busy(d) /\ dpc[d] = "serving" /\ Settled(d) /\ Respond(d, TRUE)
         /\ UNCHANGED <<socket, cur, backlog, alive, crashes, raced>>
  BY ServingSettled DEF Shutdown, Asked, Busy
<1>1. Moves(cur[d], "answered") /\ To(d, "closing")
  BY <1>0, MountIsNew, RespondMoves DEF IInv, Respond
<1>2. /\ flag' = [flag EXCEPT ![d] = TRUE]
      /\ session' = [m \in Mountpoint |-> IF m \in mounts[d] THEN NoOne ELSE session[m]]
      /\ mb' = [mb EXCEPT ![d] = [m \in Mountpoint |-> IF m \in mounts[d] THEN NoOne ELSE @[m]]]
      /\ notifiers' = [notifiers EXCEPT ![d] = @ \ {<<mb[d][m], m>> : m \in mounts[d]}]
      /\ mounts' = [mounts EXCEPT ![d] = {}]
  BY DEF Shutdown, DropSessions
<1>3. Held'
  BY <1>2 DEF IInv, Shape, Held
<1>4. /\ mounts'[d] = {} /\ notifiers'[d] = notifiers[d] \ {<<mb[d][m], m>> : m \in mounts[d]}
      /\ \A e \in Proc \ {d} : /\ mounts'[e] = mounts[e] /\ mb'[e] = mb[e]
                               /\ notifiers'[e] = notifiers[e] /\ flag'[e] = flag[e]
  BY <1>2 DEF IInv, Shape
<1>5. \A m \in Mountpoint : session'[m] # d /\
          (session'[m] # session[m] => session[m] = d /\ session'[m] = NoOne)
  <2>1. d # NoOne
    BY NameAssumption
  <2> QED BY <1>0, <1>2, <2>1 DEF Settled
<1>6. ~Eager => notifiers'[d] = {}
  <2>1. \A k \in notifiers[d] : k = <<k[1], k[2]>>
    BY DEF IInv, Shape
  <2> QED BY <1>0, <1>4, <2>1 DEF Settled
<1>7. Settled(d)'
  BY <1>4, <1>5, <1>6 DEF Settled
<1> QED BY <1>0, <1>1, <1>3, <1>4, <1>5, <1>7, AnswerInv DEF IInv, Shape

\* A daemon that is not at work, before and after, and holds what it held.
LEMMA RestInv ==
    ASSUME IInv, NEW d \in Proc, NEW pc \in {"listening", "serving"},
           To(d, pc), dpc[d] \in {"starting", "listening", "closing"},
           pc = "serving" => ~flag[d], pc = "listening" => cur'[d] = NoOne,
           UNCHANGED <<cl, flag, mounts, mb, notifiers, session, alive, crashes, raced>>,
           \A e \in Proc \ {d} : cur'[e] = cur[e],
           Connected', cur' \in [Proc -> Client \union {NoOne}],
           backlog' \in [Proc -> Seq(Client)], socket' \in Proc \union {NoOne},
           Sole'
    PROVE  IInv'
<1>1. dpc' \in [Proc -> DaemonPc] /\ dpc'[d] = pc /\ \A e \in Proc \ {d} : dpc'[e] = dpc[e]
  BY DEF IInv, Shape, To, DaemonPc
<1>2. Shape'
  <2>1. \A e \in Proc : dpc'[e] \in {"unborn", "starting", "listening"} => cur'[e] = NoOne
    BY <1>1 DEF IInv, Shape
  <2> QED BY <1>1, <2>1 DEF IInv, Shape, At
<1>3. Free'
  <2>1. \A o \in Client : Mounting(o)' => Mounting(o)
    BY <1>1 DEF Mounting
  <2> QED BY <2>1 DEF IInv, Free
<1>4. Alone(d)
  BY <1>1 DEF Alone, Asks
<1>5. Serving'
  <2>1. \A m \in Mountpoint : session'[m] = d =>
            dpc'[d] # "dead" /\ mb'[d][m] # NoOne /\ m \in mounts'[d]
    BY <1>1 DEF IInv, Serving
  <2>2. Serving!2!(d)'
    BY <1>1 DEF IInv, Serving, DaemonPc
  <2>3. \A m \in Mountpoint : \A e \in Proc \ {d} :
            session'[m] = e => /\ dpc'[e] # "dead" /\ mb'[e][m] # NoOne
                               /\ m \in mounts'[e] \/ (dpc'[e] = "notifying" /\ Asks(e)'.mp = m)
    BY <1>4, AloneKeeps
  <2>4. \A e \in Proc : Serving!2!(e)'
    BY <1>4, <2>2, AloneKeeps
  <2> QED BY <2>1, <2>3, <2>4 DEF Serving
<1>6. ~Eager => Notified'
  <2>1. ~Eager => Notified!(d)'
    BY <1>1 DEF IInv, Notified
  <2> QED BY <1>4, <2>1, AloneKeeps DEF Notified
<1>7. Enough'
  <2>1. Born' = Born /\ Started' = Started
    BY <1>1 DEF Born, Started
  <2> QED BY <2>1 DEF IInv, Enough
<1> QED BY <1>2, <1>3, <1>5, <1>6, <1>7 DEF IInv

\* The daemon closes the connection and listens again.
LEMMA HangUpInv == ASSUME IInv, NEW d \in Proc, HangUp(d) PROVE IInv'
<1>0. /\ dpc[d] = "closing" /\ To(d, "listening") /\ cur' = [cur EXCEPT ![d] = NoOne]
      /\ UNCHANGED <<cl, socket, backlog, flag, mounts, mb, notifiers, session, alive, crashes, raced>>
  BY DEF HangUp
<1>1. /\ dpc'[d] = "listening" /\ \A e \in Proc \ {d} : dpc'[e] = dpc[e] /\ cur'[e] = cur[e]
      /\ cur' \in [Proc -> Client \union {NoOne}]
  BY <1>0 DEF To, IInv, Shape
<1>2. /\ \A e \in Proc : Waiting(e)' = Waiting(e)
      /\ \A e \in Proc \ {d} : (Busy(e)' <=> Busy(e)) /\ Asks(e)' = Asks(e)
      /\ ~Busy(d)' /\ dpc'[d] # "closing"
  BY <1>0, <1>1 DEF Waiting, Busy, Asks
<1>3. Connected'
  BY <1>0, <1>1, <1>2 DEF IInv, Connected, At
<1>4. Sole'
  BY <1>0, <1>1 DEF IInv, Sole, Single, Up, Running
<1> QED BY <1>0, <1>1, <1>3, <1>4, RestInv DEF IInv, Shape, DaemonPc

\* A new daemon binds the socket.
LEMMA BindInv == ASSUME IInv, NEW d \in Proc, Bind(d) PROVE IInv'
<1>0. /\ dpc[d] = "starting" /\ To(d, "listening") /\ socket' = d
      /\ UNCHANGED <<cl, cur, backlog, flag, mounts, mb, notifiers, session, alive, crashes, raced>>
  BY DEF Bind, To
<1>1. dpc'[d] = "listening" /\ \A e \in Proc \ {d} : dpc'[e] = dpc[e]
  BY <1>0 DEF To, IInv, Shape
<1>2. /\ \A e \in Proc : /\ Waiting(e)' = Waiting(e) /\ (Busy(e)' <=> Busy(e)) /\ Asks(e)' = Asks(e)
                         /\ dpc'[e] = "closing" <=> dpc[e] = "closing"
  BY <1>0, <1>1 DEF Waiting, Busy, Asks
<1>3. Connected'
  BY <1>0, <1>1, <1>2 DEF IInv, Connected, At
<1>4. Sole'
  BY <1>0, <1>1 DEF IInv, Sole, Single, Up, Running
<1> QED BY <1>0, <1>1, <1>3, <1>4, RestInv DEF IInv, Shape, DaemonPc
\* The first of the backlog is served, and no longer in line.
LEMMA AcceptInv == ASSUME IInv, NEW d \in Proc, Accept(d) PROVE IInv'
<1>0. /\ dpc[d] = "listening" /\ ~flag[d] /\ backlog[d] # <<>> /\ To(d, "serving")
      /\ cur' = [cur EXCEPT ![d] = Head(backlog[d])]
      /\ backlog' = [backlog EXCEPT ![d] = Tail(@)]
      /\ UNCHANGED <<cl, socket, flag, mounts, mb, notifiers, session, alive, crashes, raced>>
  BY DEF Accept, To
<1>1. dpc'[d] = "serving" /\ \A e \in Proc \ {d} : dpc'[e] = dpc[e]
  BY <1>0 DEF To, IInv, Shape
<1>2. PICK c \in Client, s \in Seq(Client) :
          /\ c = Head(backlog[d]) /\ s = Tail(backlog[d])
          /\ c \in Waiting(d) /\ Distinct(s)
          /\ {s[i] : i \in DOMAIN s} = Waiting(d) \ {c}
  <2> DEFINE q == backlog[d]
  <2>1. q \in Seq(Client) /\ q # <<>> /\ Distinct(q)
    BY <1>0 DEF IInv, Shape, Connected
  <2> HIDE DEF q
  <2>2. /\ Head(q) \in Client /\ Tail(q) \in Seq(Client) /\ Head(q) = q[1]
        /\ Len(q) \in Nat \ {0} /\ DOMAIN q = 1..Len(q) /\ DOMAIN Tail(q) = 1..(Len(q) - 1)
        /\ \A i \in 1..(Len(q) - 1) : Tail(q)[i] = q[i + 1]
    BY <2>1
  <2>3. Distinct(Tail(q))
    BY <2>1, <2>2 DEF Distinct
  <2>4. {Tail(q)[i] : i \in DOMAIN Tail(q)} = {q[i] : i \in DOMAIN q} \ {Head(q)}
    <3>1. ASSUME NEW i \in DOMAIN Tail(q)
          PROVE  Tail(q)[i] \in {q[j] : j \in DOMAIN q} \ {Head(q)}
      <4>1. i + 1 \in DOMAIN q /\ i + 1 # 1 /\ 1 \in DOMAIN q /\ Tail(q)[i] = q[i + 1]
        BY <2>2
      <4> QED BY <2>1, <2>2, <4>1 DEF Distinct
    <3>2. ASSUME NEW i \in DOMAIN q, q[i] # Head(q)
          PROVE  q[i] \in {Tail(q)[j] : j \in DOMAIN Tail(q)}
      <4>1. i - 1 \in DOMAIN Tail(q) /\ Tail(q)[i - 1] = q[i]
        BY <2>2, <3>2
      <4> QED BY <4>1
    <3> QED BY <3>1, <3>2
  <2>5. Head(q) \in {q[i] : i \in DOMAIN q}
    BY <2>2
  <2> QED BY <2>2, <2>3, <2>4, <2>5 DEF q, Waiting
<1>3. /\ cur'[d] = c /\ \A e \in Proc \ {d} : cur'[e] = cur[e] /\ backlog'[e] = backlog[e]
      /\ cur' \in [Proc -> Client \union {NoOne}]
      /\ backlog' \in [Proc -> Seq(Client)] /\ backlog'[d] = s
  BY <1>0, <1>2 DEF IInv, Shape
<1>4. /\ Waiting(d)' = Waiting(d) \ {c}
      /\ \A e \in Proc \ {d} : Waiting(e)' = Waiting(e)
  <2>1. Waiting(d)' = {s[i] : i \in DOMAIN s}
    BY <1>3 DEF Waiting
  <2>2. \A e \in Proc \ {d} : Waiting(e)' = Waiting(e)
    BY <1>3 DEF Waiting
  <2> QED BY <1>2, <2>1, <2>2
<1>5. /\ At(c, "waiting")
      /\ \A e \in Proc \ {d} : c \notin Waiting(e) /\ (Busy(e) => cur[e] # c)
  BY <1>2 DEF IInv, Connected
<1>6. \A e \in Proc \ {d} : (Busy(e)' <=> Busy(e)) /\ Asks(e)' = Asks(e)
  BY <1>0, <1>1, <1>3 DEF Busy, Asks
<1>7. Connected'
  <2> SUFFICES ASSUME NEW e \in Proc PROVE Connected!(e)'
    BY DEF Connected
  <2>1. \A a \in Proc : Distinct(backlog'[a])
    BY <1>2, <1>3 DEF IInv, Connected
  <2>2. \A o \in Waiting(e)' : At(o, "waiting")'
    BY <1>0, <1>4 DEF IInv, Connected, At
  <2>3. \A o \in Waiting(e)' : \A a \in Proc : (a # e => o \notin Waiting(a)')
    BY <1>4 DEF IInv, Connected
  <2>4. \A o \in Waiting(e)' : \A a \in Proc : (Busy(a)' => cur'[a] # o)
    BY <1>3, <1>4, <1>5, <1>6 DEF IInv, Connected
  <2>5. Busy(e)' => /\ cur'[e] \in Client /\ At(cur[e], "waiting")'
                    /\ \A a \in Proc \ {e} : Busy(a)' => cur'[a] # cur'[e]
    BY <1>0, <1>3, <1>5, <1>6 DEF IInv, Connected, At
  <2>6. dpc'[e] = "closing" =>
            cur'[e] \in Client /\ Asks(e)'.pc \in {"answered", "ctl", "done", "failed"}
    BY <1>1, <1>3, <1>6 DEF IInv, Connected
  <2> QED BY <2>1, <2>2, <2>3, <2>4, <2>5, <2>6 DEF Connected
<1>8. Sole'
  BY <1>0, <1>1 DEF IInv, Sole, Single, Up, Running
<1> QED BY <1>0, <1>1, <1>3, <1>7, <1>8, RestInv DEF IInv, Shape
\* A process that ends, by itself or killed, takes its connections and its
\* sessions with it and touches nobody else's.
LEMMA EndInv ==
    ASSUME IInv, NEW d \in Proc, dpc[d] \notin {"unborn", "dead"}, To(d, "dead"),
           NEW S, Disconnect(d, S), Waiting(d) \subseteq S,
           \A c \in S : c \in Waiting(d) \/ (Busy(d) /\ c = cur[d]),
           Busy(d) => cur[d] \in S,
           socket' \in {socket, NoOne}, crashes' \in Nat,
           Running(d) \/ socket' = socket,
           backlog' = [backlog EXCEPT ![d] = <<>>],
           mounts' = [mounts EXCEPT ![d] = {}],
           \A m \in Mountpoint : session'[m] = IF session[m] = d THEN NoOne ELSE session[m],
           session' \in [Mountpoint -> Proc \union {NoOne}],
           UNCHANGED <<cur, flag, mb, notifiers, alive, raced>>
    PROVE  IInv'
<1>1. /\ dpc' \in [Proc -> DaemonPc] /\ dpc'[d] = "dead"
      /\ \A e \in Proc \ {d} : dpc'[e] = dpc[e]
  BY DEF IInv, Shape, To, DaemonPc
<1>2. /\ backlog' \in [Proc -> Seq(Client)] /\ backlog'[d] = <<>>
      /\ mounts' \in [Proc -> SUBSET Mountpoint] /\ mounts'[d] = {}
      /\ \A e \in Proc \ {d} : backlog'[e] = backlog[e] /\ mounts'[e] = mounts[e]
  <2>1. <<>> \in Seq(Client)
    OBVIOUS
  <2> QED BY <2>1 DEF IInv, Shape
<1>3. /\ Waiting(d)' = {}
      /\ \A e \in Proc \ {d} : Waiting(e)' = Waiting(e)
  BY <1>2 DEF Waiting
<1>4. /\ cl' \in [Client -> ClientRec]
      /\ \A c \in Client :
            /\ c \notin S => cl'[c] = cl[c]
            /\ c \in S => cl'[c].pc = "failed"
            /\ cl'[c].cmd = cl[c].cmd /\ cl'[c].mp = cl[c].mp /\ cl'[c].br = cl[c].br
  <2>1. /\ cl \in [Client -> ClientRec]
        /\ cl' = [c \in Client |-> IF c \in S THEN [cl[c] EXCEPT !.pc = "failed"] ELSE cl[c]]
    BY DEF IInv, Shape, Disconnect
  <2>2. \A r \in ClientRec :
            /\ [r EXCEPT !.pc = "failed"] \in ClientRec
            /\ [r EXCEPT !.pc = "failed"].pc = "failed"
            /\ [r EXCEPT !.pc = "failed"].cmd = r.cmd
            /\ [r EXCEPT !.pc = "failed"].mp = r.mp
            /\ [r EXCEPT !.pc = "failed"].br = r.br
    BY DEF ClientRec, ClientPc
  <2>3. ASSUME NEW c \in Client
        PROVE  /\ cl'[c] \in ClientRec
               /\ c \notin S => cl'[c] = cl[c]
               /\ c \in S => cl'[c].pc = "failed"
               /\ cl'[c].cmd = cl[c].cmd /\ cl'[c].mp = cl[c].mp /\ cl'[c].br = cl[c].br
    <3>1. CASE c \in S
      <4>1. cl[c] \in ClientRec /\ cl'[c] = [cl[c] EXCEPT !.pc = "failed"]
        BY <2>1, <3>1
      <4> QED BY <2>2, <3>1, <4>1
    <3>2. CASE c \notin S
      BY <2>1, <3>2
    <3> QED BY <3>1, <3>2
  <2> QED BY <2>1, <2>3
<1>5. \A c \in S : c \in Client /\ At(c, "waiting")
  BY DEF IInv, Shape, Connected, Waiting
<1>6. \A e \in Proc \ {d} :
          /\ \A c \in Waiting(e) : c \in Client \ S
          /\ Busy(e) => cur[e] \in Client \ S
  <2>1. \A e \in Proc : Waiting(e) \subseteq Client
    BY DEF IInv, Shape, Waiting
  <2> SUFFICES ASSUME NEW e \in Proc \ {d}
               PROVE  /\ \A c \in Waiting(e) : c \notin S
                      /\ Busy(e) => cur[e] \in Client /\ cur[e] \notin S
    BY <2>1
  <2>2. ASSUME NEW c \in Waiting(e) PROVE c \notin Waiting(d) /\ (Busy(d) => cur[d] # c)
    BY DEF IInv, Connected
  <2>3. Busy(e) => /\ cur[e] \in Client /\ cur[e] \notin Waiting(d)
                   /\ Busy(d) => cur[d] # cur[e]
    BY DEF IInv, Connected
  <2> QED BY <2>2, <2>3
<1>7. \A e \in Proc \ {d} : (Busy(e)' <=> Busy(e)) /\ (Busy(e) => Asks(e)' = Asks(e))
  BY <1>1, <1>4, <1>6 DEF Busy, Asks
<1>8. Shape'
  <2>1. \A c \in Client :
            /\ At(c, "idle")' \/ cl'[c].mp \in Mountpoint
            /\ At(c, "ctl")' => cl'[c].cmd = "create" \/ (cl'[c].cmd = "finish" /\ cl'[c].br # Main)
    <3>1. \A c \in S : c \in Client /\ cl[c].mp \in Mountpoint
      BY <1>5 DEF IInv, Shape, At
    <3> QED BY <1>4, <3>1 DEF IInv, Shape, At
  <2>2. \A e \in Proc : dpc'[e] \in {"unborn", "starting", "listening"} => cur'[e] = NoOne
    BY <1>1 DEF IInv, Shape
  <2> QED BY <1>1, <1>2, <1>4, <2>1, <2>2 DEF IInv, Shape
<1>9. Connected'
  <2> SUFFICES ASSUME NEW e \in Proc PROVE Connected!(e)'
    BY DEF Connected
  <2>0. ~Busy(d)' /\ dpc'[d] # "closing" /\ Distinct(<<>>)
    BY <1>1 DEF Busy, Distinct
  <2>1. Distinct(backlog'[e])
    BY <1>2, <2>0 DEF IInv, Connected
  <2>2. \A o \in Waiting(e)' : At(o, "waiting")'
    BY <1>3, <1>4, <1>6 DEF IInv, Connected, At
  <2>3. \A o \in Waiting(e)' : \A a \in Proc : (a # e => o \notin Waiting(a)')
    BY <1>3 DEF IInv, Connected
  <2>4. \A o \in Waiting(e)' : \A a \in Proc : (Busy(a)' => cur'[a] # o)
    BY <1>3, <1>7, <2>0 DEF IInv, Connected
  <2>5. Busy(e)' => /\ cur'[e] \in Client /\ At(cur[e], "waiting")'
                    /\ \A a \in Proc \ {e} : Busy(a)' => cur'[a] # cur'[e]
    BY <1>6, <1>7, <2>0 DEF IInv, Connected, At, Asks
  <2>6. dpc'[e] = "closing" =>
            cur'[e] \in Client /\ Asks(e)'.pc \in {"answered", "ctl", "done", "failed"}
    BY <1>1, <1>4, <2>0 DEF IInv, Connected, Asks
  <2> QED BY <2>1, <2>2, <2>3, <2>4, <2>5, <2>6 DEF Connected
<1>10. Free'
  <2>1. ASSUME NEW o \in Client, Mounting(o)'
        PROVE  Mounting(o) /\ cl'[o].mp = cl[o].mp /\ cl[o].mp \in Mountpoint
    <3>1. o \notin S /\ cl'[o] = cl[o]
      BY <1>4, <2>1 DEF Mounting
    <3>2. ~(dpc[d] = "notifying" /\ cur[d] = o)
      BY <3>1 DEF Busy
    <3>3. Mounting(o)
      BY <1>1, <2>1, <3>1, <3>2 DEF Mounting
    <3> QED BY <3>1, <3>3 DEF IInv, Shape, Mounting, At
  <2> QED BY <2>1 DEF IInv, Free
<1>11. \A e \in Proc : e # NoOne
  BY NameAssumption
<1>12. Alone(d)
  BY <1>1, <1>2, <1>7, <1>11 DEF Alone
<1>13. Serving'
  <2>1. \A m \in Mountpoint : session'[m] # d
    BY <1>11
  <2>2. Serving!2!(d)'
    BY <1>1, <1>2
  <2>3. \A m \in Mountpoint : \A e \in Proc \ {d} :
            session'[m] = e => /\ dpc'[e] # "dead" /\ mb'[e][m] # NoOne
                               /\ m \in mounts'[e] \/ (dpc'[e] = "notifying" /\ Asks(e)'.mp = m)
    BY <1>12, AloneKeeps
  <2>4. \A e \in Proc : Serving!2!(e)'
    BY <1>12, <2>2, AloneKeeps
  <2> QED BY <2>1, <2>3, <2>4 DEF Serving
<1>14. ~Eager => Notified'
  <2>1. Notified!(d)'
    BY <1>1, <1>2
  <2> QED BY <1>12, <2>1, AloneKeeps DEF Notified
<1>15. Enough'
  <2>1. Started \subseteq Started' /\ Born' = Born
    BY <1>1, <1>4, <1>5 DEF Started, Born, At, To
  <2> QED BY <2>1, EnoughKept DEF IInv
<1>16. Sole'
  <2>1. CASE raced
    BY <2>1 DEF Sole
  <2>2. CASE Single
    <3>1. \A e \in Proc : ~Up(e)'
      BY <1>1, <2>2 DEF Single, Up
    <3>2. \A e \in Proc : ~Running(e)'
      BY <3>1 DEF Up, Running
    <3> QED BY <3>1, <3>2 DEF Sole, Single
  <2> QED BY <2>1, <2>2 DEF IInv, Sole
<1> QED BY <1>8, <1>9, <1>10, <1>13, <1>14, <1>15, <1>16 DEF IInv

\* A daemon leaves its accept loop; no mount is served by it then.
LEMMA ExitInv == ASSUME IInv, NEW d \in Proc, Exit(d) PROVE IInv' /\ \A m \in Mountpoint : session[m] # d
<1>0. /\ dpc[d] = "listening" /\ flag[d] /\ To(d, "dead") /\ socket' = NoOne
      /\ backlog' = [backlog EXCEPT ![d] = <<>>] /\ Disconnect(d, Waiting(d))
      /\ UNCHANGED <<cur, flag, mounts, mb, notifiers, session, alive, crashes, raced>>
  BY DEF Exit
<1>1. mounts[d] = {} /\ \A m \in Mountpoint : session[m] # d
  BY <1>0 DEF IInv, Serving
<1>2. mounts' = [mounts EXCEPT ![d] = {}]
  BY <1>0, <1>1 DEF IInv, Shape
<1>3. Running(d) /\ ~Busy(d)
  BY <1>0 DEF Running, Busy
<1>4. PICK S : S = Waiting(d)
  OBVIOUS
<1>5. Disconnect(d, S)
  BY <1>0, <1>4 DEF Disconnect
<1> QED BY <1>0, <1>1, <1>2, <1>3, <1>4, <1>5, EndInv DEF IInv, Shape

\* A daemon is killed: its sessions and its waiting commands go with it.
LEMMA CrashInv == ASSUME IInv, NEW d \in Proc, Crash(d) PROVE IInv' /\ crashes' # crashes
<1>1. PICK S : S = Waiting(d) \union {c \in {cur[d]} \ {NoOne} : At(c, "waiting")}
  OBVIOUS
<1>2. /\ dpc[d] \notin {"unborn", "dead"} /\ To(d, "dead") /\ Disconnect(d, S)
      /\ crashes' = crashes + 1
      /\ session' = [m \in Mountpoint |-> IF session[m] = d THEN NoOne ELSE session[m]]
      /\ backlog' = [backlog EXCEPT ![d] = <<>>]
      /\ mounts' = [mounts EXCEPT ![d] = {}]
      /\ UNCHANGED <<socket, cur, flag, mb, notifiers, alive, raced>>
  BY <1>1 DEF Crash, Disconnect
<1>3. At(cur[d], "waiting") /\ cur[d] # NoOne => Busy(d)
  BY <1>2 DEF IInv, Shape, DaemonPc, Connected, Busy, At, Asks
<1>4. Busy(d) => cur[d] \in S
  BY <1>1, NameAssumption DEF IInv, Connected
<1>5. session' \in [Mountpoint -> Proc \union {NoOne}] /\ crashes' \in Nat /\ crashes' # crashes
  BY <1>2 DEF IInv, Shape
<1>6. \A c \in S : c \in Waiting(d) \/ (Busy(d) /\ c = cur[d])
  BY <1>1, <1>3
<1>7. Waiting(d) \subseteq S /\ \A m \in Mountpoint : session'[m] = IF session[m] = d THEN NoOne ELSE session[m]
  BY <1>1, <1>2
<1>8. IInv'
  BY <1>2, <1>4, <1>5, <1>6, <1>7, EndInv
<1> QED BY <1>5, <1>8
\* The initial states.
LEMMA InitInv == Init => IInv
<1> SUFFICES ASSUME Init PROVE IInv
  OBVIOUS
<1>0. <<>> \in Seq(Client) /\ DOMAIN <<>> = {}
  OBVIOUS
<1>1. Shape
  BY <1>0, NameAssumption, CommandAssumption
     DEF Init, Shape, ClientRec, ClientPc, DaemonPc, At
<1>2. Connected
  <2>1. \A d \in Proc : backlog[d] = <<>> /\ dpc[d] = "unborn"
    BY DEF Init
  <2>2. \A d \in Proc : Waiting(d) = {} /\ ~Busy(d) /\ Distinct(backlog[d])
    BY <1>0, <2>1 DEF Waiting, Busy, Distinct
  <2> QED BY <2>1, <2>2 DEF Connected
<1>3. Free
  BY DEF Init, Free, Mounting
<1>4. Serving
  <2>1. \A d \in Proc : d # NoOne
    BY NameAssumption
  <2> QED BY <2>1 DEF Init, Serving
<1>5. Notified /\ Single
  BY DEF Init, Notified, Single, Up, Running
<1>6. Enough
  <2>1. Born = {} /\ Started = {}
    BY DEF Init, Born, Started
  <2> QED BY <2>1, FS_EmptySet DEF Enough
<1> QED BY <1>1, <1>2, <1>3, <1>4, <1>5, <1>6 DEF IInv, Sole

\* A stuttering step.
LEMMA StutterInv == ASSUME IInv, UNCHANGED vars PROVE IInv'
<1> USE DEF vars, procs
<1>1. Shape'
  BY DEF IInv, Shape, At
<1>2. Connected'
  BY DEF IInv, Connected, Distinct, Waiting, At, Busy, Asks
<1>3. Free'
  BY DEF IInv, Free, Mounting
<1>4. Serving' /\ (~Eager => Notified')
  BY DEF IInv, Serving, Notified, Asks
<1>5. Sole'
  BY DEF IInv, Sole, Single, Up, Running
<1>6. Enough'
  BY DEF IInv, Enough, Born, Started
<1> QED BY <1>1, <1>2, <1>3, <1>4, <1>5, <1>6 DEF IInv

\* A session that was left behind ends: nobody knows of it.
LEMMA StrayEndsInv == ASSUME IInv, NEW d \in Proc, NEW m \in Mountpoint, StrayEnds(d, m) PROVE IInv'
<1> USE DEF StrayEnds, procs
<1>1. Shape'
  BY DEF IInv, Shape, At
<1>2. Connected'
  BY DEF IInv, Connected, Distinct, Waiting, At, Busy, Asks
<1>3. Free'
  BY DEF IInv, Free, Mounting
<1>4. Serving' /\ (~Eager => Notified')
  BY DEF IInv, Serving, Notified, Asks
<1>5. Sole'
  BY DEF IInv, Sole, Single, Up, Running
<1>6. Enough'
  BY DEF IInv, Enough, Born, Started
<1> QED BY <1>1, <1>2, <1>3, <1>4, <1>5, <1>6 DEF IInv

\* Every step keeps the invariant: one lemma for each action.
LEMMA StepInv == ASSUME IInv, [Next]_vars PROVE IInv'
<1>1. ASSUME NEW c \in Client, ClientStep(c) PROVE IInv'
  BY <1>1, EnsureInv, StartDaemonInv, PollInv, ConnectInv, ConsumeInv, CtlInv DEF ClientStep
<1>2. ASSUME NEW d \in Proc, DaemonStep(d) PROVE IInv'
  BY <1>2, BindInv, AcceptInv, MountRegisterInv, MountSpawnInv, MountInsertInv,
     UnmountSessionInv, UnmountRegisterInv, ManagerCallInv, ShutdownInv, HangUpInv, ExitInv
     DEF DaemonStep
<1>3. CASE \E c \in Client, cmd \in Command, b \in Branch, m \in Mountpoint : Issue(c, cmd, b, m)
  BY <1>3, IssueInv
<1> QED BY <1>1, <1>2, <1>3, CrashInv, StrayEndsInv, StutterInv DEF Next

\* The invariant holds in every behaviour.
LEMMA Inductive == Spec => []IInv
<1>1. Init => IInv
  BY InitInv
<1>2. IInv /\ [Next]_vars => IInv'
  BY StepInv
<1> QED BY <1>1, <1>2, PTL DEF Spec

----------------------------------------------------------------------------
(* The theorems                                                            *)

Strays == stray \subseteq Proc \X Mountpoint

\* A connection is with one daemon and only while its command waits, and a
\* daemon serves what it holds as mounted (Daemon, its mounts and the branch
\* table), whatever commands, exits and kills come together.
THEOREM TypeCorrect == Spec => []TypeOK
<1>1. IInv /\ Strays => TypeOK
  <2> SUFFICES ASSUME IInv, Strays PROVE TypeOK
    OBVIOUS
  <2>1. \A c \in Client : cl[c].br \in Branch /\ cl[c].mp \in Mountpoint \union {NoOne}
    BY DEF IInv, Shape, ClientRec
  <2>2. ASSUME NEW d \in Proc
        PROVE  /\ \A c \in Waiting(d) : At(c, "waiting") /\ \A e \in Proc \ {d} : c \notin Waiting(e)
               /\ dpc[d] \in {"serving", "spawning", "notifying", "unregistering"}
                     => At(cur[d], "waiting")
    BY DEF IInv, Connected, Busy
  <2>3. \A d \in Proc : mounts[d] \subseteq {m \in Mountpoint : session[m] = d}
    BY DEF IInv, Shape, Serving
  <2> QED BY <2>1, <2>2, <2>3 DEF TypeOK, Strays, IInv, Shape
<1>2. Init => Strays
  BY DEF Init, Strays
<1>3. IInv /\ Strays /\ [Next]_vars => Strays'
  <2> SUFFICES ASSUME IInv, Strays, [Next]_vars PROVE Strays'
    OBVIOUS
  <2>1. ASSUME NEW c \in Client, ClientStep(c) PROVE Strays'
    BY <2>1 DEF Strays, ClientStep, Ensure, StartDaemon, Poll, Connect, Consume, Ctl
  <2>2. ASSUME NEW d \in Proc, DaemonStep(d) PROVE Strays'
    <3>1. CASE UnmountSession(d)
      <4>1. CASE UNCHANGED stray
        BY <4>1 DEF Strays
      <4>2. CASE cl[cur[d]].mp \in mounts[d]
        <5>1. cl[cur[d]].mp \in Mountpoint
          BY <4>2 DEF IInv, Shape
        <5> QED BY <3>1, <4>2, <5>1 DEF UnmountSession, DropSessions, Strays
      <4> QED BY <3>1, <4>1, <4>2 DEF UnmountSession
    <3>2. CASE Shutdown(d)
      <4>1. mounts[d] \subseteq Mountpoint
        BY DEF IInv, Shape
      <4> QED BY <3>2, <4>1 DEF Shutdown, DropSessions, Strays
    <3>3. CASE Exit(d)
      BY <3>3 DEF Exit, Strays
    <3> QED BY <2>2, <3>1, <3>2, <3>3 DEF Strays, DaemonStep, Bind, Accept, MountRegister, MountSpawn,
            MountInsert, UnmountRegister, ManagerCall, HangUp
  <2>3. CASE \E c \in Client, cmd \in Command, b \in Branch, m \in Mountpoint : Issue(c, cmd, b, m)
    BY <2>3 DEF Issue, Strays
  <2>4. ASSUME NEW d \in Proc, Crash(d) PROVE Strays'
    BY <2>4 DEF Crash, Strays
  <2>5. ASSUME NEW d \in Proc, NEW m \in Mountpoint, StrayEnds(d, m) PROVE Strays'
    BY <2>5 DEF StrayEnds, Strays
  <2>6. CASE UNCHANGED vars
    BY <2>6 DEF vars, Strays
  <2> QED BY <2>1, <2>2, <2>3, <2>4, <2>5, <2>6 DEF Next
<1> QED BY <1>1, <1>2, <1>3, Inductive, PTL DEF Spec

\* A mountpoint whose session a daemon holds has its branch: spawn_mount sets
\* it before the session starts and unmount drops it after the session was
\* dropped, and nothing between takes it away, be it with one daemon or with
\* several, and whatever sessions of earlier mounts were left behind.
THEOREM BranchStays == Spec => []NeverFallsBack
<1>1. IInv => NeverFallsBack
  <2> SUFFICES ASSUME IInv, NEW m \in Mountpoint, session[m] # NoOne
               PROVE  mb[session[m]][m] # NoOne
    BY DEF NeverFallsBack
  <2>1. session[m] \in Proc
    BY DEF IInv, Shape
  <2> QED BY <2>1 DEF IInv, Serving
<1> QED BY <1>1, Inductive, PTL

\* A daemon that ends by itself serves no mount any more (run, unmount,
\* cleanup_all_mounts): whatever commands came while it decided to end.
THEOREM ExitIsClean == Spec => ExitTakesNoMount
<1>1. ASSUME IInv, [Next]_vars, NEW d \in Proc, dpc[d] # "dead", dpc'[d] = "dead", crashes' = crashes
      PROVE  \A m \in Mountpoint : session[m] # d
  <2>1. ASSUME NEW e \in Proc, Crash(e) PROVE FALSE
    BY <1>1, <2>1, CrashInv
  <2>2. ASSUME NEW e \in Proc, Exit(e) PROVE \A m \in Mountpoint : session[m] # d
    <3>1. e = d
      BY <1>1, <2>2 DEF Exit, To, IInv, Shape
    <3> QED BY <1>1, <2>2, <3>1, ExitInv
  <2>3. ASSUME NEW e \in Proc, DaemonStep(e), ~Exit(e) PROVE dpc'[d] # "dead"
    <3>1. PICK pc \in DaemonPc \ {"dead"} : dpc' = [dpc EXCEPT ![e] = pc] \/ dpc' = dpc
      BY <2>3 DEF DaemonStep, Bind, Accept, MountRegister, MountSpawn, MountInsert, UnmountSession,
            UnmountRegister, ManagerCall, Shutdown, HangUp, Respond, To, DaemonPc
    <3> QED BY <1>1, <3>1, SMTT(30) DEF IInv, Shape
  <2>4. ASSUME NEW c \in Client, ClientStep(c) PROVE dpc'[d] # "dead"
    <3>1. \/ dpc' = dpc
          \/ \E e : dpc' = [dpc EXCEPT ![e] = "starting"]
      BY <2>4 DEF ClientStep, Ensure, StartDaemon, Poll, Connect, Consume, Ctl, procs
    <3> QED BY <1>1, <3>1 DEF IInv, Shape
  <2>5. CASE \E c \in Client, cmd \in Command, b \in Branch, m \in Mountpoint : Issue(c, cmd, b, m)
    BY <1>1, <2>5 DEF Issue, procs
  <2>6. CASE UNCHANGED vars
    BY <1>1, <2>6 DEF vars, procs
  <2>7. ASSUME NEW e \in Proc, NEW m \in Mountpoint, StrayEnds(e, m) PROVE FALSE
    BY <1>1, <2>7 DEF StrayEnds, procs
  <2> QED BY <1>1, <2>1, <2>2, <2>3, <2>4, <2>5, <2>6, <2>7 DEF Next
<1>2. IInv /\ [Next]_vars =>
          [\A d \in Proc : dpc[d] # "dead" /\ dpc'[d] = "dead" /\ crashes' = crashes
              => \A m \in Mountpoint : session[m] # d]_vars
  BY <1>1
<1> QED BY <1>2, Inductive, PTL DEF Spec, ExitTakesNoMount

\* Two daemons run over one storage, or one that the socket does not lead to,
\* only after a command started one beside another (ensure_daemon has nothing
\* against that): exits, kills, stale socket files and restarts never lead
\* there, for any number of daemons and commands.
THEOREM OneAtATime == Spec => []OneDaemon
<1>1. IInv => OneDaemon
  BY DEF IInv, Sole, Single, OneDaemon, Up, Running
<1> QED BY <1>1, Inductive, PTL

\* When control files are used after the mount was acknowledged, the notifier
\* of a mount is found under the branch it shows, and only there, after any
\* switches, commits, aborts and unmounts (switch_mount_branch,
\* unregister_mount).
THEOREM NotifierIsFound == ~Eager => (Spec => []NotifierFollows)
<1>1. IInv => (~Eager => NotifierFollows)
  <2> SUFFICES ASSUME IInv, ~Eager, NEW d \in Proc, NEW m \in mounts[d]
               PROVE  /\ <<mb[d][m], m>> \in notifiers[d]
                      /\ Cardinality({k \in notifiers[d] : k[2] = m}) = 1
    BY DEF NotifierFollows
  <2>1. dpc[d] # "dead"
    <3>1. session[m] = d /\ m \in Mountpoint
      BY DEF IInv, Serving, Shape
    <3> QED BY <3>1 DEF IInv, Serving
  <2>2. <<mb[d][m], m>> \in notifiers[d] /\ \A k \in notifiers[d] : k[1] = mb[d][k[2]]
    BY <2>1 DEF IInv, Notified
  <2>3. \A k \in notifiers[d] : k = <<k[1], k[2]>>
    BY DEF IInv, Shape
  <2>4. {k \in notifiers[d] : k[2] = m} = {<<mb[d][m], m>>}
    BY <2>2, <2>3
  <2> QED BY <2>2, <2>4, FS_Singleton
<1>2. Spec => [](~Eager => NotifierFollows)
  BY <1>1, Inductive, PTL
<1>3. ASSUME ~Eager PROVE Spec => []NotifierFollows
  <2>1. (~Eager => NotifierFollows) => NotifierFollows
    BY <1>3
  <2> QED BY <1>2, <2>1, PTL
<1> QED BY <1>3
=============================================================================
