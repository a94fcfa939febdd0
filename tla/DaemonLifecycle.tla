--------------------------- MODULE DaemonLifecycle ---------------------------
(***************************************************************************)
(* The processes around the state daemon of one tmux server (daemon/src/   *)
(* main.rs): commands that probe for a daemon, start one and send their    *)
(* request; daemons that compete for the lock file, bind the socket, serve *)
(* and shut down; and, within a daemon, the acceptor thread that answers   *)
(* probes itself and queues every other request for the event loop.        *)
(*                                                                         *)
(* The kernel releases the lock of a process that ends and closes its      *)
(* connections. A socket file outlives the process that bound it.          *)
(***************************************************************************)
EXTENDS Naturals, Sequences

CONSTANTS
    Daemons,         \* processes that may run "serve" at a time
    Clients,         \* processes that may run a command at a time
    None,
    ChannelLimit,    \* bound of the channel between acceptor and event loop
    BatchLimit,      \* EVENT_BATCH_LIMIT
    Stride,          \* DEADLINE_CHECK_STRIDE
    MaxPolls,        \* probes after a daemon was started
    MaxCommands,     \* commands in a behaviour
    MaxFaults        \* crashes, refused configurations and read timeouts

ASSUME LifecycleAssumption ==
    /\ None \notin Daemons /\ None \notin Clients
    /\ ChannelLimit \in Nat \ {0}
    /\ Stride \in Nat \ {0} /\ BatchLimit \in Nat /\ Stride < BatchLimit
    /\ MaxPolls \in Nat \ {0} /\ MaxCommands \in Nat /\ MaxFaults \in Nat

VARIABLES
    up,              \* the tmux server runs
    commands, faults,
    \* Files.
    lock,            \* the daemon that holds the lock file, or None
    socket,          \* the daemon that bound the socket file, or None
    \* Each daemon.
    stage,           \* stage[d]: where serve() is
    phase,           \* phase[d]: where event_loop() is
    index,           \* index[d]: requests of the batch so far
    since,           \* since[d]: requests handled since the last reconciliation
    backlog,         \* backlog[d]: connections the acceptor has not served
    channel,         \* channel[d]: requests queued for the event loop
    \* Each client.
    command,         \* command[c]: what c is still to send, or None
    step,            \* step[c]: where c is
    on,              \* on[c]: the daemon c is connected to, or None
    polls            \* polls[c]: probes since c started a daemon

files == <<lock, socket>>
loop == <<phase, index, since>>
connections == <<backlog, channel>>
clients == <<command, step, on, polls>>
vars == <<up, commands, faults, lock, socket, stage, phase, index, since,
          backlog, channel, command, step, on, polls>>

\* "state" stands for every request the event loop handles but Shutdown, and
\* "refused" for what read_request refuses: a message that is too long, no
\* request, or one whose fields are not valid.
Requests == {"ensure", "refused", "state", "shutdown"}

\* Commands that start a daemon on demand, and those that never do: the relay
\* ("relay") sends its reports only to a daemon that already runs.
Starting == {"ensure", "state"}
Commands == Starting \cup {"relay", "shutdown"}

ASSUME CommandAssumption == None \notin Commands

\* A connection and the client that waits for its answer, None if it gave up.
Connections == [client : Clients \cup {None}, request : Requests]

Stages == {"off", "spawned", "locked", "unlinked", "bound", "accepting", "loop",
           "stopping", "leaving"}
Listening == {"bound", "accepting", "loop", "stopping"}
Accepting == {"accepting", "loop", "stopping", "leaving"}
Stopping == {"stopping", "leaving"}

Waiting == {"probing", "polling", "sending"}
Steps == Waiting \cup {"idle", "probe", "spawn", "poll", "send"}

TypeOK ==
    /\ up \in BOOLEAN
    /\ commands \in 0..MaxCommands /\ faults \in 0..MaxFaults
    /\ lock \in Daemons \cup {None} /\ socket \in Daemons \cup {None}
    /\ stage \in [Daemons -> Stages]
    /\ phase \in [Daemons -> {"top", "receive", "drain"}]
    /\ index \in [Daemons -> 0..BatchLimit]
    /\ since \in [Daemons -> Nat]
    /\ backlog \in [Daemons -> Seq(Connections)]
    /\ channel \in [Daemons -> Seq(Connections)]
    /\ command \in [Clients -> Commands \cup {None}]
    /\ step \in [Clients -> Steps]
    /\ on \in [Clients -> Daemons \cup {None}]
    /\ polls \in [Clients -> 0..(MaxPolls - 1)]

Init ==
    /\ up = TRUE
    /\ commands = 0 /\ faults = 0
    /\ lock = None /\ socket = None
    /\ stage = [d \in Daemons |-> "off"]
    /\ phase = [d \in Daemons |-> "top"]
    /\ index = [d \in Daemons |-> 0]
    /\ since = [d \in Daemons |-> 0]
    /\ backlog = [d \in Daemons |-> <<>>]
    /\ channel = [d \in Daemons |-> <<>>]
    /\ command = [c \in Clients |-> None]
    /\ step = [c \in Clients |-> "idle"]
    /\ on = [c \in Clients |-> None]
    /\ polls = [c \in Clients |-> 0]

Fault == faults < MaxFaults /\ faults' = faults + 1

ServerDies ==
    /\ up
    /\ up' = FALSE
    /\ UNCHANGED <<commands, faults, files, stage, loop, connections, clients>>

-----------------------------------------------------------------------------
(* Commands *)

Goes(c, there) == step' = [step EXCEPT ![c] = there]

Called(c) ==
    /\ step[c] = "idle" /\ commands < MaxCommands
    /\ commands' = commands + 1
    /\ \E called \in Commands :
          /\ command' = [command EXCEPT ![c] = called]
          /\ Goes(c, IF called \in Starting THEN "probe" ELSE "send")
    /\ UNCHANGED <<up, faults, files, stage, loop, connections, on, polls>>

\* UnixStream::connect finds a process that listens.
Connectable(d) == socket = d /\ stage[d] \in Listening

Connects(c, request, there) ==
    \E d \in Daemons :
        /\ Connectable(d)
        /\ backlog' = [backlog EXCEPT ![d] =
              Append(@, [client |-> c, request |-> request])]
        /\ on' = [on EXCEPT ![c] = d]
        /\ Goes(c, there)

\* Mutant: probes are repeated without end.
UnansweredForever(c) ==
    /\ on' = [on EXCEPT ![c] = None]
    /\ \/ step[c] \in {"probe", "probing"} /\ Goes(c, "spawn")
       \/ step[c] \in {"poll", "polling"} /\ Goes(c, "poll")
       \/ step[c] \in {"send", "sending"} /\ Goes(c, "idle")
    /\ UNCHANGED polls
    /\ command' = [command EXCEPT ![c] = IF step'[c] = "idle" THEN None ELSE @]

\* Mutant: one probe more than there should be.
UnansweredOnceMore(c) ==
    /\ on' = [on EXCEPT ![c] = None]
    /\ \/ step[c] \in {"probe", "probing"} /\ Goes(c, "spawn") /\ UNCHANGED polls
       \/ /\ step[c] \in {"poll", "polling"} /\ polls[c] < MaxPolls
          /\ polls' = [polls EXCEPT ![c] = @ + 1]
          /\ Goes(c, "poll")
       \/ /\ step[c] \in {"poll", "polling"} /\ polls[c] = MaxPolls
          /\ polls' = [polls EXCEPT ![c] = 0]
          /\ Goes(c, "idle")
       \/ step[c] \in {"send", "sending"} /\ Goes(c, "idle") /\ UNCHANGED polls
    /\ command' = [command EXCEPT ![c] = IF step'[c] = "idle" THEN None ELSE @]

\* A probe or a request without an answer: the first probe starts a daemon,
\* later ones are repeated, and a request is given up.
Unanswered(c) ==
    /\ on' = [on EXCEPT ![c] = None]
    /\ \/ step[c] \in {"probe", "probing"} /\ Goes(c, "spawn") /\ UNCHANGED polls
       \/ /\ step[c] \in {"poll", "polling"} /\ polls[c] + 1 < MaxPolls
          /\ polls' = [polls EXCEPT ![c] = @ + 1]
          /\ Goes(c, "poll")
       \/ /\ step[c] \in {"poll", "polling"} /\ polls[c] + 1 = MaxPolls
          /\ polls' = [polls EXCEPT ![c] = 0]
          /\ Goes(c, "idle")
       \/ step[c] \in {"send", "sending"} /\ Goes(c, "idle") /\ UNCHANGED polls
    /\ command' = [command EXCEPT ![c] = IF step'[c] = "idle" THEN None ELSE @]

\* What c may send once a daemon is there: a relay has validated its reports,
\* the request of a user has only been parsed.
Sent(c) ==
    CASE command[c] = "relay" -> {"state"}
      [] command[c] = "state" -> {"state", "refused"}
      [] OTHER                -> {command[c]}

\* send_request up to its read: a probe of ensure_daemon, or the request.
Send(c) ==
    /\ step[c] \in {"probe", "poll", "send"}
    /\ \/ /\ \/ step[c] = "probe" /\ Connects(c, "ensure", "probing") /\ UNCHANGED command
             \/ step[c] = "poll" /\ Connects(c, "ensure", "polling") /\ UNCHANGED command
             \/ /\ step[c] = "send"
                /\ \E request \in Sent(c) : Connects(c, request, "sending")
                /\ command' = [command EXCEPT ![c] = None]
          /\ UNCHANGED polls
       \/ /\ \A d \in Daemons : ~Connectable(d)
          /\ Unanswered(c)
          /\ UNCHANGED backlog
    /\ UNCHANGED <<up, commands, faults, files, stage, loop, channel>>

\* ensure_daemon starts "serve".
Spawn(c) ==
    /\ step[c] = "spawn"
    /\ \E d \in Daemons : stage[d] = "off" /\ stage' = [stage EXCEPT ![d] = "spawned"]
    /\ Goes(c, "poll")
    /\ UNCHANGED <<up, commands, faults, files, loop, connections, command, on, polls>>

\* The daemon c waits for has ended.
ConnectionLost(c) ==
    /\ step[c] \in Waiting /\ on[c] # None
    /\ \A i \in DOMAIN backlog[on[c]] : backlog[on[c]][i].client # c
    /\ \A i \in DOMAIN channel[on[c]] : channel[on[c]][i].client # c
    /\ Unanswered(c)
    /\ UNCHANGED <<up, commands, faults, files, stage, loop, connections>>

Abandoned(queue, c) ==
    [i \in DOMAIN queue |->
        IF queue[i].client = c THEN [queue[i] EXCEPT !.client = None] ELSE queue[i]]

\* The read times out; the daemon does not learn that c has gone.
ReadTimeout(c) ==
    /\ step[c] \in Waiting
    /\ Fault
    /\ backlog' = [d \in Daemons |-> Abandoned(backlog[d], c)]
    /\ channel' = [d \in Daemons |-> Abandoned(channel[d], c)]
    /\ Unanswered(c)
    /\ UNCHANGED <<up, commands, files, stage, loop>>

-----------------------------------------------------------------------------
(* serve *)

Reaches(d, there) == stage' = [stage EXCEPT ![d] = there]

\* The process ends; its socket file may remain.
Ends(d) ==
    /\ Reaches(d, "off")
    /\ lock' = IF lock = d THEN None ELSE lock
    /\ phase' = [phase EXCEPT ![d] = "top"]
    /\ index' = [index EXCEPT ![d] = 0]
    /\ since' = [since EXCEPT ![d] = 0]
    /\ backlog' = [backlog EXCEPT ![d] = <<>>]
    /\ channel' = [channel EXCEPT ![d] = <<>>]

\* Mutant: a daemon that does not get the lock goes on.
LockShared(d) ==
    /\ stage[d] = "spawned"
    /\ Reaches(d, "locked")
    /\ lock' = IF lock = None THEN d ELSE lock
    /\ UNCHANGED <<up, commands, faults, socket, loop, connections, clients>>

\* The lock is tried once; a daemon that does not get it is not needed.
Lock(d) ==
    /\ stage[d] = "spawned"
    /\ \/ /\ lock = None
          /\ lock' = d
          /\ Reaches(d, "locked")
          /\ UNCHANGED <<loop, connections>>
       \/ lock # None /\ Ends(d)
    /\ UNCHANGED <<up, commands, faults, socket, clients>>

RemoveStaleSocket(d) ==
    /\ stage[d] = "locked"
    /\ socket' = None
    /\ Reaches(d, "unlinked")
    /\ UNCHANGED <<up, commands, faults, lock, loop, connections, clients>>

Bind(d) ==
    /\ stage[d] = "unlinked"
    /\ \/ /\ socket = None
          /\ socket' = d
          /\ Reaches(d, "bound")
          /\ UNCHANGED <<lock, loop, connections>>
       \/ socket # None /\ Ends(d) /\ UNCHANGED socket
    /\ UNCHANGED <<up, commands, faults, clients>>

\* Config::load asks tmux; the acceptor starts only after it.
LoadConfig(d) ==
    /\ stage[d] = "bound"
    /\ \/ up /\ Reaches(d, "accepting") /\ UNCHANGED <<faults, lock, loop, connections>>
       \/ up /\ Fault /\ Ends(d)
       \/ ~up /\ Ends(d) /\ UNCHANGED faults
    /\ UNCHANGED <<up, commands, socket, clients>>

\* enable_source_publication, restore_once and the first reconciliation.
Restore(d) ==
    /\ stage[d] = "accepting"
    /\ \/ up /\ Reaches(d, "loop") /\ UNCHANGED <<faults, lock, loop, connections>>
       \/ up /\ Fault /\ Ends(d)
       \/ ~up /\ Ends(d) /\ UNCHANGED faults
    /\ UNCHANGED <<up, commands, socket, clients>>

\* After the event loop: published files and then the socket file are removed,
\* whoever bound it, and the lock goes with the process.
RemoveSocket(d) ==
    /\ stage[d] = "stopping"
    /\ socket' = None
    /\ Reaches(d, "leaving")
    /\ UNCHANGED <<up, commands, faults, lock, loop, connections, clients>>

Leave(d) ==
    /\ stage[d] = "leaving"
    /\ Ends(d)
    /\ UNCHANGED <<up, commands, faults, socket, clients>>

Crash(d) ==
    /\ stage[d] # "off" /\ Fault
    /\ Ends(d)
    /\ UNCHANGED <<up, commands, socket, clients>>

-----------------------------------------------------------------------------
(* The acceptor thread and the event loop of one daemon *)

\* The client of connection m, if it still waits, has its answer: the daemon is
\* there, or the command is done.
Answers(m) ==
    /\ step' = [c \in Clients |->
          CASE c = m.client /\ step[c] \in {"probing", "polling"} -> "send"
            [] c = m.client /\ step[c] = "sending"                -> "idle"
            [] OTHER                                              -> step[c]]
    /\ on' = [c \in Clients |-> IF c = m.client THEN None ELSE on[c]]
    /\ polls' = [c \in Clients |-> IF c = m.client THEN 0 ELSE polls[c]]
    /\ command' = [c \in Clients |-> IF step'[c] = "idle" THEN None ELSE command[c]]

\* What the acceptor answers itself: a probe, or a request with an error.
AnsweredAtOnce(m) == m.request \in {"ensure", "refused"}

\* Whatever the event loop does, these have their answer; behind a full channel
\* the acceptor waits, and so do the connections after it.
Accept(d) ==
    /\ stage[d] \in Accepting /\ backlog[d] # <<>>
    /\ LET m == Head(backlog[d])
       IN \/ /\ AnsweredAtOnce(m)
             /\ Answers(m)
             /\ UNCHANGED channel
          \/ /\ ~AnsweredAtOnce(m) /\ Len(channel[d]) < ChannelLimit
             /\ channel' = [channel EXCEPT ![d] = Append(@, m)]
             /\ UNCHANGED clients
    /\ backlog' = [backlog EXCEPT ![d] = Tail(@)]
    /\ UNCHANGED <<up, commands, faults, files, stage, loop>>

Looping(d, here) == stage[d] = "loop" /\ phase[d] = here

\* Mutant: the server is never checked.
ServerGoneUnnoticed(d) == Looping(d, "top") /\ ~up /\ UNCHANGED vars

\* server_remains_alive, when its check is due.
ServerGone(d) ==
    /\ Looping(d, "top") /\ ~up
    /\ Reaches(d, "stopping")
    /\ UNCHANGED <<up, commands, faults, files, loop, connections, clients>>

\* handle: Shutdown ends the loop after a last reconciliation, and no further
\* request of the batch is handled.
Handle(d, handled) ==
    LET m == Head(channel[d])
    IN /\ channel[d] # <<>>
       /\ channel' = [channel EXCEPT ![d] = Tail(@)]
       /\ Answers(m)
       /\ IF m.request = "shutdown"
          THEN /\ Reaches(d, "stopping")
               /\ since' = [since EXCEPT ![d] = 0]
               /\ phase' = [phase EXCEPT ![d] = "top"]
               /\ index' = [index EXCEPT ![d] = 0]
          ELSE /\ since' = [since EXCEPT ![d] = handled + 1]
               /\ phase' = [phase EXCEPT ![d] = "drain"]
               /\ index' = [index EXCEPT ![d] = @ + 1]
               /\ UNCHANGED stage

\* A turn begins with reconcile_center, and waits for the first request.
Turn(d) ==
    /\ Looping(d, "top")
    /\ since' = [since EXCEPT ![d] = 0]
    /\ phase' = [phase EXCEPT ![d] = "receive"]
    /\ UNCHANGED <<up, commands, faults, files, stage, index, connections, clients>>

Receive(d) ==
    /\ Looping(d, "receive")
    /\ \/ Handle(d, since[d])
       \/ /\ channel[d] = <<>>
          /\ phase' = [phase EXCEPT ![d] = "top"]
          /\ UNCHANGED <<stage, index, since, channel, clients>>
    /\ UNCHANGED <<up, commands, faults, files, backlog>>

\* Mutant: deadlines wait for the end of the batch.
DueAfterBatch(d) == index[d] % BatchLimit = 0

\* The stride within a batch after which deadlines are processed again.
Due(d) == index[d] % Stride = 0

\* drain_event_batch and the reconciliation after it.
Drain(d) ==
    /\ Looping(d, "drain")
    /\ \/ index[d] < BatchLimit /\ Handle(d, IF Due(d) THEN 0 ELSE since[d])
       \/ /\ index[d] = BatchLimit \/ channel[d] = <<>>
          /\ phase' = [phase EXCEPT ![d] = "top"]
          /\ index' = [index EXCEPT ![d] = 0]
          /\ since' = [since EXCEPT ![d] = 0]
          /\ UNCHANGED <<stage, channel, clients>>
    /\ UNCHANGED <<up, commands, faults, files, backlog>>

Serve(d) ==
    \/ Lock(d) \/ RemoveStaleSocket(d) \/ Bind(d) \/ LoadConfig(d) \/ Restore(d)
    \/ Turn(d) \/ Receive(d) \/ Drain(d)
    \/ RemoveSocket(d) \/ Leave(d)

Proceeds(c) == Send(c) \/ Spawn(c) \/ ConnectionLost(c)

Next ==
    \/ ServerDies
    \/ \E c \in Clients : Called(c) \/ Proceeds(c) \/ ReadTimeout(c)
    \/ \E d \in Daemons : Serve(d) \/ Accept(d) \/ ServerGone(d) \/ Crash(d)

Spec == Init /\ [][Next]_vars

\* Processes and threads keep running, and the turns of an event loop include
\* one that checks the server.
FairSpec ==
    /\ Spec
    /\ \A c \in Clients : WF_vars(Proceeds(c))
    /\ \A d \in Daemons : WF_vars(Serve(d)) /\ WF_vars(Accept(d)) /\ SF_vars(ServerGone(d))

-----------------------------------------------------------------------------
(* Properties *)

\* The socket file leads to the daemon that serves: no daemon that starts late,
\* fails, stops or has crashed takes it away or binds another.
ServingIsReachable == \A d \in Daemons : stage[d] = "loop" => socket = d

\* However fast requests come, deadlines are processed after at most Stride.
DeadlinesNotStarved == \A d \in Daemons : since[d] <= Stride

\* No daemon survives its tmux server for long, even if commands of clients
\* that outlived it start new ones.
DaemonGoesWithServer == <>[](~up) => <>[](\A d \in Daemons : stage[d] = "off")

\* Every command ends, without a read timeout to help it: daemons that fail, a
\* full channel and a lock that is lost leave none waiting.
CommandsEnd == \A c \in Clients : step[c] # "idle" ~> step[c] = "idle"

\* README.md: a daemon is restarted by a shutdown and a reload of the plugin,
\* which ensures one. A probe that finds a daemon finds one that will serve.
EnsuredServes ==
    [][\A c \in Clients :
          step[c] \in {"probing", "polling"} /\ step'[c] = "send" /\ up
            => stage[on[c]] \notin Stopping]_vars
=============================================================================
