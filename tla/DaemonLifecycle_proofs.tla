----------------------- MODULE DaemonLifecycle_proofs -----------------------
(***************************************************************************)
(* Proofs about DaemonLifecycle, for any number of daemons and clients and *)
(* any limits. Mutual exclusion rests on the lock: whoever is past Lock    *)
(* holds it, only its holder touches the socket file, and so the daemon    *)
(* that listens is the one that bound it.                                  *)
(***************************************************************************)
EXTENDS DaemonLifecycle, SequenceTheorems, TLAPS

Holding == Stages \ {"off", "spawned"}

StageType ==
    /\ stage \in [Daemons -> Stages]
    /\ lock \in Daemons \cup {None}

HoldersLock == \A d \in Daemons : stage[d] \in Holding => lock = d

ListenersBound == \A d \in Daemons : stage[d] \in Listening => socket = d

IInv == StageType /\ HoldersLock /\ ListenersBound

USE DEF Holding, Stages, Listening

\* What the invariant is about.
served == <<stage, lock, socket>>

LEMMA InitIInv == Init => IInv
BY DEF Init, IInv, StageType, HoldersLock, ListenersBound

\* A daemon that reaches another stage without the lock changing hands.
LEMMA ReachesKeeps ==
    ASSUME IInv, NEW d \in Daemons, NEW there \in Holding,
           stage[d] \in Holding, Reaches(d, there), UNCHANGED lock,
           \/ UNCHANGED socket /\ (there \in Listening => stage[d] \in Listening)
           \/ socket' = d
           \/ there \notin Listening
    PROVE  IInv'
<1> USE DEF IInv, StageType, HoldersLock, ListenersBound, Reaches
<1>1. StageType' OBVIOUS
<1>2. HoldersLock' OBVIOUS
<1>3. \A e \in Daemons : e # d => stage[e] \notin Holding
    BY LifecycleAssumption
<1>4. ListenersBound' BY <1>3
<1> QED BY <1>1, <1>2, <1>4

LEMMA EndsKeeps ==
    ASSUME IInv, NEW d \in Daemons, Ends(d), UNCHANGED socket
    PROVE  IInv'
BY LifecycleAssumption DEF IInv, StageType, HoldersLock, ListenersBound, Ends, Reaches

LEMMA StageSteps ==
    ASSUME IInv, NEW d \in Daemons,
           \/ Lock(d) \/ RemoveStaleSocket(d) \/ Bind(d) \/ LoadConfig(d) \/ Restore(d)
           \/ RemoveSocket(d) \/ Leave(d) \/ Crash(d)
    PROVE  IInv'
<1>1. CASE Lock(d)
  <2>1. CASE lock = None /\ lock' = d /\ Reaches(d, "locked") /\ UNCHANGED socket
    BY <2>1, LifecycleAssumption
    DEF IInv, StageType, HoldersLock, ListenersBound, Reaches
  <2>2. CASE Ends(d) /\ UNCHANGED socket
    BY <2>2, EndsKeeps
  <2> QED BY <1>1, <2>1, <2>2 DEF Lock
<1>2. CASE RemoveStaleSocket(d) BY <1>2, ReachesKeeps DEF RemoveStaleSocket
<1>3. CASE Bind(d) BY <1>3, ReachesKeeps, EndsKeeps DEF Bind
<1>4. CASE LoadConfig(d) BY <1>4, ReachesKeeps, EndsKeeps DEF LoadConfig
<1>5. CASE Restore(d) BY <1>5, ReachesKeeps, EndsKeeps DEF Restore
<1>6. CASE RemoveSocket(d) BY <1>6, ReachesKeeps DEF RemoveSocket
<1>7. CASE Leave(d) BY <1>7, EndsKeeps DEF Leave
<1>8. CASE Crash(d) BY <1>8, EndsKeeps DEF Crash
<1> QED BY <1>1, <1>2, <1>3, <1>4, <1>5, <1>6, <1>7, <1>8

LEMMA HandleKeeps ==
    ASSUME IInv, NEW d \in Daemons, NEW n, stage[d] = "loop", Handle(d, n), UNCHANGED files
    PROVE  IInv'
<1>1. CASE Reaches(d, "stopping") BY <1>1, ReachesKeeps DEF files
<1>2. CASE UNCHANGED stage
    BY <1>2 DEF IInv, StageType, HoldersLock, ListenersBound, files
<1> QED BY <1>1, <1>2 DEF Handle

LEMMA LoopSteps ==
    ASSUME IInv, NEW d \in Daemons,
           Accept(d) \/ ServerGone(d) \/ Turn(d) \/ Receive(d) \/ Drain(d)
    PROVE  IInv'
<1> USE DEF files
<1>1. ASSUME UNCHANGED served PROVE IInv'
    BY <1>1 DEF served, IInv, StageType, HoldersLock, ListenersBound
<1>2. CASE Accept(d) BY <1>1, <1>2 DEF Accept, served
<1>3. CASE ServerGone(d) BY <1>3, ReachesKeeps DEF ServerGone, Looping
<1>4. CASE Turn(d) BY <1>1, <1>4 DEF Turn, served
<1>5. CASE Receive(d) BY <1>1, <1>5, HandleKeeps DEF Receive, Looping, served
<1>6. CASE Drain(d) BY <1>1, <1>6, HandleKeeps DEF Drain, Looping, served
<1> QED BY <1>2, <1>3, <1>4, <1>5, <1>6

\* A process that was started holds nothing yet.
LEMMA SpawnKeeps ==
    ASSUME IInv, NEW c \in Clients, Spawn(c)
    PROVE  IInv'
BY DEF IInv, StageType, HoldersLock, ListenersBound, Spawn, files

LEMMA NextIInv == IInv /\ [Next]_vars => IInv'
<1> SUFFICES ASSUME IInv, [Next]_vars PROVE IInv'
    OBVIOUS
<1>1. ASSUME UNCHANGED served PROVE IInv'
    BY <1>1 DEF served, IInv, StageType, HoldersLock, ListenersBound
<1>2. CASE ServerDies BY <1>1, <1>2 DEF ServerDies, served, files
<1>3. ASSUME NEW c \in Clients, Called(c) \/ Proceeds(c) \/ ReadTimeout(c) PROVE IInv'
  <2>1. CASE Called(c) BY <1>1, <2>1 DEF Called, served, files
  <2>2. CASE Send(c) BY <1>1, <2>2 DEF Send, served, files
  <2>3. CASE Spawn(c) BY <2>3, SpawnKeeps
  <2>4. CASE ConnectionLost(c) BY <1>1, <2>4 DEF ConnectionLost, served, files
  <2>5. CASE ReadTimeout(c) BY <1>1, <2>5 DEF ReadTimeout, served, files
  <2> QED BY <1>3, <2>1, <2>2, <2>3, <2>4, <2>5 DEF Proceeds
<1>4. ASSUME NEW d \in Daemons, Serve(d) \/ Accept(d) \/ ServerGone(d) \/ Crash(d)
      PROVE  IInv'
    BY <1>4, StageSteps, LoopSteps DEF Serve
<1>5. CASE UNCHANGED vars BY <1>1, <1>5 DEF vars, served
<1> QED BY <1>2, <1>3, <1>4, <1>5 DEF Next

\* However many daemons start, fail, stop and crash, the socket file leads to
\* the one that serves (serve, main.rs).
THEOREM OneReachable == Spec => []ServingIsReachable
<1>1. IInv => ServingIsReachable
    BY DEF IInv, ListenersBound, ServingIsReachable
<1> QED BY InitIInv, NextIInv, <1>1, PTL DEF Spec

-----------------------------------------------------------------------------
(* Deadlines: the index of the batch, modulo the stride, counts the        *)
(* requests since the last reconciliation.                                 *)

LEMMA Division ==
    ASSUME NEW i \in Nat, NEW n \in Nat \ {0}
    PROVE  i = n * (i \div n) + (i % n) /\ i % n \in 0..(n - 1) /\ i \div n \in Nat
OBVIOUS

LEMMA Remainder ==
    ASSUME NEW i \in Nat, NEW n \in Nat \ {0}, NEW q \in Nat, NEW r \in 0..(n - 1),
           i = n * q + r
    PROVE  i % n = r
OBVIOUS

LEMMA NextRemainder ==
    ASSUME NEW i \in Nat, NEW n \in Nat \ {0}
    PROVE  (i + 1) % n = IF (i % n) + 1 = n THEN 0 ELSE (i % n) + 1
<1> DEFINE q == i \div n  r == i % n
<1>1. i = n * q + r /\ r \in 0..(n - 1) /\ q \in Nat
    BY Division
<1> HIDE DEF q, r
<1>2. CASE r + 1 = n
  <2>1. i + 1 = n * (q + 1) + 0 BY <1>1, <1>2
  <2>2. (i + 1) % n = 0 BY <2>1, <1>1, Remainder
  <2> QED BY <2>2, <1>2 DEF r
<1>3. CASE r + 1 # n
  <2>1. i + 1 = n * q + (r + 1) /\ r + 1 \in 0..(n - 1) BY <1>1, <1>3
  <2>2. (i + 1) % n = r + 1 BY <2>1, <1>1, Remainder
  <2> QED BY <2>2, <1>3 DEF r
<1> QED BY <1>2, <1>3

Phases == {"top", "receive", "drain"}

LoopType ==
    /\ phase \in [Daemons -> Phases]
    /\ index \in [Daemons -> Nat]
    /\ since \in [Daemons -> Nat]

\* Outside a batch nothing is counted.
Rests(d) == phase[d] # "drain" => index[d] = 0 /\ since[d] = 0

\* Within a batch the count is the index modulo the stride, in 1..Stride.
Counts(d) ==
    phase[d] = "drain" =>
        /\ since[d] \in 1..Stride
        /\ index[d] % Stride = IF since[d] = Stride THEN 0 ELSE since[d]

LoopInv == LoopType /\ \A d \in Daemons : Rests(d) /\ Counts(d)

LEMMA InitLoop == Init => LoopInv
BY DEF Init, LoopInv, LoopType, Phases, Rests, Counts

LEMMA EndsRests ==
    ASSUME LoopInv, NEW d \in Daemons, Ends(d)
    PROVE  LoopInv'
BY DEF LoopInv, LoopType, Phases, Rests, Counts, Ends

LEMMA UnchangedLoop ==
    ASSUME LoopInv, UNCHANGED loop
    PROVE  LoopInv'
BY DEF LoopInv, LoopType, Rests, Counts, loop

\* A request that is handled when index % Stride have been since the last
\* reconciliation.
LEMMA HandleCounts ==
    ASSUME LoopInv, NEW d \in Daemons, Handle(d, index[d] % Stride)
    PROVE  LoopInv'
<1> USE DEF LoopInv, LoopType, Phases
<1>1. Stride \in Nat \ {0} /\ index[d] \in Nat
    BY LifecycleAssumption
<1>2. index[d] % Stride \in 0..(Stride - 1)
    BY <1>1, Division
<1>3. \A e \in Daemons \ {d} :
          phase'[e] = phase[e] /\ index'[e] = index[e] /\ since'[e] = since[e]
    BY DEF Handle
<1>4. CASE Head(channel[d]).request = "shutdown"
  <2>1. /\ phase' = [phase EXCEPT ![d] = "top"]
        /\ index' = [index EXCEPT ![d] = 0]
        /\ since' = [since EXCEPT ![d] = 0]
      BY <1>4 DEF Handle
  <2>2. LoopType' BY <2>1
  <2>3. Rests(d)' /\ Counts(d)' BY <2>1 DEF Rests, Counts
  <2> QED BY <1>3, <2>2, <2>3 DEF Rests, Counts
<1>5. CASE Head(channel[d]).request # "shutdown"
  <2>1. /\ phase' = [phase EXCEPT ![d] = "drain"]
        /\ index' = [index EXCEPT ![d] = index[d] + 1]
        /\ since' = [since EXCEPT ![d] = (index[d] % Stride) + 1]
      BY <1>5 DEF Handle
  <2>2. LoopType' BY <1>1, <1>2, <2>1
  <2>3. since'[d] \in 1..Stride BY <1>1, <1>2, <2>1
  <2>4. index'[d] % Stride = IF since'[d] = Stride THEN 0 ELSE since'[d]
      BY <1>1, <2>1, NextRemainder
  <2>5. Rests(d)' /\ Counts(d)' BY <2>1, <2>3, <2>4 DEF Rests, Counts
  <2> QED BY <1>3, <2>2, <2>5 DEF Rests, Counts
<1> QED BY <1>4, <1>5

LEMMA ReceiveCounts ==
    ASSUME LoopInv, NEW d \in Daemons, Receive(d)
    PROVE  LoopInv'
<1>1. index[d] = 0 /\ since[d] = 0
    BY DEF LoopInv, Rests, Receive, Looping
<1>2. CASE Handle(d, since[d])
  <2>1. since[d] = index[d] % Stride
      BY <1>1, LifecycleAssumption
  <2> QED BY <1>2, <2>1, HandleCounts
<1>3. CASE phase' = [phase EXCEPT ![d] = "top"] /\ UNCHANGED <<index, since>>
    BY <1>1, <1>3 DEF LoopInv, LoopType, Phases, Rests, Counts
<1> QED BY <1>2, <1>3 DEF Receive

LEMMA DrainCounts ==
    ASSUME LoopInv, NEW d \in Daemons, Drain(d)
    PROVE  LoopInv'
<1>1. Counts(d) /\ phase[d] = "drain" /\ since[d] \in Nat /\ Stride \in Nat \ {0}
    BY LifecycleAssumption DEF LoopInv, LoopType, Drain, Looping
<1>2. CASE Handle(d, IF Due(d) THEN 0 ELSE since[d])
  <2>1. index[d] % Stride = IF Due(d) THEN 0 ELSE since[d]
      BY <1>1 DEF Counts, Due
  <2> QED BY <1>2, <2>1, HandleCounts
<1>3. CASE /\ phase' = [phase EXCEPT ![d] = "top"]
           /\ index' = [index EXCEPT ![d] = 0]
           /\ since' = [since EXCEPT ![d] = 0]
    BY <1>3 DEF LoopInv, LoopType, Phases, Rests, Counts
<1> QED BY <1>2, <1>3 DEF Drain

LEMMA NextLoop == LoopInv /\ [Next]_vars => LoopInv'
<1> SUFFICES ASSUME LoopInv, [Next]_vars PROVE LoopInv'
    OBVIOUS
<1>1. CASE ServerDies BY <1>1, UnchangedLoop DEF ServerDies
<1>2. ASSUME NEW c \in Clients, Called(c) \/ Proceeds(c) \/ ReadTimeout(c)
      PROVE  LoopInv'
    BY <1>2, UnchangedLoop
    DEF Called, Proceeds, Send, Spawn, ConnectionLost, ReadTimeout
<1>3. ASSUME NEW d \in Daemons, Serve(d) \/ Accept(d) \/ ServerGone(d) \/ Crash(d)
      PROVE  LoopInv'
  <2>1. CASE Lock(d) \/ RemoveStaleSocket(d) \/ Bind(d) \/ LoadConfig(d) \/ Restore(d)
      BY <2>1, EndsRests, UnchangedLoop
      DEF Lock, RemoveStaleSocket, Bind, LoadConfig, Restore
  <2>2. CASE Turn(d)
      BY <2>2 DEF Turn, Looping, LoopInv, LoopType, Phases, Rests, Counts
  <2>3. CASE Receive(d) BY <2>3, ReceiveCounts
  <2>4. CASE Drain(d) BY <2>4, DrainCounts
  <2>5. CASE RemoveSocket(d) \/ Leave(d) \/ Crash(d)
      BY <2>5, EndsRests, UnchangedLoop DEF RemoveSocket, Leave, Crash
  <2>6. CASE Accept(d) \/ ServerGone(d)
      BY <2>6, UnchangedLoop DEF Accept, ServerGone
  <2> QED BY <1>3, <2>1, <2>2, <2>3, <2>4, <2>5, <2>6 DEF Serve
<1>4. CASE UNCHANGED vars BY <1>4, UnchangedLoop DEF vars, loop
<1> QED BY <1>1, <1>2, <1>3, <1>4 DEF Next

\* However fast requests come, at most Stride of them are handled between two
\* reconciliations, for any stride and batch limit (drain_event_batch, main.rs).
THEOREM DeadlinesAreMet == Spec => []DeadlinesNotStarved
<1>1. LoopInv => DeadlinesNotStarved
  <2> SUFFICES ASSUME LoopInv, NEW d \in Daemons PROVE since[d] <= Stride
      BY DEF DeadlinesNotStarved
  <2>1. Rests(d) /\ Counts(d) /\ Stride \in Nat /\ since[d] \in Nat
      BY LifecycleAssumption DEF LoopInv, LoopType
  <2> QED BY <2>1 DEF Rests, Counts
<1> QED BY InitLoop, NextLoop, <1>1, PTL DEF Spec

-----------------------------------------------------------------------------
(* Types. A client keeps what it is to send until it sends it, so that     *)
(* only requests are ever queued.                                          *)

CountType ==
    /\ up \in BOOLEAN
    /\ commands \in 0..MaxCommands /\ faults \in 0..MaxFaults

FileType ==
    /\ lock \in Daemons \cup {None} /\ socket \in Daemons \cup {None}
    /\ stage \in [Daemons -> Stages]

BatchType ==
    /\ phase \in [Daemons -> Phases]
    /\ index \in [Daemons -> 0..BatchLimit]
    /\ since \in [Daemons -> Nat]
    /\ \A d \in Daemons : phase[d] # "drain" => index[d] = 0

QueueType ==
    /\ backlog \in [Daemons -> Seq(Connections)]
    /\ channel \in [Daemons -> Seq(Connections)]

ClientType ==
    /\ command \in [Clients -> Commands \cup {None}]
    /\ step \in [Clients -> Steps]
    /\ on \in [Clients -> Daemons \cup {None}]
    /\ polls \in [Clients -> 0..(MaxPolls - 1)]
    /\ \A c \in Clients : step[c] \notin {"idle", "sending"} => command[c] # None

TypeInv == CountType /\ FileType /\ BatchType /\ QueueType /\ ClientType

LEMMA TypeInvTypeOK == TypeInv => TypeOK
BY DEF TypeOK, TypeInv, CountType, FileType, BatchType, QueueType, ClientType, Phases

LEMMA InitType == Init => TypeInv
<1> SUFFICES ASSUME Init PROVE TypeInv
    OBVIOUS
<1>1. CountType BY LifecycleAssumption DEF Init, CountType
<1>2. FileType BY DEF Init, FileType
<1>3. BatchType BY LifecycleAssumption DEF Init, BatchType, Phases
<1>4. QueueType BY DEF Init, QueueType
<1>5. ClientType BY LifecycleAssumption DEF Init, ClientType, Steps
<1> QED BY <1>1, <1>2, <1>3, <1>4, <1>5 DEF TypeInv

LEMMA UnansweredType ==
    ASSUME ClientType, NEW c \in Clients, Unanswered(c)
    PROVE  ClientType'
BY LifecycleAssumption DEF ClientType, Unanswered, Goes, Steps, Waiting

LEMMA AnswersType ==
    ASSUME ClientType, NEW m \in Connections, Answers(m)
    PROVE  ClientType'
BY LifecycleAssumption DEF ClientType, Answers, Steps, Waiting

LEMMA GoesType ==
    ASSUME ClientType, NEW c \in Clients, NEW there \in Steps \ {"idle", "sending"},
           Goes(c, there), command[c] # None, UNCHANGED <<command, polls>>,
           on' \in [Clients -> Daemons \cup {None}]
    PROVE  ClientType'
BY DEF ClientType, Goes

LEMMA ConnectsType ==
    ASSUME QueueType, ClientType, NEW c \in Clients, NEW request \in Requests, NEW there,
           Connects(c, request, there), UNCHANGED channel
    PROVE  QueueType' /\ on' \in [Clients -> Daemons \cup {None}] /\ Goes(c, there)
<1>1. [client |-> c, request |-> request] \in Connections
    BY DEF Connections
<1> QED BY <1>1 DEF Connects, QueueType, ClientType

LEMMA SendType ==
    ASSUME QueueType, ClientType, NEW c \in Clients, Send(c)
    PROVE  QueueType' /\ ClientType'
<1>1. UNCHANGED channel BY DEF Send
<1>2. "ensure" \in Requests /\ Sent(c) \subseteq Requests \cup {None}
    BY DEF Requests, Sent, ClientType, Commands, Starting
<1>3. CASE step[c] = "probe" /\ Connects(c, "ensure", "probing") /\ UNCHANGED <<command, polls>>
    BY <1>1, <1>2, <1>3, ConnectsType, GoesType DEF ClientType, Steps, Waiting
<1>4. CASE step[c] = "poll" /\ Connects(c, "ensure", "polling") /\ UNCHANGED <<command, polls>>
    BY <1>1, <1>2, <1>4, ConnectsType, GoesType DEF ClientType, Steps, Waiting
<1>5. ASSUME step[c] = "send", NEW request \in Sent(c), Connects(c, request, "sending"),
             command' = [command EXCEPT ![c] = None], UNCHANGED polls
      PROVE  QueueType' /\ ClientType'
  <2>1. request \in Requests
      BY <1>5 DEF Sent, Requests, ClientType, Commands, Starting
  <2>2. QueueType' /\ on' \in [Clients -> Daemons \cup {None}] /\ Goes(c, "sending")
      BY <1>1, <1>5, <2>1, ConnectsType
  <2> QED BY <1>5, <2>2 DEF ClientType, Goes, Steps, Waiting
<1>6. CASE Unanswered(c) /\ UNCHANGED backlog
    BY <1>1, <1>6, UnansweredType DEF QueueType
<1> QED BY <1>3, <1>4, <1>5, <1>6 DEF Send

LEMMA AbandonedType ==
    ASSUME NEW queue \in Seq(Connections), NEW c \in Clients
    PROVE  Abandoned(queue, c) \in Seq(Connections)
<1>1. Len(queue) \in Nat /\ DOMAIN queue = 1..Len(queue)
    OBVIOUS
<1>2. ASSUME NEW m \in Connections PROVE [m EXCEPT !.client = None] \in Connections
    BY DEF Connections
<1>3. \A i \in 1..Len(queue) : queue[i] \in Connections
    OBVIOUS
<1> DEFINE left(i) == IF queue[i].client = c THEN [queue[i] EXCEPT !.client = None] ELSE queue[i]
<1>4. \A i \in 1..Len(queue) : left(i) \in Connections
    BY <1>2, <1>3
<1>5. Abandoned(queue, c) = [i \in 1..Len(queue) |-> left(i)]
    BY <1>1 DEF Abandoned
<1> HIDE DEF left
<1>6. Abandoned(queue, c) \in [1..Len(queue) -> Connections]
    BY <1>4, <1>5
<1> QED BY <1>1, <1>6, SeqDef

LEMMA ClientStepsType ==
    ASSUME TypeInv, NEW c \in Clients, Called(c) \/ Proceeds(c) \/ ReadTimeout(c)
    PROVE  TypeInv'
<1> USE DEF TypeInv
<1>1. CASE Called(c)
  <2>1. CountType' BY <1>1, LifecycleAssumption DEF Called, CountType
  <2>2. FileType' /\ BatchType' /\ QueueType'
      BY <1>1 DEF Called, FileType, BatchType, QueueType, files, loop, connections
  <2>3. ClientType'
      BY <1>1, CommandAssumption DEF Called, ClientType, Goes, Commands, Starting, Steps
  <2> QED BY <2>1, <2>2, <2>3
<1>2. CASE Send(c)
  <2>1. CountType' /\ FileType' /\ BatchType'
      BY <1>2 DEF Send, CountType, FileType, BatchType, files, loop
  <2> QED BY <1>2, <2>1, SendType
<1>3. CASE Spawn(c)
  <2>1. FileType' BY <1>3 DEF Spawn, FileType, files, Stages
  <2>2. CountType' /\ BatchType' /\ QueueType'
      BY <1>3 DEF Spawn, CountType, BatchType, QueueType, loop, connections
  <2>3. ClientType' BY <1>3, GoesType DEF Spawn, ClientType, Steps
  <2> QED BY <2>1, <2>2, <2>3
<1>4. CASE ConnectionLost(c)
  <2>1. CountType' /\ FileType' /\ BatchType' /\ QueueType'
      BY <1>4 DEF ConnectionLost, CountType, FileType, BatchType, QueueType,
                  files, loop, connections
  <2> QED BY <1>4, <2>1, UnansweredType DEF ConnectionLost
<1>5. CASE ReadTimeout(c)
  <2>1. CountType' BY <1>5, LifecycleAssumption DEF ReadTimeout, CountType, Fault
  <2>2. FileType' /\ BatchType'
      BY <1>5 DEF ReadTimeout, FileType, BatchType, files, loop
  <2>3. QueueType' BY <1>5, AbandonedType DEF ReadTimeout, QueueType
  <2>4. ClientType' BY <1>5, UnansweredType DEF ReadTimeout
  <2> QED BY <2>1, <2>2, <2>3, <2>4
<1> QED BY <1>1, <1>2, <1>3, <1>4, <1>5 DEF Proceeds

LEMMA EndsType ==
    ASSUME FileType, BatchType, QueueType, NEW d \in Daemons, Ends(d),
           socket' \in Daemons \cup {None}
    PROVE  FileType' /\ BatchType' /\ QueueType'
<1>1. FileType' BY DEF Ends, Reaches, FileType, Stages
<1>2. BatchType' BY LifecycleAssumption DEF Ends, BatchType, Phases
<1>3. QueueType' BY DEF Ends, QueueType
<1> QED BY <1>1, <1>2, <1>3

LEMMA ReachesType ==
    ASSUME FileType, NEW d \in Daemons, NEW there \in Stages, Reaches(d, there),
           lock' \in Daemons \cup {None}, socket' \in Daemons \cup {None}
    PROVE  FileType'
BY DEF FileType, Reaches

LEMMA FaultType ==
    ASSUME CountType, UNCHANGED <<up, commands>>, Fault \/ UNCHANGED faults
    PROVE  CountType'
BY LifecycleAssumption DEF CountType, Fault

LEMMA StageStepsType ==
    ASSUME TypeInv, NEW d \in Daemons,
           \/ Lock(d) \/ RemoveStaleSocket(d) \/ Bind(d) \/ LoadConfig(d) \/ Restore(d)
           \/ RemoveSocket(d) \/ Leave(d) \/ Crash(d)
    PROVE  TypeInv'
<1> USE DEF TypeInv
<1>1. CountType'
    BY FaultType
    DEF Lock, RemoveStaleSocket, Bind, LoadConfig, Restore, RemoveSocket, Leave, Crash
<1>2. ClientType'
  <2>1. UNCHANGED clients
      BY DEF Lock, RemoveStaleSocket, Bind, LoadConfig, Restore, RemoveSocket, Leave, Crash
  <2> QED BY <2>1 DEF ClientType, clients
<1>3. ASSUME UNCHANGED <<loop, connections>> PROVE BatchType' /\ QueueType'
    BY <1>3 DEF BatchType, QueueType, loop, connections
<1>4. lock \in Daemons \cup {None} /\ socket \in Daemons \cup {None}
    BY DEF FileType
<1> USE DEF Stages
<1>5. CASE Lock(d) BY <1>1, <1>2, <1>3, <1>4, <1>5, EndsType, ReachesType DEF Lock
<1>6. CASE RemoveStaleSocket(d)
    BY <1>1, <1>2, <1>3, <1>4, <1>6, ReachesType DEF RemoveStaleSocket
<1>7. CASE Bind(d) BY <1>1, <1>2, <1>3, <1>4, <1>7, EndsType, ReachesType DEF Bind
<1>8. CASE LoadConfig(d)
    BY <1>1, <1>2, <1>3, <1>4, <1>8, EndsType, ReachesType DEF LoadConfig
<1>9. CASE Restore(d) BY <1>1, <1>2, <1>3, <1>4, <1>9, EndsType, ReachesType DEF Restore
<1>10. CASE RemoveSocket(d) BY <1>1, <1>2, <1>3, <1>4, <1>10, ReachesType DEF RemoveSocket
<1>11. CASE Leave(d) BY <1>1, <1>2, <1>4, <1>11, EndsType DEF Leave
<1>12. CASE Crash(d) BY <1>1, <1>2, <1>4, <1>12, EndsType DEF Crash
<1> QED BY <1>5, <1>6, <1>7, <1>8, <1>9, <1>10, <1>11, <1>12

LEMMA HandleType ==
    ASSUME TypeInv, NEW d \in Daemons, NEW n \in Nat, Handle(d, n), index[d] < BatchLimit,
           UNCHANGED <<lock, socket, backlog>>
    PROVE  FileType' /\ BatchType' /\ QueueType' /\ ClientType'
<1> USE DEF TypeInv
<1> DEFINE m == Head(channel[d])
<1>1. m \in Connections /\ Tail(channel[d]) \in Seq(Connections)
    BY DEF Handle, QueueType
<1>2. QueueType' BY <1>1 DEF Handle, QueueType
<1>3. ClientType' BY <1>1, AnswersType DEF Handle
<1>4. FileType' BY DEF Handle, FileType, Reaches, Stages
<1>5. BatchType'
  <2>1. BatchLimit \in Nat /\ index[d] + 1 \in 0..BatchLimit /\ n + 1 \in Nat
      BY LifecycleAssumption DEF BatchType
  <2>2. CASE m.request = "shutdown"
    <3>1. /\ phase' = [phase EXCEPT ![d] = "top"]
          /\ index' = [index EXCEPT ![d] = 0]
          /\ since' = [since EXCEPT ![d] = 0]
        BY <2>2 DEF Handle
    <3>2. phase' \in [Daemons -> Phases] BY <3>1 DEF BatchType, Phases
    <3>3. index' \in [Daemons -> 0..BatchLimit] BY <2>1, <3>1 DEF BatchType
    <3>4. since' \in [Daemons -> Nat] BY <3>1 DEF BatchType
    <3> QED BY <3>1, <3>2, <3>3, <3>4 DEF BatchType
  <2>3. CASE m.request # "shutdown"
    <3>1. /\ phase' = [phase EXCEPT ![d] = "drain"]
          /\ index' = [index EXCEPT ![d] = index[d] + 1]
          /\ since' = [since EXCEPT ![d] = n + 1]
        BY <2>3 DEF Handle
    <3>2. phase' \in [Daemons -> Phases] BY <3>1 DEF BatchType, Phases
    <3>3. index' \in [Daemons -> 0..BatchLimit] BY <2>1, <3>1 DEF BatchType
    <3>4. since' \in [Daemons -> Nat] BY <2>1, <3>1 DEF BatchType
    <3> QED BY <3>1, <3>2, <3>3, <3>4 DEF BatchType
  <2> QED BY <2>2, <2>3
<1> QED BY <1>2, <1>3, <1>4, <1>5

LEMMA AcceptType ==
    ASSUME TypeInv, NEW d \in Daemons, Accept(d)
    PROVE  QueueType' /\ ClientType'
<1> USE DEF TypeInv
<1> DEFINE m == Head(backlog[d])
<1>1. m \in Connections /\ Tail(backlog[d]) \in Seq(Connections)
    BY DEF Accept, QueueType
<1>2. backlog' \in [Daemons -> Seq(Connections)]
    BY <1>1 DEF Accept, QueueType
<1>3. CASE Answers(m) /\ UNCHANGED channel
    BY <1>1, <1>2, <1>3, AnswersType DEF QueueType
<1>4. CASE channel' = [channel EXCEPT ![d] = Append(@, m)] /\ UNCHANGED clients
    BY <1>1, <1>2, <1>4 DEF QueueType, ClientType, clients
<1> QED BY <1>3, <1>4 DEF Accept

LEMMA LoopStepsType ==
    ASSUME TypeInv, NEW d \in Daemons,
           Accept(d) \/ ServerGone(d) \/ Turn(d) \/ Receive(d) \/ Drain(d)
    PROVE  TypeInv'
<1> USE DEF TypeInv
<1>1. CountType'
    BY DEF Accept, ServerGone, Turn, Receive, Drain, CountType
<1>2. CASE Accept(d)
  <2>1. FileType' /\ BatchType'
      BY <1>2 DEF Accept, FileType, BatchType, files, loop
  <2> QED BY <1>1, <1>2, <2>1, AcceptType
<1>3. CASE ServerGone(d)
  <2>1. FileType' BY <1>3 DEF ServerGone, FileType, Reaches, Stages, files
  <2> QED BY <1>1, <1>3, <2>1
      DEF ServerGone, BatchType, QueueType, ClientType, loop, connections, clients
<1>4. CASE Turn(d)
  <2>1. BatchType'
      BY <1>4 DEF Turn, Looping, BatchType, Phases
  <2> QED BY <1>1, <1>4, <2>1
      DEF Turn, FileType, QueueType, ClientType, files, connections, clients
<1>5. ASSUME NEW n \in Nat, Handle(d, n), index[d] < BatchLimit, UNCHANGED <<files, backlog>>
      PROVE  TypeInv'
    BY <1>1, <1>5, HandleType DEF files
<1>6. ASSUME phase' = [phase EXCEPT ![d] = "top"],
             index' = [index EXCEPT ![d] = 0],
             since' \in [Daemons -> Nat],
             UNCHANGED <<files, stage, backlog, channel, clients>>
      PROVE  TypeInv'
  <2>1. BatchType' BY <1>6, LifecycleAssumption DEF BatchType, Phases
  <2> QED BY <1>1, <1>6, <2>1 DEF FileType, QueueType, ClientType, files, clients
<1>7. CASE Receive(d)
  <2>1. index[d] = 0 /\ since[d] \in Nat /\ 0 < BatchLimit
      BY <1>7, LifecycleAssumption DEF Receive, Looping, BatchType
  <2> QED BY <1>5, <1>6, <1>7, <2>1 DEF Receive, BatchType
<1>8. CASE Drain(d)
  <2>1. (IF Due(d) THEN 0 ELSE since[d]) \in Nat
      BY DEF BatchType
  <2>2. CASE index[d] < BatchLimit /\ Handle(d, IF Due(d) THEN 0 ELSE since[d])
      BY <1>5, <1>8, <2>1, <2>2 DEF Drain
  <2>3. CASE /\ phase' = [phase EXCEPT ![d] = "top"]
             /\ index' = [index EXCEPT ![d] = 0]
             /\ since' = [since EXCEPT ![d] = 0]
             /\ UNCHANGED <<stage, channel, clients>>
      BY <1>6, <1>8, <2>3 DEF Drain, BatchType
  <2> QED BY <1>8, <2>2, <2>3 DEF Drain
<1> QED BY <1>2, <1>3, <1>4, <1>7, <1>8

LEMMA NextType == TypeInv /\ [Next]_vars => TypeInv'
<1> SUFFICES ASSUME TypeInv, [Next]_vars PROVE TypeInv'
    OBVIOUS
<1>1. CASE ServerDies
    BY <1>1 DEF ServerDies, TypeInv, CountType, FileType, BatchType, QueueType, ClientType,
                files, loop, connections, clients
<1>2. ASSUME NEW c \in Clients, Called(c) \/ Proceeds(c) \/ ReadTimeout(c) PROVE TypeInv'
    BY <1>2, ClientStepsType
<1>3. ASSUME NEW d \in Daemons, Serve(d) \/ Accept(d) \/ ServerGone(d) \/ Crash(d)
      PROVE  TypeInv'
    BY <1>3, StageStepsType, LoopStepsType DEF Serve
<1>4. CASE UNCHANGED vars
    BY <1>4 DEF vars, TypeInv, CountType, FileType, BatchType, QueueType, ClientType
<1> QED BY <1>1, <1>2, <1>3, <1>4 DEF Next

\* Queues, batches and clients stay within their types and limits: every queued
\* connection carries a request, whatever gave up before (main.rs).
THEOREM TypeCorrect == Spec => []TypeOK
BY InitType, NextType, TypeInvTypeOK, PTL DEF Spec
=============================================================================
