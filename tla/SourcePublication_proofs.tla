----------------------- MODULE SourcePublication_proofs -----------------------
(***************************************************************************)
(* Proofs about the publication of snapshots and source descriptors, for   *)
(* any number of servers, files and rows.                                  *)
(***************************************************************************)
EXTENDS SourcePublication, TLAPS

\* Only the holder of the lock is about to write.
LockHeld == \A n \in Servers : step[n] \in Holding => lock = n

\* No daemon runs before its server was started.
NotYetStarted == \A n \in Servers : server < n => step[n] = "off"

\* What the steps of a daemon say of its memory.
MemoryFits ==
    \A n \in Servers :
        /\ step[n] \in {"off", "starting", "exit_descriptor"} => cached[n] = None
        /\ step[n] \in {"snapshot", "write_snapshot"} => file[n] # None
        /\ step[n] \in Removing => cached[n] # None
        /\ cached[n] # None /\ step[n] # "replace_config" => cached[n].file = file[n]
        /\ step[n] \in {"describe", "name", "write_descriptor"} /\ file[n] # None
             => cached[n] = [file |-> file[n], rows |-> rows[n]]

\* Nothing published is newer than the server that runs, nor than a daemon that
\* is about to write: it asked for the server while it held the lock.
NothingNewer(bound) ==
    /\ descriptor # None => descriptor.server <= bound
    /\ \A f \in Files : snapshot[f] # None => snapshot[f].server <= bound

OwnersPast ==
    /\ NothingNewer(server)
    /\ \A n \in Servers : step[n] \in Holding => NothingNewer(n)

\* CacheIsTrue, and the cache of a daemon about to write stays true even if its
\* server is replaced meanwhile.
CacheHolds ==
    \A n \in Servers :
        (server = n \/ step[n] \in Holding) /\ cached[n] # None =>
            snapshot[cached[n].file] = [server |-> n, rows |-> cached[n].rows]

\* A daemon that met no failure knows of every file it owns.
OwnFilesKnown ==
    \A n \in Servers :
        ~faulty[n] =>
            /\ step[n] \in {"off", "starting"} => (descriptor # None => descriptor.server # n)
            /\ \A f \in Files : snapshot[f] # None /\ snapshot[f].server = n =>
                                    cached[n] # None /\ cached[n].file = f
IInv ==
    /\ TypeOK /\ LockHeld /\ NotYetStarted /\ MemoryFits
    /\ OwnersPast /\ CacheHolds /\ OwnFilesKnown

-----------------------------------------------------------------------------
(* Types *)

LEMMA EndsType ==
  ASSUME IInv, NEW n \in Servers, Ends(n)
  PROVE  /\ step' \in [Servers -> Steps]
         /\ file' \in [Servers -> StateFiles]
         /\ rows' \in [Servers -> Rows]
         /\ cached' \in [Servers -> Caches \cup {None}]
         /\ named' \in [Servers -> StateFiles \cup {Never}]
  BY DEF IInv, TypeOK, Ends, Goes, Steps, StateFiles

LEMMA FaultType == IInv /\ (Fault \/ UNCHANGED faults) => faults' \in 0..MaxFaults
  BY SourceAssumption DEF IInv, TypeOK, Fault

LEMMA LockType == 0 \in 0..MaxServers /\ \A n \in Servers : n \in 0..MaxServers
  BY SourceAssumption DEF Servers

-----------------------------------------------------------------------------
(* Servers *)

LEMMA ServerDiesKeeps ==
  ASSUME IInv, ServerDies
  PROVE  IInv'
<1> USE DEF ServerDies, shared, memory, IInv
<1>1. TypeOK' /\ LockHeld' /\ NotYetStarted' /\ MemoryFits'
  BY DEF TypeOK, LockHeld, NotYetStarted, MemoryFits
<1>2. OwnersPast' /\ CacheHolds' /\ OwnFilesKnown'
  BY DEF OwnersPast, NothingNewer, CacheHolds, OwnFilesKnown
<1> QED
  BY <1>1, <1>2

\* The daemon of the new server has not started, so it caches nothing.
LEMMA ServerStartsKeeps ==
  ASSUME IInv, ServerStarts
  PROVE  IInv'
<1> USE SourceAssumption DEF ServerStarts, shared, memory, IInv
<1>1. TypeOK' /\ LockHeld' /\ MemoryFits' /\ OwnFilesKnown'
  BY DEF TypeOK, LockHeld, MemoryFits, OwnFilesKnown, Servers
<1>2. NotYetStarted'
  <2> SUFFICES ASSUME NEW n \in Servers, server + 1 < n
               PROVE  step[n] = "off"
    BY DEF NotYetStarted
  <2>1. server < n
    BY DEF TypeOK, Servers
  <2> QED
    BY <2>1 DEF NotYetStarted
<1>3. OwnersPast'
  BY DEF OwnersPast, NothingNewer, TypeOK, Servers, Descriptors, Snapshots
<1>4. CacheHolds'
  BY DEF CacheHolds, NotYetStarted, MemoryFits, TypeOK, Servers, Holding
<1> QED
  BY <1>1, <1>2, <1>3, <1>4

-----------------------------------------------------------------------------
(* Steps of a daemon that touch no file *)

LEMMA DaemonStartsKeeps ==
  ASSUME IInv, NEW n \in Servers, DaemonStarts(n)
  PROVE  IInv'
<1> USE DEF DaemonStarts, At, Goes, shared, memory, Holding, Removing, IInv, TypeOK
<1>1. TypeOK'
  BY SourceAssumption, LockType, FaultType DEF Steps, StateFiles
<1>2. LockHeld' /\ NotYetStarted'
  <2>1. LockHeld'
    BY DEF LockHeld
  <2>2. NotYetStarted'
    BY SourceAssumption DEF NotYetStarted, Servers
  <2> QED
    BY <2>1, <2>2
<1>3. MemoryFits'
  BY DEF MemoryFits
<1>4. OwnersPast'
  BY DEF OwnersPast, NothingNewer
<1>5. CacheHolds'
  BY DEF CacheHolds
<1>6. OwnFilesKnown'
  BY DEF OwnFilesKnown, MemoryFits
<1> QED
  BY <1>1, <1>2, <1>3, <1>4, <1>5, <1>6

LEMMA RowsChangeKeeps ==
  ASSUME IInv, NEW n \in Servers, RowsChange(n)
  PROVE  IInv'
<1> USE DEF RowsChange, At, Goes, shared, memory, Holding, Removing, IInv, TypeOK
<1>1. TypeOK'
  BY SourceAssumption, LockType, FaultType DEF Steps, StateFiles
<1>2. LockHeld' /\ NotYetStarted'
  <2>1. LockHeld'
    BY DEF LockHeld
  <2>2. NotYetStarted'
    BY SourceAssumption DEF NotYetStarted, Servers
  <2> QED
    BY <2>1, <2>2
<1>3. MemoryFits'
  BY DEF MemoryFits
<1>4. OwnersPast'
  BY DEF OwnersPast, NothingNewer
<1>5. CacheHolds'
  BY DEF CacheHolds
<1>6. OwnFilesKnown'
  BY DEF OwnFilesKnown, MemoryFits
<1> QED
  BY <1>1, <1>2, <1>3, <1>4, <1>5, <1>6

LEMMA ReplaceConfigKeeps ==
  ASSUME IInv, NEW n \in Servers, ReplaceConfig(n)
  PROVE  IInv'
<1> USE DEF ReplaceConfig, At, Goes, shared, memory, Holding, Removing, IInv, TypeOK
<1>1. TypeOK'
  BY SourceAssumption, LockType, FaultType DEF Steps, StateFiles
<1>2. LockHeld' /\ NotYetStarted'
  <2>1. LockHeld'
    BY DEF LockHeld
  <2>2. NotYetStarted'
    BY SourceAssumption DEF NotYetStarted, Servers
  <2> QED
    BY <2>1, <2>2
<1>3. MemoryFits'
  BY DEF MemoryFits
<1>4. OwnersPast'
  BY DEF OwnersPast, NothingNewer
<1>5. CacheHolds'
  BY DEF CacheHolds
<1>6. OwnFilesKnown'
  BY DEF OwnFilesKnown, MemoryFits
<1> QED
  BY <1>1, <1>2, <1>3, <1>4, <1>5, <1>6

LEMMA PublishSnapshotKeeps ==
  ASSUME IInv, NEW n \in Servers, PublishSnapshot(n)
  PROVE  IInv'
<1> USE DEF PublishSnapshot, At, Goes, shared, memory, Holding, Removing, IInv, TypeOK
<1>1. TypeOK'
  BY SourceAssumption, LockType, FaultType DEF Steps, StateFiles
<1>2. LockHeld' /\ NotYetStarted'
  <2>1. LockHeld'
    BY DEF LockHeld
  <2>2. NotYetStarted'
    BY SourceAssumption DEF NotYetStarted, Servers
  <2> QED
    BY <2>1, <2>2
<1>3. MemoryFits'
  BY DEF MemoryFits
<1>4. OwnersPast'
  BY DEF OwnersPast, NothingNewer
<1>5. CacheHolds'
  BY DEF CacheHolds
<1>6. OwnFilesKnown'
  BY DEF OwnFilesKnown, MemoryFits
<1> QED
  BY <1>1, <1>2, <1>3, <1>4, <1>5, <1>6

LEMMA CheckDescriptorKeeps ==
  ASSUME IInv, NEW n \in Servers, CheckDescriptor(n)
  PROVE  IInv'
<1> USE DEF CheckDescriptor, At, Goes, shared, memory, Holding, Removing, IInv, TypeOK
<1>1. TypeOK'
  BY SourceAssumption, LockType, FaultType DEF Steps, StateFiles
<1>2. LockHeld' /\ NotYetStarted'
  <2>1. LockHeld'
    BY DEF LockHeld
  <2>2. NotYetStarted'
    BY SourceAssumption DEF NotYetStarted, Servers
  <2> QED
    BY <2>1, <2>2
<1>3. MemoryFits'
  BY DEF MemoryFits
<1>4. OwnersPast'
  BY DEF OwnersPast, NothingNewer
<1>5. CacheHolds'
  BY DEF CacheHolds
<1>6. OwnFilesKnown'
  BY DEF OwnFilesKnown, MemoryFits
<1> QED
  BY <1>1, <1>2, <1>3, <1>4, <1>5, <1>6

LEMMA ExitKeeps ==
  ASSUME IInv, NEW n \in Servers, Exit(n)
  PROVE  IInv'
<1> USE DEF Exit, At, Goes, shared, memory, Holding, Removing, IInv, TypeOK
<1>1. TypeOK'
  BY SourceAssumption, LockType, FaultType DEF Steps, StateFiles
<1>2. LockHeld' /\ NotYetStarted'
  <2>1. LockHeld'
    BY DEF LockHeld
  <2>2. NotYetStarted'
    BY SourceAssumption DEF NotYetStarted, Servers
  <2> QED
    BY <2>1, <2>2
<1>3. MemoryFits'
  BY DEF MemoryFits
<1>4. OwnersPast'
  BY DEF OwnersPast, NothingNewer
<1>5. CacheHolds'
  BY DEF CacheHolds
<1>6. OwnFilesKnown'
  BY DEF OwnFilesKnown, MemoryFits
<1> QED
  BY <1>1, <1>2, <1>3, <1>4, <1>5, <1>6

\* SourcePublisher::new lets the daemon run, or ends it.
LEMMA EnablePublicationKeeps ==
  ASSUME IInv, NEW n \in Servers, EnablePublication(n)
  PROVE  IInv'
<1> USE DEF EnablePublication, At, Goes, shared, memory, Holding, Removing, IInv, TypeOK
<1>1. LockHeld' /\ NotYetStarted' /\ OwnersPast' /\ OwnFilesKnown'
  BY DEF LockHeld, NotYetStarted, OwnersPast, NothingNewer, OwnFilesKnown, MemoryFits, Ends
<1>2. CASE Ends(n)
  <2>1. TypeOK'
    BY <1>2, EndsType, FaultType
  <2>2. MemoryFits' /\ CacheHolds'
    BY <1>2 DEF MemoryFits, CacheHolds, Ends
  <2> QED
    BY <1>1, <2>1, <2>2
<1>3. CASE Goes(n, "idle") /\ UNCHANGED <<memory, faults>>
  <2>1. TypeOK'
    BY <1>3 DEF Steps
  <2>2. MemoryFits'
    BY <1>3 DEF MemoryFits
  <2>3. CacheHolds'
    BY <1>3 DEF CacheHolds
  <2> QED
    BY <1>1, <2>1, <2>2, <2>3
<1> QED
  BY <1>2, <1>3

-----------------------------------------------------------------------------
(* Steps under the lock *)

\* Whoever gets as far as writing validated the server while it held the lock:
\* what is published is not newer than itself, and its own cache is true.
LEMMA LockAndValidateKeeps ==
  ASSUME IInv, NEW n \in Servers,
         \/ LockAndValidate(n, "snapshot", "write_snapshot")
         \/ LockAndValidate(n, "name", "write_descriptor")
  PROVE  IInv'
<1> USE DEF LockAndValidate, At, Goes, Validated, shared, memory, Holding, Removing,
            IInv, TypeOK
<1>1. TypeOK'
  BY LockType, FaultType DEF Steps
<1>2. LockHeld' /\ NotYetStarted'
  <2>1. LockHeld'
    <3> SUFFICES ASSUME NEW m \in Servers, step'[m] \in Holding
                 PROVE  lock' = m
      BY DEF LockHeld
    <3>1. lock = 0 /\ m # 0
      BY DEF Servers
    <3>2. step[m] \notin Holding
      BY <3>1 DEF LockHeld
    <3>3. m = n /\ lock' = n
      BY <3>2
    <3> QED
      BY <3>3
  <2>2. NotYetStarted'
    <3> SUFFICES ASSUME NEW m \in Servers, server' < m
                 PROVE  step'[m] = "off"
      BY DEF NotYetStarted
    <3>1. server' = server /\ step[m] = "off"
      BY DEF NotYetStarted
    <3>2. step[n] # "off" /\ m # n
      BY <3>1
    <3>3. step'[m] = step[m]
      BY <3>2
    <3> QED
      BY <3>1, <3>3
  <2> QED
    BY <2>1, <2>2
<1>3. MemoryFits'
  BY DEF MemoryFits
<1>4. OwnersPast'
  BY DEF OwnersPast, NothingNewer
<1>5. CacheHolds'
  BY DEF CacheHolds
<1>6. OwnFilesKnown'
  BY DEF OwnFilesKnown, MemoryFits
<1> QED
  BY <1>1, <1>2, <1>3, <1>4, <1>5, <1>6

\* Writing a snapshot disturbs the true cache of no daemon: one of a newer
\* server would mean that something newer than the writer was published.
LEMMA WriteSnapshotKeeps ==
  ASSUME IInv, NEW n \in Servers, WriteSnapshot(n)
  PROVE  IInv'
<1> USE DEF IInv
<1> DEFINE new == [server |-> n, rows |-> rows[n]]
           cache == [file |-> file[n], rows |-> rows[n]]
<1>1. /\ lock' = 0 /\ step[n] = "write_snapshot" /\ file[n] \in Files
      /\ UNCHANGED <<server, up, changes, descriptor, file, rows, named, faulty>>
  BY DEF WriteSnapshot, At, MemoryFits, TypeOK, StateFiles
<1>2. n <= server
  BY <1>1 DEF NotYetStarted, Servers, TypeOK
<1>3. \A m \in Servers : step'[m] \notin Holding
  BY DEF WriteSnapshot, LockHeld, At, Goes, Holding, TypeOK
<1>4. LockHeld' /\ NotYetStarted' /\ OwnFilesKnown'
  <2>1. LockHeld' /\ NotYetStarted'
    BY <1>1, <1>2, <1>3, SourceAssumption
       DEF WriteSnapshot, Goes, LockHeld, NotYetStarted, TypeOK, Servers
  <2>2. OwnFilesKnown'
    <3>1. CASE UNCHANGED <<snapshot, cached>>
      BY <1>1, <3>1 DEF WriteSnapshot, Goes, OwnFilesKnown, TypeOK
    <3>2. CASE snapshot' = [snapshot EXCEPT ![file[n]] = new]
               /\ cached' = [cached EXCEPT ![n] = cache] /\ Goes(n, "describe")
      <4>1. cached[n] # None => cached[n].file = file[n]
        BY <1>1 DEF MemoryFits
      <4>2. /\ \A f \in Files \ {file[n]} : snapshot'[f] = snapshot[f]
            /\ snapshot'[file[n]].server = n
            /\ cached'[n].file = file[n] /\ cached'[n] # None
            /\ \A m \in Servers \ {n} : cached'[m] = cached[m] /\ step'[m] = step[m]
            /\ step'[n] = "describe"
        BY <1>1, <3>2, SourceAssumption DEF Goes, TypeOK
      <4> QED
        BY <1>1, <4>1, <4>2 DEF OwnFilesKnown
    <3> QED
      BY <3>1, <3>2 DEF WriteSnapshot
  <2> QED
    BY <2>1, <2>2
<1>5. CASE Fault /\ Goes(n, "idle") /\ UNCHANGED <<snapshot, cached>>
  <2>1. TypeOK'
    BY <1>1, <1>5, FaultType, LockType DEF Goes, Steps, TypeOK
  <2>2. MemoryFits' /\ CacheHolds' /\ OwnersPast'
    BY <1>1, <1>3, <1>5 DEF TypeOK, MemoryFits, CacheHolds, OwnersPast, NothingNewer,
       Goes, Holding, Removing
  <2> QED
    BY <1>4, <2>1, <2>2
<1>6. CASE /\ snapshot' = [snapshot EXCEPT ![file[n]] = new]
           /\ cached' = [cached EXCEPT ![n] = cache]
           /\ Goes(n, "describe")
           /\ UNCHANGED faults
  <2>1. TypeOK'
    <3>1. new \in Snapshots /\ cache \in Caches
      BY <1>1 DEF Snapshots, Caches, TypeOK
    <3>2. /\ snapshot' \in [Files -> Snapshots \cup {None}]
          /\ cached' \in [Servers -> Caches \cup {None}]
      BY <1>6, <3>1 DEF TypeOK
    <3> HIDE DEF new, cache
    <3> QED
      BY <1>1, <1>6, <3>2, LockType DEF Goes, Steps, TypeOK
  <2>2. MemoryFits'
    BY <1>1, <1>6 DEF TypeOK, MemoryFits, Goes, Removing
  <2>3. OwnersPast'
    BY <1>1, <1>2, <1>3, <1>6 DEF TypeOK, OwnersPast, NothingNewer
  <2>4. CacheHolds'
    <3> SUFFICES ASSUME NEW m \in Servers, server = m, cached'[m] # None
                 PROVE  snapshot'[cached'[m].file] = [server |-> m, rows |-> cached'[m].rows]
      BY <1>1, <1>3 DEF CacheHolds
    <3>1. CASE m = n
      BY <1>1, <1>6, <3>1 DEF TypeOK
    <3>2. CASE m # n
      <4>1. cached'[m] = cached[m] /\ cached[m].file \in Files
        BY <1>6, <3>2 DEF TypeOK, Caches
      <4>2. snapshot[cached[m].file] = [server |-> m, rows |-> cached[m].rows]
        BY <4>1 DEF CacheHolds
      <4>3. None # [server |-> m, rows |-> cached[m].rows]
        BY SourceAssumption, <4>1 DEF TypeOK, Caches, Servers
      <4>4. m <= n
        BY <1>1, <4>1, <4>2, <4>3 DEF OwnersPast, NothingNewer, Holding
      <4> QED
        BY <1>2, <3>2, <4>4 DEF Servers
    <3> QED
      BY <3>1, <3>2
  <2> QED
    BY <1>4, <2>1, <2>2, <2>3, <2>4
<1> QED
  BY <1>5, <1>6 DEF WriteSnapshot

LEMMA WriteDescriptorKeeps ==
  ASSUME IInv, NEW n \in Servers, WriteDescriptor(n)
  PROVE  IInv'
<1> USE DEF IInv
<1>1. /\ lock' = 0 /\ step[n] = "write_descriptor" /\ Goes(n, "idle")
      /\ UNCHANGED <<server, up, changes, snapshot, file, rows, cached, faulty>>
  BY DEF WriteDescriptor, At
<1>2. n <= server
  BY <1>1 DEF NotYetStarted, Servers, TypeOK
<1>3. \A m \in Servers : step'[m] \notin Holding
  BY <1>1 DEF LockHeld, Goes, Holding, TypeOK
<1>4. lock' \in 0..MaxServers /\ step' \in [Servers -> Steps]
  BY <1>1, LockType DEF Goes, Steps, TypeOK
<1>5. LockHeld' /\ NotYetStarted' /\ MemoryFits' /\ CacheHolds'
  BY <1>1, <1>3 DEF Goes, LockHeld, NotYetStarted, MemoryFits, CacheHolds, Holding,
     Removing, TypeOK
<1>6. OwnFilesKnown'
  BY <1>1 DEF WriteDescriptor, Goes, OwnFilesKnown, TypeOK
<1>7. CASE /\ descriptor' = [server |-> n, file |-> file[n]]
           /\ named' = [named EXCEPT ![n] = file[n]]
           /\ UNCHANGED faults
  <2>1. [server |-> n, file |-> file[n]] \in Descriptors
    BY DEF Descriptors, TypeOK
  <2>2. TypeOK'
    BY <1>1, <1>4, <1>7, <2>1 DEF TypeOK
  <2>3. OwnersPast'
    BY <1>1, <1>2, <1>3, <1>7 DEF OwnersPast, NothingNewer
  <2> QED
    BY <1>5, <1>6, <2>2, <2>3
<1>8. CASE Fault /\ UNCHANGED <<descriptor, named>>
  <2>1. TypeOK'
    BY <1>1, <1>4, <1>8, FaultType DEF TypeOK
  <2>2. OwnersPast'
    BY <1>1, <1>3, <1>8 DEF OwnersPast, NothingNewer
  <2> QED
    BY <1>5, <1>6, <2>1, <2>2
<1> QED
  BY <1>7, <1>8 DEF WriteDescriptor

\* Only a snapshot of the daemon itself goes, so no other cache is disturbed.
LEMMA RemoveSnapshotKeeps ==
  ASSUME IInv, NEW n \in Servers, RemoveSnapshot(n)
  PROVE  IInv'
<1> USE DEF RemoveSnapshot, At, Goes, Owned, Holding, Removing, IInv, TypeOK
<1>1. TypeOK'
  <2>1. step' \in [Servers -> Steps]
    BY DEF Steps
  <2>2. cached' \in [Servers -> Caches \cup {None}]
    OBVIOUS
  <2>3. snapshot' \in [Files -> Snapshots \cup {None}]
    OBVIOUS
  <2>4. faults' \in 0..MaxFaults /\ faulty' \in [Servers -> BOOLEAN]
    BY FaultType
  <2> QED
    BY <2>1, <2>2, <2>3, <2>4
<1>2. LockHeld' /\ NotYetStarted'
  BY DEF LockHeld, NotYetStarted
<1>3. MemoryFits'
  BY DEF MemoryFits
<1>4. OwnersPast'
  BY DEF OwnersPast, NothingNewer
<1>5. CacheHolds'
  <2> SUFFICES ASSUME NEW m \in Servers, cached'[m] # None,
                      server = m \/ step'[m] \in Holding
               PROVE  snapshot'[cached'[m].file] = [server |-> m, rows |-> cached'[m].rows]
    BY DEF CacheHolds
  <2>1. m # n /\ cached'[m] = cached[m] /\ cached[m].file \in Files
    BY DEF Caches
  <2>2. snapshot[cached[m].file] = [server |-> m, rows |-> cached[m].rows]
    BY <2>1 DEF CacheHolds
  <2>3. ~Owned(n, cached[m].file)
    BY <2>1, <2>2
  <2> QED
    BY <2>1, <2>2, <2>3 DEF Caches, MemoryFits
<1>6. OwnFilesKnown'
  BY DEF OwnFilesKnown, MemoryFits, Caches
<1> QED
  BY <1>1, <1>2, <1>3, <1>4, <1>5, <1>6

LEMMA RemoveDescriptorKeeps ==
  ASSUME IInv, NEW n \in Servers, RemoveDescriptor(n)
  PROVE  IInv'
<1> USE DEF RemoveDescriptor, At, Goes, Holding, Removing, IInv, TypeOK
<1>1. TypeOK'
  <2>1. descriptor' \in Descriptors \cup {None}
    OBVIOUS
  <2>2. faults' \in 0..MaxFaults /\ faulty' \in [Servers -> BOOLEAN]
    BY FaultType
  <2> QED
    BY <2>1, <2>2, EndsType
<1>2. LockHeld' /\ NotYetStarted' /\ MemoryFits'
  BY DEF LockHeld, NotYetStarted, MemoryFits, Ends
<1>3. OwnersPast' /\ CacheHolds'
  BY DEF OwnersPast, NothingNewer, CacheHolds, Ends
<1>4. OwnFilesKnown'
  <2>1. ~faulty'[n] => descriptor' = None \/ descriptor'.server # n
    OBVIOUS
  <2> QED
    BY <2>1 DEF OwnFilesKnown, MemoryFits, Ends
<1> QED
  BY <1>1, <1>2, <1>3, <1>4

LEMMA CrashKeeps ==
  ASSUME IInv, NEW n \in Servers, Crash(n)
  PROVE  IInv'
<1> USE DEF Crash, At, Goes, Holding, Removing, IInv, TypeOK
<1>1. TypeOK'
  BY EndsType, FaultType, LockType
<1>2. LockHeld' /\ NotYetStarted' /\ MemoryFits'
  BY SourceAssumption DEF LockHeld, NotYetStarted, MemoryFits, Ends, Servers
<1>3. OwnersPast' /\ CacheHolds'
  BY DEF OwnersPast, NothingNewer, CacheHolds, Ends
<1>4. OwnFilesKnown'
  BY DEF OwnFilesKnown, Ends
<1> QED
  BY <1>1, <1>2, <1>3, <1>4

-----------------------------------------------------------------------------
(* The invariant *)

LEMMA InitIInv == Init => IInv
<1> SUFFICES ASSUME Init
             PROVE  IInv
  OBVIOUS
<1> USE SourceAssumption DEF Init, Servers
<1>1. TypeOK
  BY DEF TypeOK, Steps, StateFiles
<1>2. LockHeld /\ NotYetStarted /\ MemoryFits
  BY DEF LockHeld, NotYetStarted, MemoryFits, Holding, Removing
<1>3. OwnersPast /\ CacheHolds /\ OwnFilesKnown
  BY DEF OwnersPast, NothingNewer, CacheHolds, OwnFilesKnown, Holding
<1> QED
  BY <1>1, <1>2, <1>3 DEF IInv

LEMMA NextIInv == IInv /\ [Next]_vars => IInv'
<1> SUFFICES ASSUME IInv, [Next]_vars
             PROVE  IInv'
  OBVIOUS
<1>1. CASE ServerDies \/ ServerStarts
  BY <1>1, ServerDiesKeeps, ServerStartsKeeps
<1>2. ASSUME NEW n \in Servers, Proceeds(n)
      PROVE  IInv'
  BY <1>2, EnablePublicationKeeps, PublishSnapshotKeeps, LockAndValidateKeeps,
     WriteSnapshotKeeps, CheckDescriptorKeeps, WriteDescriptorKeeps,
     RemoveSnapshotKeeps, RemoveDescriptorKeeps DEF Proceeds
<1>3. ASSUME NEW n \in Servers,
             \/ DaemonStarts(n) \/ RowsChange(n) \/ ReplaceConfig(n)
             \/ Shutdown(n) \/ ServerGone(n) \/ Crash(n)
      PROVE  IInv'
  BY <1>3, DaemonStartsKeeps, RowsChangeKeeps, ReplaceConfigKeeps, ExitKeeps, CrashKeeps
     DEF Shutdown, ServerGone
<1>4. CASE UNCHANGED vars
  <2> USE <1>4 DEF vars, IInv
  <2>1. TypeOK' /\ LockHeld' /\ NotYetStarted' /\ MemoryFits'
    BY DEF TypeOK, LockHeld, NotYetStarted, MemoryFits
  <2>2. OwnersPast' /\ CacheHolds' /\ OwnFilesKnown'
    BY DEF OwnersPast, NothingNewer, CacheHolds, OwnFilesKnown
  <2> QED
    BY <2>1, <2>2
<1> QED
  BY <1>1, <1>2, <1>3, <1>4 DEF Next

LEMMA Invariance == Spec => []IInv
  BY InitIInv, NextIInv, PTL DEF Spec

-----------------------------------------------------------------------------
(* The theorems *)

\* Every variable keeps its type, wherever daemons stall, fail, crash or end.
THEOREM TypeCorrect == Spec => []TypeOK
<1>1. IInv => TypeOK
  BY DEF IInv
<1> QED
  BY <1>1, Invariance, PTL

\* state_exposure.rs, publish_exposure_file: unchanged rows need no new write,
\* because the file still holds them as long as the server is not replaced.
THEOREM CacheIsAlwaysTrue == Spec => []CacheIsTrue
<1>1. IInv => CacheIsTrue
  BY DEF IInv, CacheHolds, CacheIsTrue
<1> QED
  BY <1>1, Invariance, PTL

\* state_source.rs, remove; state_exposure.rs, remove_owned_snapshot: a daemon
\* that ends without a failure leaves neither descriptor nor snapshot.
THEOREM NothingIsLeft == Spec => []CleanExitLeavesNothing
<1>1. IInv => CleanExitLeavesNothing
  BY DEF IInv, OwnFilesKnown, MemoryFits, CleanExitLeavesNothing
<1> QED
  BY <1>1, Invariance, PTL

-----------------------------------------------------------------------------
(* The refinement *)

ModeMap == [n \in Servers |-> Mode(step[n])]

LEMMA ModeChanges ==
  ASSUME IInv, NEW n \in Servers, NEW there \in Steps, Goes(n, there)
  PROVE  ModeMap' = [ModeMap EXCEPT ![n] = Mode(there)]
<1>1. step' = [step EXCEPT ![n] = there] /\ step \in [Servers -> Steps]
  BY DEF Goes, IInv, TypeOK
<1>2. \A k \in Servers : Mode(step'[k]) = IF k = n THEN Mode(there) ELSE Mode(step[k])
  BY <1>1
<1>3. ModeMap' = [k \in Servers |-> Mode(step'[k])]
  BY DEF ModeMap, Mode
<1> QED
  BY <1>2, <1>3 DEF ModeMap

\* The modes that a daemon goes through.
LEMMA ModeTurns ==
  /\ Mode("off") = "off" /\ Mode("exit_descriptor") = "withdrawing"
  /\ \A here \in Removing : Mode(here) = "removing"
  /\ \A here \in Steps \ (Removing \cup {"off", "exit_descriptor"}) : Mode(here) = "publishing"
  /\ Published!After("off") = {"publishing"}
  /\ Published!After("publishing") = {"removing", "withdrawing", "off"}
  /\ Published!After("removing") = {"publishing", "withdrawing", "off"}
  /\ Published!After("withdrawing") = {"off"}
  BY DEF Mode, Published!After, Removing, Steps, Holding

\* A step that leaves the files alone is a move of the daemon, or not seen.
LEMMA ModeMoves ==
  ASSUME IInv, NEW n \in Servers, NEW there \in Steps, Goes(n, there),
         \/ Mode(there) \in Published!After(Mode(step[n]))
         \/ Mode(there) = Mode(step[n]),
         UNCHANGED <<descriptor, snapshot>>
  PROVE  [Published!Next]_(Published!vars)
<1>1. ModeMap' = [ModeMap EXCEPT ![n] = Mode(there)] /\ ModeMap[n] = Mode(step[n])
  BY ModeChanges DEF ModeMap
<1>2. CASE Mode(there) \in Published!After(Mode(step[n]))
  <2>1. Published!Moves(n)
    BY <1>1, <1>2 DEF Published!Moves, Published!Turns, ModeMap
  <2> QED
    BY <2>1 DEF Published!Next
<1>3. CASE Mode(there) = Mode(step[n])
  BY <1>1, <1>3 DEF Published!vars, ModeMap
<1> QED
  BY <1>2, <1>3

\* The steps that do not touch the files.
LEMMA OthersRefine ==
  ASSUME IInv, NEW n \in Servers,
         \/ EnablePublication(n) \/ PublishSnapshot(n) \/ CheckDescriptor(n)
         \/ LockAndValidate(n, "snapshot", "write_snapshot")
         \/ LockAndValidate(n, "name", "write_descriptor")
         \/ DaemonStarts(n) \/ RowsChange(n) \/ ReplaceConfig(n)
         \/ Shutdown(n) \/ ServerGone(n) \/ Crash(n)
  PROVE  [Published!Next]_(Published!vars)
<1> USE ModeTurns, ModeMoves DEF shared, At, Steps, Holding, Removing
<1>0. step[n] \in Steps
  BY DEF IInv, TypeOK
<1>1. CASE EnablePublication(n)
  BY <1>1 DEF EnablePublication, Ends
<1>2. CASE PublishSnapshot(n)
  BY <1>2 DEF PublishSnapshot
<1>3. CASE CheckDescriptor(n)
  BY <1>3 DEF CheckDescriptor
<1>4. CASE LockAndValidate(n, "snapshot", "write_snapshot")
  BY <1>4 DEF LockAndValidate
<1>5. CASE LockAndValidate(n, "name", "write_descriptor")
  BY <1>5 DEF LockAndValidate
<1>6. CASE DaemonStarts(n)
  BY <1>6 DEF DaemonStarts
<1>7. CASE RowsChange(n)
  BY <1>7 DEF RowsChange, Published!vars
<1>8. CASE ReplaceConfig(n)
  <2>1. CASE Goes(n, "replace_config")
    BY <1>8, <2>1 DEF ReplaceConfig
  <2>2. CASE UNCHANGED step
    BY <1>8, <2>2 DEF ReplaceConfig, Published!vars
  <2> QED
    BY <1>8, <2>1, <2>2 DEF ReplaceConfig
<1>9. CASE Shutdown(n) \/ ServerGone(n)
  BY <1>9 DEF Shutdown, ServerGone, Exit
<1>10. CASE Crash(n)
  BY <1>0, <1>10 DEF Crash, Ends
<1> QED
  BY <1>1, <1>2, <1>3, <1>4, <1>5, <1>6, <1>7, <1>8, <1>9, <1>10

\* The holder of the lock replaces nothing newer.
LEMMA WriteSnapshotRefines ==
  ASSUME IInv, NEW n \in Servers, WriteSnapshot(n)
  PROVE  [Published!Next]_(Published!vars)
<1> USE DEF At
<1>0. step[n] = "write_snapshot" /\ step[n] \in Holding /\ Mode(step[n]) = "publishing"
  BY ModeTurns DEF WriteSnapshot, Holding, Steps, Removing
<1>1. CASE UNCHANGED snapshot
  BY <1>0, <1>1, ModeMoves, ModeTurns DEF WriteSnapshot, Steps, Holding, Removing
<1>2. CASE snapshot' # snapshot
  <2>1. /\ snapshot' = [snapshot EXCEPT ![file[n]] = [server |-> n, rows |-> rows[n]]]
        /\ Goes(n, "describe") /\ UNCHANGED descriptor
    BY <1>2 DEF WriteSnapshot
  <2>2. file[n] \in Files /\ rows[n] \in Rows
    BY <1>0 DEF IInv, TypeOK, MemoryFits, StateFiles
  <2>3. snapshot[file[n]] # None => snapshot[file[n]].server <= n
    BY <1>0, <2>2 DEF IInv, OwnersPast, NothingNewer
  <2>4. ModeMap' = ModeMap /\ ModeMap[n] = "publishing"
    <3>1. ModeMap[n] = "publishing"
      BY <1>0 DEF ModeMap
    <3>2. "describe" \in Steps /\ Mode("describe") = "publishing"
      BY ModeTurns DEF Steps, Holding, Removing
    <3>3. ModeMap' = [ModeMap EXCEPT ![n] = Mode("describe")]
      BY <2>1, <3>2, ModeChanges
    <3> QED
      BY <3>1, <3>2, <3>3 DEF ModeMap
  <2>5. Published!Write(n, file[n], rows[n])
    BY <2>1, <2>3, <2>4 DEF Published!Write, ModeMap
  <2> QED
    BY <2>2, <2>5 DEF Published!Next
<1> QED
  BY <1>1, <1>2

LEMMA WriteDescriptorRefines ==
  ASSUME IInv, NEW n \in Servers, WriteDescriptor(n)
  PROVE  [Published!Next]_(Published!vars)
<1> USE DEF At
<1>0. step[n] = "write_descriptor" /\ step[n] \in Holding /\ Mode(step[n]) = "publishing"
  BY ModeTurns DEF WriteDescriptor, Holding, Steps, Removing
<1>1. CASE UNCHANGED descriptor
  BY <1>0, <1>1, ModeMoves, ModeTurns DEF WriteDescriptor, Steps, Holding, Removing
<1>2. CASE descriptor' # descriptor
  <2>1. /\ descriptor' = [server |-> n, file |-> file[n]]
        /\ Goes(n, "idle") /\ UNCHANGED snapshot
    BY <1>2 DEF WriteDescriptor
  <2>2. descriptor # None => descriptor.server <= n
    BY <1>0 DEF IInv, OwnersPast, NothingNewer
  <2>3. ASSUME file[n] # None
        PROVE  snapshot[file[n]] # None /\ snapshot[file[n]].server = n
    <3>1. cached[n] = [file |-> file[n], rows |-> rows[n]] /\ file[n] \in Files
      BY <1>0, <2>3 DEF IInv, MemoryFits, TypeOK, StateFiles
    <3>2. cached[n] # None
      BY <3>1, SourceAssumption DEF IInv, TypeOK
    <3>3. snapshot[file[n]] = [server |-> n, rows |-> rows[n]]
      BY <1>0, <3>1, <3>2 DEF IInv, CacheHolds
    <3>4. [server |-> n, rows |-> rows[n]] # None
      BY SourceAssumption DEF IInv, TypeOK, Servers
    <3> QED
      BY <3>3, <3>4
  <2>4. ModeMap' = ModeMap /\ ModeMap[n] = "publishing"
    <3>1. ModeMap[n] = "publishing"
      BY <1>0 DEF ModeMap
    <3>2. "idle" \in Steps /\ Mode("idle") = "publishing"
      BY ModeTurns DEF Steps, Holding, Removing
    <3>3. ModeMap' = [ModeMap EXCEPT ![n] = Mode("idle")]
      BY <2>1, <3>2, ModeChanges
    <3> QED
      BY <3>1, <3>2, <3>3 DEF ModeMap
  <2>5. Published!Describe(n, file[n])
    BY <2>1, <2>2, <2>3, <2>4 DEF Published!Describe, ModeMap
  <2>6. file[n] \in Files \cup {None}
    BY DEF IInv, TypeOK, StateFiles
  <2> QED
    BY <2>5, <2>6 DEF Published!Next
<1> QED
  BY <1>1, <1>2

\* What is removed names the daemon that removes it.
LEMMA RemoveSnapshotRefines ==
  ASSUME IInv, NEW n \in Servers, RemoveSnapshot(n)
  PROVE  [Published!Next]_(Published!vars)
<1> USE DEF At
<1>0. PICK there \in {"idle", "exit_descriptor"} : Goes(n, there)
  BY DEF RemoveSnapshot
<1>1. /\ step[n] \in Removing /\ Mode(step[n]) = "removing" /\ there \in Steps
      /\ Mode(there) \in Published!After("removing")
      /\ UNCHANGED descriptor
  BY ModeTurns DEF RemoveSnapshot, Removing, Steps, Holding
<1>2. CASE UNCHANGED snapshot
  BY <1>0, <1>1, <1>2, ModeMoves
<1>3. CASE snapshot' # snapshot
  <2>1. Owned(n, cached[n].file) /\ snapshot' = [snapshot EXCEPT ![cached[n].file] = None]
    BY <1>3 DEF RemoveSnapshot
  <2>2. cached[n].file \in Files
    BY <1>1 DEF IInv, TypeOK, MemoryFits, Caches
  <2>3. ModeMap' = [ModeMap EXCEPT ![n] = Mode(there)] /\ ModeMap[n] = "removing"
    BY <1>0, <1>1, ModeChanges DEF ModeMap
  <2>4. Published!Turns(n)
    BY <1>1, <2>3 DEF Published!Turns, ModeMap
  <2>5. Published!Clear(n, cached[n].file)
    BY <1>1, <2>1, <2>3, <2>4 DEF Published!Clear, Owned, ModeMap
  <2> QED
    BY <2>2, <2>5 DEF Published!Next
<1> QED
  BY <1>2, <1>3

LEMMA RemoveDescriptorRefines ==
  ASSUME IInv, NEW n \in Servers, RemoveDescriptor(n)
  PROVE  [Published!Next]_(Published!vars)
<1> USE DEF At
<1>1. /\ step[n] = "exit_descriptor" /\ Goes(n, "off") /\ "off" \in Steps
      /\ Mode(step[n]) = "withdrawing" /\ Mode("off") \in Published!After("withdrawing")
      /\ UNCHANGED snapshot
  BY ModeTurns DEF RemoveDescriptor, Ends, Steps
<1>2. CASE UNCHANGED descriptor
  BY <1>1, <1>2, ModeMoves
<1>3. CASE descriptor' # descriptor
  <2>1. descriptor # None /\ descriptor.server = n /\ descriptor' = None
    BY <1>3 DEF RemoveDescriptor
  <2>2. ModeMap' = [ModeMap EXCEPT ![n] = Mode("off")] /\ ModeMap[n] = "withdrawing"
    BY <1>1, ModeChanges DEF ModeMap
  <2>3. Published!Withdraw(n)
    BY <1>1, <2>1, <2>2 DEF Published!Withdraw, Published!Turns, ModeMap
  <2> QED
    BY <2>3 DEF Published!Next
<1> QED
  BY <1>2, <1>3

\* README.md, state exposure; state_source.rs: to a reader of the files the
\* daemons of successive servers behave as SourceFiles says. No daemon replaces
\* or removes what a newer server published, and a descriptor names a complete
\* snapshot of its own server.
THEOREM ImplementsSourceFiles == Spec => PublicationImplemented
<1>1. Init => Published!Init
  BY ModeTurns DEF Init, Published!Init
<1>2. IInv /\ [Next]_vars => [Published!Next]_(Published!vars)
  <2> SUFFICES ASSUME IInv, [Next]_vars PROVE [Published!Next]_(Published!vars)
    OBVIOUS
  <2>1. CASE ServerDies \/ ServerStarts
    BY <2>1 DEF ServerDies, ServerStarts, shared, Published!vars
  <2>2. ASSUME NEW n \in Servers, Proceeds(n)
        PROVE  [Published!Next]_(Published!vars)
    BY <2>2, OthersRefine, WriteSnapshotRefines, WriteDescriptorRefines,
       RemoveSnapshotRefines, RemoveDescriptorRefines DEF Proceeds
  <2>3. ASSUME NEW n \in Servers,
               \/ DaemonStarts(n) \/ RowsChange(n) \/ ReplaceConfig(n)
               \/ Shutdown(n) \/ ServerGone(n) \/ Crash(n)
        PROVE  [Published!Next]_(Published!vars)
    BY <2>3, OthersRefine
  <2>4. CASE UNCHANGED vars
    BY <2>4 DEF vars, Published!vars
  <2> QED
    BY <2>1, <2>2, <2>3, <2>4 DEF Next
<1> QED
  BY <1>1, <1>2, Invariance, PTL DEF Spec, PublicationImplemented, Published!Spec
=============================================================================
