-------------------------- MODULE SourcePublication --------------------------
(***************************************************************************)
(* How the state daemon publishes its file exposure (daemon/src/model/     *)
(* state_source.rs, state_exposure.rs): a snapshot file per configured     *)
(* path and one source descriptor per tmux socket that names the server    *)
(* and the snapshot file. Daemons of successive tmux servers on a socket   *)
(* may run at once, stall anywhere and share a custom path; they serialize *)
(* on one lock file and ask tmux for its PID while they hold it.           *)
(*                                                                         *)
(* Daemon n serves tmux server n. A server's PID is its number: PIDs are   *)
(* not reused. The operating system lets one daemon run per server (the    *)
(* lock of serve) and drops the locks of a process that dies.              *)
(***************************************************************************)
EXTENDS Naturals

CONSTANTS
    MaxServers,      \* tmux servers that run on the socket, one after another
    Files,           \* paths of snapshot files
    Rows,            \* exposed_panes, as far as two of them differ
    None,            \* no file, no configured path, nothing cached
    Never,           \* SourcePublisher.published before the first publication
    MaxChanges,      \* changes of the rows and reloads
    MaxFaults        \* crashes, failed file operations and tmux calls

ASSUME SourceAssumption ==
    /\ MaxServers \in Nat \ {0}
    /\ MaxChanges \in Nat /\ MaxFaults \in Nat
    /\ None \notin Files /\ Never \notin Files \cup {None}
    /\ None \notin [server : 1..MaxServers, rows : Rows]
    /\ None \notin [server : 1..MaxServers, file : Files \cup {None}]
    /\ None \notin [file : Files, rows : Rows]

Servers == 1..MaxServers
StateFiles == Files \cup {None}

Snapshots == [server : Servers, rows : Rows]
Descriptors == [server : Servers, file : StateFiles]
Caches == [file : Files, rows : Rows]

Holding == {"write_snapshot", "write_descriptor"}
Removing == {"replace_config", "exit_snapshot"}
Steps == {"off", "starting", "idle", "snapshot", "describe", "name", "exit_descriptor"}
         \cup Holding \cup Removing

VARIABLES
    server, up,      \* the last tmux server, and whether it still runs
    changes, faults,
    \* Shared files.
    lock,            \* the daemon that holds the publication lock, 0 if none
    descriptor,      \* the source descriptor, or None
    snapshot,        \* snapshot[f], or None
    \* Each daemon.
    step,            \* step[n]: where daemon n is
    file,            \* file[n]: config.state_file, None when file exposure is off
    rows,            \* rows[n]: what exposed_panes yields
    cached,          \* published_file_path and published_exposure_payload, or None
    named,           \* SourcePublisher.published.state_file, or Never
    faulty           \* history: a crash or failure may have left files of n behind

shared == <<lock, descriptor, snapshot>>
memory == <<file, rows, cached, named>>
vars == <<server, up, changes, faults, lock, descriptor, snapshot,
          step, file, rows, cached, named, faulty>>

TypeOK ==
    /\ server \in Servers /\ up \in BOOLEAN
    /\ changes \in 0..MaxChanges /\ faults \in 0..MaxFaults
    /\ lock \in 0..MaxServers
    /\ descriptor \in Descriptors \cup {None}
    /\ snapshot \in [Files -> Snapshots \cup {None}]
    /\ step \in [Servers -> Steps]
    /\ file \in [Servers -> StateFiles]
    /\ rows \in [Servers -> Rows]
    /\ cached \in [Servers -> Caches \cup {None}]
    /\ named \in [Servers -> StateFiles \cup {Never}]
    /\ faulty \in [Servers -> BOOLEAN]

Init ==
    /\ server = 1 /\ up = TRUE
    /\ changes = 0 /\ faults = 0
    /\ lock = 0
    /\ descriptor = None
    /\ snapshot = [f \in Files |-> None]
    /\ step = [n \in Servers |-> "off"]
    /\ file = [n \in Servers |-> None]
    /\ rows \in {[n \in Servers |-> r] : r \in Rows}
    /\ cached = [n \in Servers |-> None]
    /\ named = [n \in Servers |-> Never]
    /\ faulty = [n \in Servers |-> FALSE]

-----------------------------------------------------------------------------
(* tmux servers *)

ServerDies ==
    /\ up
    /\ up' = FALSE
    /\ UNCHANGED <<server, changes, faults, shared, step, memory, faulty>>

ServerStarts ==
    /\ ~up /\ server < MaxServers
    /\ server' = server + 1 /\ up' = TRUE
    /\ UNCHANGED <<changes, faults, shared, step, memory, faulty>>

-----------------------------------------------------------------------------
(* One daemon *)

At(n, here) == step[n] = here
Goes(n, there) == step' = [step EXCEPT ![n] = there]

Fault == faults < MaxFaults /\ faults' = faults + 1

\* The process ends, and its memory goes with it.
Ends(n) ==
    /\ Goes(n, "off")
    /\ file' = [file EXCEPT ![n] = None]
    /\ cached' = [cached EXCEPT ![n] = None]
    /\ named' = [named EXCEPT ![n] = Never]
    /\ UNCHANGED rows

\* validate_server: tmux on the socket answers with the daemon's own PID.
Validated(n) == up /\ server = n

\* A client of server n, possibly one that outlived it, starts daemon n, which
\* loads its configuration from the server that now runs.
DaemonStarts(n) ==
    /\ At(n, "off") /\ n <= server
    /\ \E f \in StateFiles : file' = [file EXCEPT ![n] = f]
    /\ Goes(n, "starting")
    /\ UNCHANGED <<server, up, changes, faults, shared, rows, cached, named, faulty>>

\* SourcePublisher::new
EnablePublication(n) ==
    /\ At(n, "starting") /\ lock = 0
    /\ \/ Validated(n) /\ Goes(n, "idle") /\ UNCHANGED <<memory, faults>>
       \/ ~Validated(n) /\ Ends(n) /\ UNCHANGED faults
       \/ Validated(n) /\ Ends(n) /\ Fault
    /\ UNCHANGED <<server, up, changes, shared, faulty>>

RowsChange(n) ==
    /\ At(n, "idle") /\ changes < MaxChanges
    /\ changes' = changes + 1
    /\ \E r \in Rows \ {rows[n]} : rows' = [rows EXCEPT ![n] = r]
    /\ UNCHANGED <<server, up, faults, shared, step, file, cached, named, faulty>>

\* replace_config, up to the removal of a snapshot at a path given up.
ReplaceConfig(n) ==
    /\ At(n, "idle") /\ changes < MaxChanges
    /\ changes' = changes + 1
    /\ \E f \in StateFiles \ {file[n]} :
          /\ file' = [file EXCEPT ![n] = f]
          /\ IF cached[n] # None /\ cached[n].file # f
             THEN Goes(n, "replace_config") ELSE UNCHANGED step
    /\ UNCHANGED <<server, up, faults, shared, rows, cached, named, faulty>>

\* Mutant: rows are written even if file exposure is off.
PublishSnapshotAlways(n) ==
    /\ At(n, "idle")
    /\ Goes(n, IF cached[n] = [file |-> file[n], rows |-> rows[n]] THEN "describe" ELSE "snapshot")
    /\ UNCHANGED <<server, up, changes, faults, shared, memory, faulty>>

\* publish_exposure_file up to the lock: unchanged rows are not written again.
PublishSnapshot(n) ==
    /\ At(n, "idle")
    /\ Goes(n, IF file[n] = None \/ cached[n] = [file |-> file[n], rows |-> rows[n]]
               THEN "describe" ELSE "snapshot")
    /\ UNCHANGED <<server, up, changes, faults, shared, memory, faulty>>

\* Mutant: the server was asked before the lock was waited for.
LockOnly(n, here, there) ==
    /\ At(n, here) /\ lock = 0
    /\ Goes(n, there) /\ lock' = n
    /\ UNCHANGED <<server, up, changes, faults, descriptor, snapshot, memory, faulty>>

\* The lock is taken and the server asked; a failure gives the lock up and ends
\* this reconciliation.
LockAndValidate(n, here, there) ==
    /\ At(n, here) /\ lock = 0
    /\ \/ Validated(n) /\ Goes(n, there) /\ lock' = n /\ UNCHANGED faults
       \/ ~Validated(n) /\ Goes(n, "idle") /\ UNCHANGED <<lock, faults>>
       \/ Validated(n) /\ Goes(n, "idle") /\ Fault /\ UNCHANGED lock
    /\ UNCHANGED <<server, up, changes, descriptor, snapshot, memory, faulty>>

\* atomic_write_private of the snapshot.
WriteSnapshot(n) ==
    /\ At(n, "write_snapshot")
    /\ lock' = 0
    /\ \/ /\ snapshot' = [snapshot EXCEPT ![file[n]] = [server |-> n, rows |-> rows[n]]]
          /\ cached' = [cached EXCEPT ![n] = [file |-> file[n], rows |-> rows[n]]]
          /\ Goes(n, "describe")
          /\ UNCHANGED faults
       \/ Fault /\ Goes(n, "idle") /\ UNCHANGED <<snapshot, cached>>
    /\ UNCHANGED <<server, up, changes, descriptor, file, rows, named, faulty>>

\* SourcePublisher::publish up to the lock.
CheckDescriptor(n) ==
    /\ At(n, "describe")
    /\ Goes(n, IF named[n] = file[n] /\ descriptor # None THEN "idle" ELSE "name")
    /\ UNCHANGED <<server, up, changes, faults, shared, memory, faulty>>

\* Mutant: a descriptor that could not be written counts as published.
WriteDescriptorOnce(n) ==
    /\ At(n, "write_descriptor")
    /\ lock' = 0
    /\ Goes(n, "idle")
    /\ named' = [named EXCEPT ![n] = file[n]]
    /\ \/ descriptor' = [server |-> n, file |-> file[n]] /\ UNCHANGED faults
       \/ Fault /\ UNCHANGED descriptor
    /\ UNCHANGED <<server, up, changes, snapshot, file, rows, cached, faulty>>

WriteDescriptor(n) ==
    /\ At(n, "write_descriptor")
    /\ lock' = 0
    /\ Goes(n, "idle")
    /\ \/ /\ descriptor' = [server |-> n, file |-> file[n]]
          /\ named' = [named EXCEPT ![n] = file[n]]
          /\ UNCHANGED faults
       \/ Fault /\ UNCHANGED <<descriptor, named>>
    /\ UNCHANGED <<server, up, changes, snapshot, file, rows, cached, faulty>>

\* snapshot_is_owned
Owned(n, f) == snapshot[f] # None /\ snapshot[f].server = n

\* Mutant: the path and payload of a removed snapshot are remembered.
RemoveSnapshotOnly(n) ==
    /\ \/ At(n, "replace_config") /\ Goes(n, "idle")
       \/ At(n, "exit_snapshot") /\ Goes(n, "exit_descriptor")
    /\ lock = 0
    /\ IF Owned(n, cached[n].file)
       THEN snapshot' = [snapshot EXCEPT ![cached[n].file] = None]
       ELSE UNCHANGED snapshot
    /\ UNCHANGED <<server, up, changes, faults, lock, descriptor, memory, faulty>>

\* remove_exposure_file: the path is forgotten even if its file cannot be
\* removed. Reading, comparing and removing happen under the lock.
RemoveSnapshot(n) ==
    /\ \/ At(n, "replace_config") /\ Goes(n, "idle")
       \/ At(n, "exit_snapshot") /\ Goes(n, "exit_descriptor")
    /\ lock = 0
    /\ cached' = [cached EXCEPT ![n] = None]
    /\ \/ /\ IF Owned(n, cached[n].file)
             THEN snapshot' = [snapshot EXCEPT ![cached[n].file] = None]
             ELSE UNCHANGED snapshot
          /\ UNCHANGED <<faults, faulty>>
       \/ Fault /\ faulty' = [faulty EXCEPT ![n] = TRUE] /\ UNCHANGED snapshot
    /\ UNCHANGED <<server, up, changes, lock, descriptor, file, rows, named>>

\* Mutant: the snapshot file stays behind.
ExitLeavingSnapshot(n) ==
    /\ At(n, "idle")
    /\ Goes(n, "exit_descriptor")
    /\ UNCHANGED <<server, up, changes, faults, shared, memory, faulty>>

\* The event loop ends: on a shutdown request, or when it finds its server dead.
Exit(n) ==
    /\ At(n, "idle")
    /\ Goes(n, IF cached[n] = None THEN "exit_descriptor" ELSE "exit_snapshot")
    /\ UNCHANGED <<server, up, changes, faults, shared, memory, faulty>>

Shutdown(n) == Exit(n)

ServerGone(n) == ~Validated(n) /\ Exit(n)

\* remove_source_file, after which the process ends.
RemoveDescriptor(n) ==
    /\ At(n, "exit_descriptor") /\ lock = 0
    /\ \/ /\ IF descriptor # None /\ descriptor.server = n
             THEN descriptor' = None ELSE UNCHANGED descriptor
          /\ UNCHANGED <<faults, faulty>>
       \/ Fault /\ faulty' = [faulty EXCEPT ![n] = TRUE] /\ UNCHANGED descriptor
    /\ Ends(n)
    /\ UNCHANGED <<server, up, changes, lock, snapshot>>

Crash(n) ==
    /\ ~At(n, "off") /\ Fault
    /\ Ends(n)
    /\ lock' = IF lock = n THEN 0 ELSE lock
    /\ faulty' = [faulty EXCEPT ![n] = TRUE]
    /\ UNCHANGED <<server, up, changes, descriptor, snapshot>>

\* What daemon n does on its own; every step but these needs a cause outside.
Proceeds(n) ==
    \/ EnablePublication(n)
    \/ PublishSnapshot(n)
    \/ LockAndValidate(n, "snapshot", "write_snapshot") \/ WriteSnapshot(n)
    \/ CheckDescriptor(n)
    \/ LockAndValidate(n, "name", "write_descriptor") \/ WriteDescriptor(n)
    \/ RemoveSnapshot(n) \/ RemoveDescriptor(n)

Next ==
    \/ ServerDies \/ ServerStarts
    \/ \E n \in Servers :
          \/ Proceeds(n)
          \/ DaemonStarts(n) \/ RowsChange(n) \/ ReplaceConfig(n)
          \/ Shutdown(n) \/ ServerGone(n) \/ Crash(n)

Spec == Init /\ [][Next]_vars

\* A daemon keeps running, and each turn of its event loop may be the one that
\* checks that its server is alive.
FairSpec ==
    /\ Spec
    /\ \A n \in Servers : WF_vars(Proceeds(n)) /\ SF_vars(ServerGone(n))

-----------------------------------------------------------------------------
(* Properties *)

Mode(here) ==
    CASE here = "off"             -> "off"
      [] here \in Removing        -> "removing"
      [] here = "exit_descriptor" -> "withdrawing"
      [] OTHER                    -> "publishing"

Published == INSTANCE SourceFiles WITH mode <- [n \in Servers |-> Mode(step[n])]

\* README.md: an old daemon cannot overwrite or remove the descriptor of a
\* replacement server, nor the snapshot at a path that both use, wherever it
\* stalled and whatever it validated before; and a descriptor is written only
\* when the file it names holds a snapshot of the same server. To a reader of
\* the files the daemons behave as SourceFiles says.
PublicationImplemented == Published!Spec

\* What a daemon believes it has published is in the file, as long as its
\* server has not been replaced: the shortcut for unchanged rows is sound.
CacheIsTrue ==
    \A n \in Servers :
        server = n /\ cached[n] # None =>
            snapshot[cached[n].file] = [server |-> n, rows |-> cached[n].rows]

\* A daemon that ended without a crash or a failed removal leaves no file.
CleanExitLeavesNothing ==
    \A n \in Servers :
        step[n] \in {"off", "starting"} /\ ~faulty[n] =>
            /\ descriptor # None => descriptor.server # n
            /\ \A f \in Files : snapshot[f] # None => snapshot[f].server # n

Running(n) == step[n] \in Steps \ ({"off", "starting", "exit_descriptor", "exit_snapshot"})

\* The descriptor comes to name the server that runs and its snapshot file, and
\* that file to hold its rows, whatever earlier daemons still do.
SourceConverges ==
    \A n \in Servers :
        <>[](Validated(n) /\ Running(n)) =>
            <>[](/\ descriptor = [server |-> n, file |-> file[n]]
                 /\ file[n] # None => snapshot[file[n]] = [server |-> n, rows |-> rows[n]])
=============================================================================
