# A verification project for tmux-argos

tmux-argos shows, inside tmux, which coding agents run in which pane and
whether they work, wait for an answer or have finished. A Rust daemon
(`daemon/`) keeps the states; shell scripts (`scripts/`) list the agents, jump
to them, launch them and kill them. This directory holds TLA+ models of its
core, the TLC configurations that check them on small instances, and TLAPS
proofs of the properties that matter most.

Paths below are relative to `src/`, the repository.

## 1. Inventory

### The components

| Component | State it keeps | Operations | Model |
|---|---|---|---|
| Screen detection rules (`daemon/src/model/state_scan.rs`, `program_status.rs`, `screen_detection*.rs`) | none: pure decisions | what a captured screen is read as, what a detected frame or a report does to a record | `Detectors`, `ScreenRules` |
| Pane state reconciliation (`daemon/src/model/state_scan.rs`, `program_status.rs`, `state_events.rs`) | records of pi, codex and claude panes, `pending_idle_confirmations`, `program_statuses`, scan deadlines | scan, relay attachment, expiry, program status, seen, exit, configuration reload | `PaneStates`, which implements `PaneTurns`; which panes a scan captures: `StatusLine` |
| Event records (`daemon/src/model/state_events.rs`) | records of agents that report themselves, retired generations, the mirror options of panes | report, exit, seen, scan, expiry, restore after a restart | `EventRecords` |
| Exposure files and descriptors (`daemon/src/model/state_source.rs`, `state_exposure.rs`) | snapshot files, the source descriptor, the publication lock, what was published last | publish, replace the configuration, remove on exit | `SourceFiles`, implemented by `SourcePublication` |
| OSC 7501 relay (`daemon/src/program_status_relay.rs`) | the scanner of OSC strings; the pipe of a pane, reports on their way | scan the pane's output, send reports, withdraw at the end | `OscRelay`, and as environment of `PaneStates` |
| Daemon process and event loop (`daemon/src/main.rs`) | lock file, socket file, accepted connections, the bounded channel | probe, start, serve, batch, shut down, liveness check | `DaemonLifecycle` |
| Picker and bulk kill (`scripts/picker/*.sh`, `scripts/event.sh`, `scripts/lib/*.awk`) | the batch: matched, shown, protected, killed, skipped and failed sessions | list, confirm, load targets, re-read, kill, report exits | `BulkKill` |
| Socket protocol (`daemon/src/protocol.rs`) | none | parsing and validation of one request | what happens to refused requests: `DaemonLifecycle`; which fields are valid: not modelled, pure functions on strings covered by unit tests |
| Status summary (`daemon/src/model/state_output.rs`, parts of `state_scan.rs`, `state_events.rs`, `screen_io.rs`) | the last published text, the animation frame, `last_window_activity`, deadlines | select panes, capture, animate, render, publish until tmux accepts it | `StatusLine` |
| Launcher (`scripts/launch.sh`) | session names, the options that tag a session | reserve, tag, open | `Launcher` |
| History (`daemon/src/bin/history/`) | none: one pass over a file | metadata, title and preview of a conversation | `History` |
| Badge and listing scripts | none | formatting, single tmux commands | not modelled |

### How they interact

* A *command* (`tmux-argos-daemon event`, `state`, `shutdown`, ...) connects to
  the Unix socket of its tmux server, starts a daemon if it must, and sends one
  request. The *acceptor thread* answers `ensure` itself and queues everything
  else in a bounded channel (256 entries) for the event loop.
* The *event loop* owns `StateCenter`: it handles requests in batches and, in
  between, processes whatever deadline is due (scan, expiry, exposure,
  summary). Every handler therefore runs to its end before the next one.
* A *scan* lists the panes and captures screens by calling tmux; both can fail.
* *Relays* are processes tmux pipes pane output to. They send OSC 7501 reports
  to the daemon over the socket, one connection per report.
* *Agents that report themselves* call `scripts/event.sh`, again one process
  and one connection per report: no order between them is guaranteed.
* *Daemons of successive servers* on one socket path may overlap: they share
  the descriptor, and with a custom path also the snapshot file.
* The *picker* reads the daemon's state and tmux options, and changes tmux
  directly. It tells the daemon about killed sessions afterwards.

### What is hard, and where

`PROJECT.json` lists each hazard at its line. In groups:

* *Confirmation of idle screens.* A redraw of a working agent may look idle for
  a capture. A turn ends only after several plainly idle captures or a time
  cap; records are changed by six handlers, and each must drop or keep the
  pending confirmation.
* *"done" until seen.* It must be announced once, survive scans, reports and
  reloads, and disappear when the user looks.
* *Delivery.* Reports may be late, lost, reordered, and may come from a process
  whose pane is already in use by another one, or closed.
* *Restart.* The daemon rebuilds records from options that may be old.
* *Stalled daemons.* An old daemon may wake up at any step of its publication,
  after its server was replaced.
* *Start and stop.* Several daemons may start at once, while one stops, while
  the tmux server dies.
* *Check, then act.* Each step of the picker is a command of its own, and the
  sessions it is about to kill change in between. A launcher reserves a name,
  tags the session and opens it in separate commands while others do the same.
* *Coarse clocks.* Whether a pane is captured is decided by a timestamp that has
  one second and one window as its grain.
* *Text written by others.* Screens keep what earlier dialogs left, pane output
  is split anywhere, conversation files are read while they grow.

## 2. The modules

Each module has the constants with a named assumption, the variables grouped by
owner, the type invariant, one action per handler or step, `Next`, `Spec`, the
fair specification, and the properties at the end. Operators marked "Mutant"
are plausible bugs; each is the smallest change of one definition that breaks
one property and shows that the property depends on that code.

### ScreenRules, PaneStates and PaneTurns

`ScreenRules` holds the pure decisions: what a detected frame
(`working`, `blocked`, `idle`, `visible_idle`, `skip`) does to a record, when a
plain idle is *held* and when *released*, and which display state a report
means. The text detectors are abstracted to these five outcomes.

`PaneStates` is the daemon's reconciliation of one kind of pane.

| Model | Code |
|---|---|
| `agents`, `age` | records of `StateCenter.agents`, `changed_at` |
| `pending` | `pending_idle_confirmations` (count and age of the first) |
| `programs` | `program_statuses` with `completion_pending` |
| `screenWait`, `fullWait` | `screen_deadline`, `full_screen_scan_deadline` as countdowns |
| `Tick`, `ProcessDeadlines` | the passing of time; `process_deadlines` with the scan and the expiry it makes |
| `ProgramStatus`, `Seen`, `Exited`, `ReloadConfig` | the request handlers of these names |
| `TurnStarts`, `TurnEnds`, `AgentAsks`, `RelayDies`, `Look`, ... | environment: agents, relays, the user |
| `viewer`, `View` | environment: a transcript viewer or picker hides the agent's screen; detection then skips the frame unless the title tells |
| `Captures` | `capture_panes_batch` and its fall-back to `capture_pane`: any pane may be missed by itself |
| `streak`, `owed` | history variables: what captures have shown, turns not yet announced |

Properties:
* `PendingBelongsToWorking`, `HeldIsRechecked`, `ConfirmationsEnd`: no handler
  leaves a confirmation behind that a later scan would count, an open
  confirmation is looked at within a recheck (`HeldIsRechecked` is proved and not
  among the properties of the runs), and none outlives its cap.
* `ReleaseNeedsEvidence`: a plain idle screen ends a turn only after enough
  plainly idle captures in a row. It is stated with `streak`, which counts what
  the captures really showed, and not with the code's own counter.
* `DoneUntilSeen`: "done" stays until seen.
* `TurnsImplemented`: without reports the module implements `PaneTurns` (below).
* `AnnouncedOnce`: "done" is announced once. This holds, and is proved, without
  reports; with reports it is violated (section 5).
* `RestEventuallyShown`, `WorkEventuallyShown`, `FallbackEventuallyShown`
  (liveness): the pane comes to show what its agent does.
* `CompletionNotLost` (violated, see section 5).

`PaneTurns` is what the user may rely on, for panes without reports: what the agent
of a pane does, who looks, and what is shown. A pane shows a turn only while one is
on; when a turn it showed is found to be over, it shows "done" if nobody watches and
the announcement is `owed`, else "idle"; a `stale` turn may disappear at any time.
It knows no screens, no confirmations, no deadlines and no failures. One of its
steps, `Refreshes`, stands for whatever the daemon does when deadlines are due: each
pane independently keeps what it showed or catches up with its agent (`Views`). The
mapping is direct (`agent`, `visible`, `agents`, `owed`; `stale` is `Expired`), and
the steps map thus:

| `PaneStates` | `PaneTurns` |
|---|---|
| `TurnStarts`, `AgentAsks`, `AgentAnswered`, `TurnEnds`, `AgentExits`, `AgentStarts` | `Acts` |
| `Look`, `Seen`, `Exited`, `Tick` | `Watches`, `Opens`, `Closes`, `Ages` |
| `ScanSucceeds`, `ScanFails`, `ExpireStates` | `Refreshes` |
| relays, viewers, reports, `ReloadConfig` | a stutter |

A redraw may be taken for the end of a turn, by the code and so by `Over`: then the
announcement is early. Since opening a pane leaves no trace but the record,
`PaneTurns` cannot tell a lost announcement from one that was seen; that is what
`DoneUntilSeen` is for.

Left out: window activity as the trigger of a capture (in `StatusLine`) is a free choice of the
panes captured; `blockedKind` and the session fields of records.

### StatusLine

From the screens of agents to the option `@agent_status_cache`.

| Model | Code |
|---|---|
| `noted`, `age`, `Dirty`, `Grace`, `NotedAt` | `last_window_activity` and the seconds since `window_activity`, `should_capture_screen` and its grace period, `select_dirty_panes` |
| `records`, `Summary`, `frame`, `Animate` | the counts of `render`, `frame_index` and its deadline |
| `published`, `Publish`, `cache` | `published_summary`, `publish`, the tmux option |
| `Turn` | `reconcile_center`: deadlines, scan, animation, publication in one turn |
| `ReloadConfig`, `ReplaceConfig`, `Starts`, `NewDaemon` | `reload_config`, `replace_config`, a daemon that starts |
| `Draw`, `LoadPlugin`, `OldDaemonPublishes`, `Stops` | environment: agents, the plugin's entry point, the daemon that is replaced |

Properties: `CapturedNextScan`, a scan that is on time captures every pane drawn
since the scan before, although a redraw may fall into the second of an earlier
capture, and another pane of the same window may have been looked at since;
`PublishedIsShown`, no summary is remembered that tmux refused; and
`LineConverges` (liveness), when screens, options and tmux come to rest the line
shows what a fresh look at every pane would. A scan that takes longer than the
slack of the grace period counts as late. One kind of trouble (listing,
capturing, publishing, or publishing with the answer lost) may occur per turn. The TTL of records and redraws that
look idle are left to `PaneStates`, so screens show their state plainly here.

The cache is written by others too: by the plugin when it is loaded again and by
a daemon that is being replaced; and a call of the daemon may fail after tmux took
the summary, which is then not remembered. The daemon does not read the line back.
The next summary that differs from the one remembered repairs it, but a line that was
written without the daemon's knowledge (`overwritten`) stays while the daemon renders
what it remembers. `PublishedIsShown` and `LineConverges` except it, and say so.

### Detectors

The rules of `screen_detection.rs` and `screen_detection_tools.rs`, tool by tool
in their order. A line is the set of wordings and marks it contains ("sign" is
Claude's prompt sign anywhere, "prompt" a line that starts with it), so that
"contains any", "the bottom non-empty lines" or "after the last horizontal rule"
are set and sequence operators. A screen is a live form (`Form`s in `MCReaders`:
prompts, dialogs, pickers, transcripts of the three tools) below up to `Height`
lines of conversation and of forms that were answered.

`LiveFormDecides`: the live form decides what is detected, whatever is left above
it, unless the lines above say one of the phrases in `Misleading`. These are the
places where the code looks beyond the live form, rule by rule (`Heard`: what makes a
rule hold that does not hold for the form; `Missed`: what keeps a rule from holding
that does), and only of the rules up to the one that decides. Examples:
* Codex' weak wording ("do you want to", "would you like to") anywhere on the screen
  blocks, unless a stronger rule has decided before; an answer ("yes") above the form
  matters only if the form asks such a question;
* the question of an answered Claude permission hides an MCP task status and a model
  picker, but not an idle prompt box, whose rule comes first;
* a footer counts only in the last 3, 6 or 12 written lines, so lines above matter to
  a form that is shorter (`Within`), and what is looked for after the last rule or
  prompt matters to a form that has none (`After`);
* the line of background agents is not anchored at column zero, so a quoted one
  counts if it is the last above the prompt box.
Much of what could be feared of old text on the screen is thus named and not
excluded: the property says that nothing else matters.

The property depends on `FormsStandAlone`, the module's assumption: alone on the
screen each live form is detected as its `frame`, and the trust question of Codex,
looked for in the first 20 written lines, is among them. TLC evaluates it for the 29
forms of `MCReaders`. Forms that TLC does not know need no more than that: the
theorem of section 4 holds for any.

### OscRelay

The relay of one pane: `OscScanner` byte by byte (`StartOsc`, `PushOscByte`,
`ScanEscape`, `ScanOsc`, `Pushed` are the methods), `forward_reports` (`Read`,
`Push`) and the withdrawal of `relay` (`Withdraw`). A byte is one of those the
scanner tells apart, or a "record", one byte that stands for the text of a
well-formed OSC 7501 body; everything `program_status_request` ignores is a
string that is not a record. `stream` is a history variable, the bytes scanned.

`ReportsExact` compares what was sent with `Contained(stream)`, a definition of
the reports in a text that knows nothing of scanner states: a string from
`ESC ]` to `BEL` or `ESC \`, with no terminator, escape or cancellation within
it, of at most `MaxOscBytes`, that is a record.

### EventRecords

| Model | Code |
|---|---|
| `agents`, `retired` | `StateCenter.agents` of reporting tools, `retired_generations` |
| `mirror` | the options `restore_once` reads |
| `process`, `session`, `started`, `messages` | environment: the process in each pane, its session, requests in flight |
| `ApplyReport`, `ApplyExit`, `ApplySeen` | `apply_report`, `apply_exit`, `apply_seen`, with the pruning and retirement they call |
| `Scan`, `ProcessDeadlines`, `Tick`, `Restart` | `remove_exited_records`, the expiry, time, a new daemon with `restore_once` |

`RetirementIsExact` says, of any step, whose generation becomes retired: that of a
record that disappears by anything but the TTL or a restart, unless the map of retired
generations is full of others retired just now; and nobody else's. `RetiredStayGone`,
`RetiredBounded` and `SequenceOnlyAdvances` say what retirement is for;
`RetiredBounded` is proved and not among the properties of the run.

Messages are a set: any may be handled next, or be lost. A first report that is
delayed until its process is gone and another runs takes over the one record of the
pane, in the code and in the model: the properties hold of that step, and none
forbids it (section 5). Left out: validation
of request fields, and the rejection of requests for another server.

### SourceFiles and SourcePublication

`SourceFiles` is what a reader of the published files relies on: a descriptor and
snapshots that are written, replaced and removed, each time by a daemon whose
server is not older than the owner, with a descriptor naming only a file that
holds a snapshot of the same server. It knows no locks, no checks and no caches.
`SourcePublication` implements it under the refinement mapping `Published`, which
keeps the files and maps the step of each daemon to what it is about (`Mode`);
TLC checks `PublicationImplemented` as a property, and TLAPS proves it.

Daemon *n* serves server *n*; a PID is never reused. Each publication is split
where the code can be overtaken: validate and lock, write the snapshot,
write the descriptor. A daemon may stall at each of these steps, its
server may be replaced, it may crash (the kernel drops its lock), and a file
operation may fail. `faulty` is a history variable: a crash or failure that may
have left files behind.

### DaemonLifecycle

Clients run `ensure_daemon` and `send_request` step by step (`Send`, `Spawn`,
`ConnectionLost`, `ReadTimeout`); daemons run `serve` step by step (`Lock`,
`RemoveStaleSocket`, `Bind`, `LoadConfig`, `Restore`, the loop,
`RemoveSocket`, `Leave`); `Accept` is the acceptor thread. `Turn`, `Receive`
and `Drain` are the event loop and `drain_event_batch`. `since` counts requests
handled since deadlines were last processed. "state" stands for every request
that the event loop handles except `Shutdown`, and "refused" for one that
`read_request` refuses (too long, no JSON, invalid fields): the acceptor answers
it with an error, as it answers `ensure`, without the event loop. A command of a
user may turn out to be refused, a relay's report has been validated. A client that
has started a daemon probes at most `MaxPolls` times. A socket
file outlives its daemon; connecting to it is then refused.

### BulkKill

The picker's script, one action per command whose result the next one relies
on: `Match`, `Confirm`, `Load` (the join of listed rows with the current
state), then for each target `ReadDaemon`, `ReadMirror` and `Kill`, then
`Report` for each killed session. Around it, agents start and end turns, panes
move between sessions, sessions end, and the daemon's records follow later.
`active` stands for working and blocked, `resting` for idle, done and unknown.
A row takes its state from one record of its session, or from the tmux mirror
when the daemon has none. `fresh` is a history variable: the current target
became active after the picker began to read it. `Reported` is one step: a
structured report that is on its way while its session is killed is not modelled.

A target that was *listed* as active stays protected even if its turn has ended
since; the code does this deliberately and so does the model. Left out:
interrupting a pane outside managed sessions, opening targets, history rows.

### Launcher

`scripts/launch.sh`, one action per tmux command that reads or changes sessions:
`HasSession`, `NewSession` (the atomic one), `HasSessionAfterFailure`,
`SetInstance`, `SetHistory`, `Open`; `Launch` is the script up to the first of
them. Sessions end between any two commands. `made` and `lost` are history
variables: which launcher created a session, and whose session has ended since.

`OwnSession`: launchers that race for names tag and resume only sessions they
have created in this launch. It is stated for launchers whose session still
exists. Of one whose agent exited at once, the code makes no such promise:
`has-session -t "=$session"` names its session exactly, but `set-option`,
`list-panes` and `attach-session` use `-t "$session"`, which tmux also takes for
the beginning of a longer name (`Target`). Such a launcher may tag session 10 as
instance 1, or tag a session that another launcher has created under the name
meanwhile. `README.md:17` says that two agents never both show `pi-1`.
`InstanceNamesSession` is what remains of it: a numbered session has its number when
it is opened, unless it ended before; and no session shows a number other than its
own or that of one whose name begins its own. Nobody renames a session here:
neither the script nor an action of the model does, and a user who does by hand is
not modelled.

### History

`records.rs` and `preview.rs`: one pass over the lines of a conversation while its
agent appends to it (`Writes`, `Completes`, `ReadLine`, `EndsFile`), for the three
agents' formats. A line is a record of the fields the code looks at; a last line
may be cut off and completed later, a line may be unreadable (`map_while` ends the
pass there) or no JSON (skipped). The list and the preview, two passes with rules of
their own, are modelled as one pass. A field of a record is absent or one of `Texts`.
`HistoryAssumption` says what the fields of a line are and that Claude's conversation
records of type "user" are those whose message has that role; the title and the
preview take the prompt from one and from the other.

* `HistoryExact`: the metadata are what a definition by first and last lines says.
* `ListedAsShown` relates the list to the preview. A conversation that is listed by a
  prompt is listed by the first message of the user in `Conversation`, the messages
  that its preview is taken from: Codex' events, if there are any, else all other
  messages. It is untitled if these hold none. The exception are Codex' events
  without a message of the user: then the title is a prompt among the responses,
  which are not shown. `Preview` is all of `Conversation`, or its ending of
  `PreviewLimit` messages: of a longer conversation the prompt listed is not shown.

### The composed instances

`MCReaders` (the relay's scanner, the detectors and the history reader) and
`MCScripts` (the picker and the launchers) hold components that do not interact:
each behaviour runs one of them, the others stay in an initial state. They extend the
components directly, whose definitions have names of their own.
`MCPaneStates` and `MCStatusLine` give constants their values.

## 3. The runs

All constants are in the `.cfg` files. Names of bounds are the constants'.

| Run | Instance | Shows |
|---|---|---|
| `panes_confirm` | 1 pane; `Recheck` 1, `Cap` 3, `Interval` 4, `FullInterval` 5, `StateTtl` 6, `Confirmations` 3, any noise, no reports, `MaxRedraws` 3, `MaxFaults` 2, fair | implements `PaneTurns`; type invariant, confirmations (also across reloads, expiry and failures), evidence, rest and work are eventually shown |
| `panes_programs` | 1 pane; reports `working` and `done`, `MaxOutbox` 1, no faults, no TTL, fair | with reports, "done" until seen, relays that die and are replaced, fallback to the screen |
| `status` | 2 panes in 1 window, 2 ticks a second, `interval` 3 and 2, `full` 6, 2 frames and 1, refused options, `MaxEvents` 3, fair | captures, what is remembered as published, convergence of the line |
| `readers` | every output of up to 7 bytes, `MaxOscBytes` 1, reads of 1 or 2; 29 live forms below up to 4 lines; files of up to 4 lines, `PreviewLimit` 2 | exactly the contained reports are sent; the live form decides; metadata, title and preview |
| `events` | 1 tool, 1 pane, 2 sessions, 2 generations, 2 reports each, 2 in flight; both TTLs 1, `MaxRetired` 1, fair | generations, retirement, sequence, forgetting |
| `sources` | 2 servers, 1 file, 2 rows, `MaxChanges` 2, `MaxFaults` 1, fair | implements `SourceFiles`; caches, clean exit, convergence |
| `daemon` | 2 daemons, 2 clients, `ChannelLimit` 1, `BatchLimit` 3, `Stride` 2, `MaxPolls` 1, `MaxCommands` 3, `MaxFaults` 1, fair | mutual exclusion, deadlines, every command ends |
| `scripts` | 2 panes, 2 sessions, `MaxFaults` 1, symmetry (safety only); or 2 launchers, 3 numbered names and 1 reused one, 1 conversation | protection, accounting, forgetting; launchers keep apart, numbers name sessions |
| `panes_completion`, `panes_reflagged`, `events_moved`, `daemon_restart` | smaller instances | the violations of section 5 |

Why the bounds are enough to be of use:
* *One pane.* Handlers of `PaneStates` touch records of other panes only
  through the shared deadlines, and those of `EventRecords` only through the
  bound of retired generations. Two panes were too large for a run; the
  theorems about `EventRecords` hold for any number.
* *Seven bytes* and `MaxOscBytes` 1 hold every way in which one string can end,
  be cancelled, overflow or be abandoned, with the beginning of a next one. The
  theorems hold for any length and limit.
* *Two panes of one window* are what makes the grain of activity matter: one pane
  is drawn, the other is looked at. Two ticks a second put a redraw before or
  after a capture within one second. `MaxEvents` 3 allows a reload, a failure
  and a redraw, in any order and at any tick; ages of activities stop at
  `MaxAge` 3 seconds, above every grace period (assumed by name).
* *Up to four lines above the form*: the detectors look at most that far up for
  the endings of what is below; an answered permission has three lines.
* *Two launchers*, three numbers: the loser of a race finds the next number, and
  what begins with the first is another session's name.
* *Times.* `Recheck < Cap < Interval < FullInterval < StateTtl` in `panes_confirm`, the
  order of the code's defaults (100 ms, 700 ms, 1 s, 30 s and the TTL): a recheck falls
  before a scan, the cap between two, a full scan between others, and a record expires
  last. `Confirmations` has the code's value. The cap releases where captures fail.
  In `panes_programs` all times are 1 and `MaxFaults` is 0, as reports multiply the states:
  failed captures, reloads and expiry are the subject of `panes_confirm`, and with
  reports of the theorems (`PendingBelongs`, `DoneStays`).
* *One poll.* `MaxPolls` 1 lets a client give up after one probe of the daemon it
  started; a further poll is the same step again, from the same state but for a count.
* *One path* for the snapshots of `sources`: what a daemon leaves behind when a reload
  changes its path is left to the theorems, which hold for any number of paths.
* *Four lines of a file* hold a heading, a prompt and two messages more, one longer
  than the preview; the theorems hold for any length.
* *Two generations and two reports of each* are what reordering needs: an old
  and a new process, an earlier and a later report. With `MaxRetired` 1 the
  second retirement evicts the first.
* *Two servers, two rows, two changes*: an old and a new daemon, the unchanged
  and the changed content.
* *Two daemons* compete for the lock. `ChannelLimit` 1 fills with one request
  and blocks the acceptor with the next; `BatchLimit` 3 is not a multiple of
  `Stride` 2, so that both limits are met. A third command finds the channel
  full, or starts the second daemon while the first one stops.
* *Faults*: one crash, failure or refusal at any step; two in the pane runs, so
  that a failed scan can be followed by a reload.

`daemon` and `readers` switch the deadlock check off: when all commands have been
given and no daemon runs, or a reader has returned, the system rightly stops.
Everywhere else it is on.

### Fairness

* `PaneStates`: `Tick`, `ProcessDeadlines` and `ProgramStatus(p)` are weakly
  fair. The event loop wakes at the next deadline or request and reconciles in
  each turn; nothing else is assumed of agents, users or relays.
* `EventRecords`: `Handle` and `Scan`. A request that is lost is lost by
  `MessageLost`, which is not fair.
* `SourcePublication`: each daemon proceeds (weak), and its liveness check
  happens among its turns (strong: the check is due every 60 s, and it is
  possible again and again but not at each step).
* `DaemonLifecycle`: commands, daemons and acceptors proceed (weak), and the
  liveness check as above (strong). The read timeout of a client is *not* fair,
  so `CommandsEnd` holds without its help.
* `StatusLine`: `Tick` and `Turn` as above; a daemon that stopped is started by
  the next `ensure` (every command of the plugin probes), and a reload that was
  sent arrives. Redraws, failures and changed options are not fair.
* `readers` and `scripts` check safety only.

## 4. The proofs

TLAPS checks each theorem for every value of the constants that satisfies the
module's assumption. Each proof module has an inductive invariant `IInv` whose
parts are named, one lemma per group of actions that preserves it, and a last
temporal step.

* `PaneStates_proofs`: `TypeCorrect`, `PendingBelongs`, `HeldRechecked`,
  `ConfirmationsAreEnded`, `DoneStays`, `ReleasedOnEvidence` and, if there are no
  reports, `AnnouncedAtMostOnce` and `TurnsAreShown`. The confirmation counts and ages are the
  code's own bookkeeping; `ReleasedOnEvidence` is about what the captures have
  shown, which only `StreakCovers` relates to it: a held confirmation never
  claims more or older idle captures than there were in a row. It needs
  `DroppedWhole` (a dropped confirmation keeps no count) and
  `PendingBelongsToWorking`. `ConfirmedCases` lists what a scan may do to a
  confirmation, and the rest is one lemma per group of steps. `OwedInv` carries
  the last two theorems: an active record means a turn that is on or not announced.
  `TurnsAreShown` is the refinement of `PaneTurns`: `ActsRefines`, `OpensAndCloses`,
  `TickRefines`, `ExpiryRefines` and `ScanRefines` map the steps by the table of
  section 2. Steps that write a record leave none that is stale (`RenewedIsFresh`:
  the age starts again or is not yet over). The heart is `RecordedIsView`: whatever
  frame a scan captured, held back or missed, the record it leaves is one the
  agent's doings allow; and `IdleIsOver`, for which `OwedInv` is needed: a screen
  that shows an idle agent below an active record means a turn that ended and was
  not announced, since otherwise "done" would be announced without cause.
* `EventRecords_proofs`: `TypeCorrect`, `OneRecordPerPane`,
  `RetiredNeverReturn`, `RetiredAreBounded`, `SequencesAdvance`,
  `RetiredExactly`. `IInv` adds that a generation is remembered once
  (without it, pruning the oldest could leave a second entry) and that a closed
  pane has neither a process nor a mirror. The work is in `Retiring`, a choice
  among the sets that eviction may leave, which the lemmas bound; for
  `RetiredAreBounded` they count it, with the finiteness of records and panes.
  `SequencesAdvance` compares records of two states by their key: since a key names
  one record (part of `IInv`), a step that relabels records (`Scan`, `ApplySeen`,
  `Tick`) is in order if each comes from one that says the same
  (`RelabelledAdvance`), and a report passes only if it is newer.
* `SourcePublication_proofs`: `TypeCorrect`, `CacheIsAlwaysTrue`,
  `NothingIsLeft`, and `ImplementsSourceFiles`: initial states map to initial
  states, and each step to one of `SourceFiles` or a stutter (one lemma per
  action that changes a file, one for all that only move on). `IInv` says that whoever is in a critical step
  holds the lock (`LockHeld`), that files never belong to a server that has not
  started (`NotYetStarted`, `OwnersPast`), that what a daemon remembers fits its
  configuration (`MemoryFits`), that it is in the file until its server is
  replaced (`CacheHolds`), and that it knows of every file it owns unless a
  fault occurred (`OwnFilesKnown`). The validation under the lock is the heart:
  while a validated daemon holds it, the owner of a file can only be an earlier
  server or itself, and a daemon that writes the descriptor has the snapshot it
  names in place.
* `DaemonLifecycle_proofs`: `TypeCorrect`; `OneReachable` from `StageType`, `HoldersLock` (a
  daemon past `Lock` holds it) and `ListenersBound` (a listening daemon is the
  one the socket leads to). `DeadlinesAreMet` from `LoopInv`, which relates
  `since` to `index % Stride`; three lemmas about `%` carry it.
* `Scripts_proofs`, about `BulkKill`: `TypeCorrect`, `OkComplete`, `OkForgotten`,
  `TurnsSurvive`, `AbortEnds`. `IInv` ties the current target to the stage
  (`TargetInv`), says that matched sessions are always partitioned among left,
  current, killed, skipped and failed (`AccountInv`), that a killed session is
  gone and unrecorded once reported (`GoneInv`), and that a target whose
  reading is over was resting then unless it is `fresh` (`FreshInv`).
  About `Launcher`: `LaunchersKeepApart` and `LauncherTypeCorrect`. A session that
  exists has been made by one launcher only (`MadeInv`), since new names are free
  ones; from tagging to opening a launcher has its pair in `made` unless it is in
  `lost` (`HoldsInv`); and only numbered launches resume (`ResumeInv`).
  `InstancesNameSessions` needs `Numbered`, that a launcher past `SetInstance` has marked
  its session: the command found that session and no other, since by `LauncherInv` it
  was there, and whoever marks it later gives it a number too.
* `StatusLine_proofs`: `TypeCorrect`, whose heart is that the frame stays within
  the current list of frames and every wait within the current intervals, through
  reloads and refused options; `RememberedIsShown`; and `RedrawsAreCaptured`, for
  any interval, clock and number of panes in a window. `GraceInv` says that a pane
  drawn since the last scan was drawn within the time that the scan's grace period
  will look back, if the scan comes when it is due and no reload or failure came
  between. A tick adds at most a tick to what an age in whole seconds and the phase
  of the second stand for (`SecondsPass`), so the second in which a pane was drawn
  is late by no more than the grace allows for.
* `Readers_proofs`, about `History`: `OnePassIsExact` and `TitleIsShown`, for lines of any
  `Texts`, files of any length and any preview limit. `HistoryExact` speaks of the first
  and last lines of a kind, the reader keeps or replaces fields as it goes. `HistoryInv`
  says that the fields are at each line what the lines read so far give, and that the
  first message of the user, among the events and among the other messages, is the
  prompt kept for each (`OpensPreview`): this relates the title to the preview, whose
  messages are another reading of the same lines. A line is such a message exactly if
  it says a prompt (`EventSays`, `OpensWith`); what `Conversation` opens with follows
  (`FirstShown`), and that the preview is its ending (`PreviewIsEnding`).
  One lemma per agent (`PiKeeps`, `CodexKeeps`, `ClaudeKeeps`) says what a
  line does to the fields, and that a line that was cut off does nothing
  (`CutSaysNothing`). What a first and a last position become with one line more is
  `FirstStep` and `LastStep`, from the well-foundedness of the naturals.
  About `Detectors`: `LiveFormAlwaysDecides`, for any live forms that satisfy
  `FormsStandAlone`, any conversation and any height. The invariant (`Screenful`) is
  small; the work is in the rules, which are functions of a screen of any length. For
  each part of a screen that a rule looks at there is a lemma that says how it is made
  of the lines above and the form: it ends with what that part would be of the form
  alone, below lines without the phrases in question (`ScreenBelow`, `AfterBelow`,
  `BottomBelow`, `TopBelow`), or is the same (`BodyBelow`, `BoxBelow`) or says the same
  (`AboveBoxBelow`, `McpTaskBelow`). The bottom and the top lines are cut by counting,
  so their lemmas compare cardinalities (`ShiftedCount`). It follows what is said there
  (`Keeps`, `Returns`), and so, one lemma per rule, that a rule that holds above the
  form holds for it (`Heard`) and the reverse (`Missed`). `SameOutcome` is the order of
  the rules: the first that holds is the same.
* `OscRelay_proofs`: `TypeCorrect`, `ExactReports`. `ScannerOf` says where in
  the output the scanner is: it is after an ESCAPE exactly if the last byte is
  one, within a string exactly if one is `Open` at the end of the output, and
  then it `Keeps` that string's bytes or knows that they are too many.
  `OpenAfterEnder` and `OpenAfterOther` say what a further byte opens and closes,
  `PushedScanner` that the scanner follows, and `ContainedAfter` that the byte
  adds to the contained reports exactly what the scanner sends for it.

### Only model-checked

* that instances of `PaneStates` with reports keep a completion or announce it
  once: they do not (section 5);
* `FormsStandAlone`: that the forms of the three tools are detected as they should
  when alone is evaluated for the forms of `MCReaders`;
* that an announcement is not early: a redraw that outlasts the confirmations is
  taken for the end of a turn, by design;
* all liveness: fairness and ENABLED are out of the prover's reach;
* the violations.

## 5. Where code and documentation disagree

Each is a run that TLC finds violated; `PROJECT.json` quotes the lines.

* `panes_completion`: an `idle` report handled before the next scan drops the
  completion of the `done` report before it. The turn is never announced.
* `panes_reflagged`: a `done` report that arrives after the screen announced the
  same turn is not consumed by `seen`, and the next scan announces it again.
* `events_moved`: a pane leaves a session that is killed before the next scan;
  the exit of that session retires the process that still runs in the pane.
* `daemon_restart`: after `shutdown`, `ensure` is still answered by the daemon
  that is leaving, and no new one is started.

Seen while modelling, without a line of the repository that says otherwise:
* the delayed first report of an exited process replaces the record of its
  successor in the pane, since `remove_reused_pane` compares no generations;
* a status line overwritten by another process, or by a call that the daemon takes for
  failed, stays while the daemon renders the summary it remembers (`StatusLine` above);
* Codex' events without a prompt hide the responses that give its title (`History` above);
* a `Snapshot` response of more than 64 KiB is not sent and its error is ignored;
  only `Inspect` checks the size first (`main.rs` 353-363, 391);
* the targets of a launcher whose session has ended (`Launcher` above).

## 6. What is not modelled

* Wordings character by character, spinners, case folding; the fields of an
  OSC 7501 record.
* Which fields of a request are valid; JSON, permissions, paths; sizes of
  messages beyond "refused".
* Parsing of `list-panes` and of the process table, by which a pane's agent is
  found: `Resolved` says whether one runs.
* The agent registry and menus of the launcher, badges and lists, finding and
  sorting of history files.
* The order of equal rows, layout, wording.

## 7. Plan

Done, in this order: `PaneStates` (the heart of the daemon), `EventRecords`,
`SourcePublication`, `DaemonLifecycle`, `BulkKill`, `OscRelay`, `StatusLine`,
`SourceFiles`, `Detectors`, `History`, `Launcher`, `PaneTurns`, and proofs: every
safety and action property that a passing run checks is a theorem. Next:

1. A specification of one command's promise (a daemon that answers, or an error),
   implemented by `DaemonLifecycle`.
2. `PaneTurns` with reports: what remains true when a completion may be lost or
   repeated (section 5), as an invariant that can be proved.
3. Jumping and opening from the picker (`scripts/picker/actions.sh`), with the
   popup's client and the seen reports it sends.
