# A TLA+ verification of ccs-trans

ccs-trans is a local proxy that rewrites LLM API requests and forwards them to
an upstream. This directory models the parts of it that are hard to test: the
configuration repository with its crash recovery, the server with its threads,
sockets and memory budget, the upstream transports, the logger, the chain from
the tray to the running service, the session between the tray and its window,
and the editing of a configuration through the window, the tray and the command
line.
TLC checks the models on small instances; TLAPS proves every safety property of
every passing run for all instances.

    tlc -workers 2 -config RepositoryCrash.cfg MCRepository
    tlapm CompositeRepositoryProofs.tla

`PROJECT.json` lists components, runs, mutants, findings, hazards and theorems,
and maps every definition to the source lines it stands for.

## 1. Inventory

Paths are relative to `src/src`.

| component | state it keeps | operations | hard because |
|---|---|---|---|
| configuration repository (`config/composite_config_repository.cpp`, `storage/sqlite_profile_store.cpp`) | `config.json`, `profiles.db`, journal directory, `profiles.db.migrating`, backups; `snapshot_`, `loaded_` | load, inspect, verify, save, save_snapshot, migrate_v2, recover_locked | two files must change as one under crashes, I/O failures, several processes and edits by hand |
| configuration editing (`config/configuration_editor.cpp`, `config_editing_service.cpp`, `field_descriptor.cpp`) | a draft and the revision it was made from | begin, edit, discard, commit | the draft is stale when committed |
| server (`server/server.cpp`, `server/platform`, `core/inflight_memory_budget.cpp`, `core/cancellation.cpp`) | queue, counters, worker threads, client registry, monitor entries, leases, generation | accept, admit, reject, handle a request, cancel, reload, stop | reused descriptor numbers, condition variables, stop at any time, memory given back on every path |
| service control (`app/app_service.cpp`, `app/application_controller.cpp`) | service state, snapshot, server thread, startup result | start, reload, stop, shutdown, status | restart with rollback against a server that ends by itself |
| tray host (`hosts/windows/tray`, `app/control_executor.cpp`) | task queue, pending flags, window messages, exit flags | post command, poll status, maintenance requests, exit | everything waits for everything at the exit; bounded queue |
| main window view model (`presentation/main_window_view_model.cpp`) | draft, command state, published state | submit, execute, publish, stop | commands run later than they were decided |
| GUI session (`hosts/windows/gui_bridge`, `gui_ipc`, `gui_session_controller`, `gui_process_launcher`) | session phase, outbound queue, request ids | launch, handshake, route a command, publish state, shut down | reliable messages and merged snapshots share one bounded channel |
| Qt client (`gui/windows`) | state store, pending command, a buffer per editor | connect, dispatch, apply a snapshot, type, save, reset | snapshots and answers arrive while the user types |
| maintenance endpoint (`hosts/windows/maintenance`) | one pipe, one client | query_version, request_shutdown, wait_for_release | answers while the process is exiting |
| upstream transport (`transport`) | request handle, timers, cancellation, lease; pool of libcurl handles; session of the system proxy | send, receive, time out, cancel, republish the proxy | callbacks race with timeouts and cancellation; waiting for a handle |
| logger (`logging/logger.cpp`) | bounded queue, active file, numbered archives, failure | log, drain, write a batch, rotate, prune, compact, scan, close | backpressure, failures and crashes between two files |
| request rules, routing, protocols (`rules`, `routing`, `protocols`, `config/runtime_compiler.cpp`) | none | compile, match, rewrite | rewriting of arbitrary JSON in order |
| configuration documents, command line, macOS hosts | | parse, validate, print, draw | |

How they interact. A host process (tray, menu, command line) opens the
repository, compiles what it loads into a runtime snapshot and hands it to the
ApplicationController, which owns one AppService, which owns one thread running
`Server::run`. User commands reach the controller only through the
ControlExecutor, one worker over a bounded queue; results come back as window
messages. The main window is another process on Windows; its commands come in
over a pipe to the view model, which posts to the same executor. Repository
clients in different processes share nothing but the files and a lock file.

What makes each part correct:

* repository: the pair of files is one register; a save from a stale revision
  is refused; nothing a migration replaces is lost; every interrupted
  transaction is finished or undone; bytes nobody read are not overwritten;
* server: every socket is used and closed by its owner, every byte leased is
  given back, no queued connection sleeps beside an idle worker, a disconnect
  cancels its own request, a stop ends;
* service control: status, snapshot, listener and thread agree; a failed reload
  leaves the old configuration or none;
* tray: every command is answered, a dead server is noticed, an exit ends the
  process with nothing left running;
* GUI session: the window shows states that existed and catches up with the last
  one, an answer belongs to its request, a crash of the GUI stays in the GUI, an
  exit gets past the session;
* editing: what the user typed and what the draft of the tray holds is lost only
  when the user gives it up; editors that look clean are current; a service that
  runs something older than what was saved is said to;
* transport: one true outcome per request, leases exact, no request waits for
  ever; logger: an acknowledged record stays until retention, what is lost is
  reported, no caller is held.

## 2. Modules

| module | models | state |
|---|---|---|
| `RepositoryData` | the two documents | constants only |
| `ConfigRegister` | what the repository promises: one register with compare-and-set | `reg`, `base`, `edits` |
| `CompositeRepository` | `CompositeConfigRepository`, the schema step of the SQLite store, recovery, clients with drafts | the disk, the call in progress, memory of each process |
| `Server` | `Server::run`: acceptor, queue, workers, registry, monitor, budget, reload, stop | threads as program counters, a descriptor table |
| `ServiceControl` | ApplicationController, AppService, the server thread seen from outside | status, service, thread, command in progress |
| `TrayHost` | EXTENDS `ServiceControl`: tray UI thread, ControlExecutor, view model, maintenance requests, exit | task queue, window messages, pending flags |
| `Logger` | `Logger` and `FileLogSink`: callers, writer thread, rotation, retention, compaction, opening | the directory, the sink, the queue, threads as program counters |
| `WinHttpTransport` | one request of `WinHttpTransport::forward_streaming` with its deadlines and cancellation | request thread, handle, timers, upstream |
| `SystemProxyWatcher` | the watcher of the system proxy settings (`WinHttpTransport::Impl`) | settings, notification, published session |
| `CurlTransport` | requests over the pool of libcurl handles (`curl_transport.cpp`) | pool, one `RequestContext` per request |
| `GuiSession` | GUI bridge, session controller, launcher, and the client, state tracker, dispatcher and window lifecycle of the Qt process | view model revisions, three threads of the tray, channel, pipe, GUI process |
| `ConfigurationEditor` | the operations on a draft, their validation, rule text | constants and operators only |
| `MainWindowViewModel` | EXTENDS `ConfigurationEditor`: commands on the shared draft, the files, the service, the command line, the menu | files, draft, runtime, published view, executor |
| `QtClient` | EXTENDS `MainWindowViewModel`: the editors of the Qt client and the prompts around them | copy of the view, command under way, a buffer per editor |
| `Sums` | sums of bytes and leases | |
| `CompositeRepositoryProofs`, `ServerProofs`, `TrayHostProofs`, `LoggerProofs`, `TransportProofs`, `GuiSessionProofs`, `QtClientProofs`, `SumsProofs` | theorems and lemmas (section 4) | |
| `MCRepository`, `MCServer`, `MCTrayHost`, `MCLogger`, `MCTransport`, `MCGuiSession`, `MCQtClient` | instances for TLC; `MCTransport` also puts the three transport machines into one specification | |

### Repository

An operation takes the repository lock before its first read and keeps it until
it returns (`RepositoryLock`), so one call is in progress at most: `lock` names
its process, `pc` its next step, `then` the place recovery or `clear_journal`
returns to, `err` the result. A step is one durable effect with the reads and
tests after it up to the next effect; a crash between two reads equals a crash
before both. `Crash` may come before any step; every write has a failing twin
(`SaveOneFails`, `CommitDbFails`, ...), which leaves the effect done or not done
where the code cannot know. `Logical` is what the next completed recovery would
leave; it is the refinement mapping of `ConfigRegister`.

| code | actions |
|---|---|
| `load`, `inspect_storage`, `verify_migration` | `Load`, `Inspect`, `Verify`, then `LoadBody`, `InspectBody`, `LoadReady` |
| initialization of a fresh directory | `InitJournal` ... `InitSchema`, `InitUndoDb`, `InitUndoConfig` |
| `save_snapshot`, `save`, editor | `BeginEdit`, `SaveSnapshot`, `SaveDocument`, `SaveReady`, `SaveOne`, `CommitJournal` ... `CommitUndo` |
| `migrate_v2` | `Migrate`, `MigrateBackup` ... `MigrateMove` |
| `recover_locked`, `clear_journal` | `RecoverNothing` ... `RestoreConfig`, `ClearMigrating`, `RemoveFiles`, `RemoveJournal` |
| a lock that is taken, return, death, the user | `Busy`, `Return`, `Crash`, `EditConfig` |

Abstractions. A document is its schema, settings, embedded profiles and whether
the user formatted it; a database is its revision, profiles and migration origin.
A SHA-256 stands for the bytes. Once revision and origin agree a database hash
only tells profiles apart. `inc` numbers database files so that properties can
tell apart files of equal contents; the code compares contents, and `inc` only
stands in where a journal names its backup by path. Left out: `-wal`/`-shm` files (the code
checkpoints before it moves or hashes), permissions, temporary names, validation
of the edited document (before the lock, changes nothing). Assumed: SQLite
commits atomically and a failed COMMIT rolls back; replacing a file by rename
is atomic; the user edits `config.json` only between two operations (the code
cannot exclude an edit between its read and its write).

### Server

Descriptors are numbers that `owner` maps to a connection, to `Other` (a file of
another part of the process) or to nothing; queue, registry, monitor and workers
keep numbers, so a stale number is visible. Workers go through `wpc`: check,
wait, read, recv, parse, process, forward, deliver, reply, close, account. The
monitor has three steps, as in the code: copy the entries under its mutex, poll
the copied numbers, cancel the sources of the copy; requests begin and end in
between. Memory is counted in buffers. What routes, rules and upstream compute
is a choice; upstream may answer at any time or never. A connection beyond the
limit is rejected (`Reject`) and drained by the acceptor, which ends when the
client leaves (`DrainEnds`) or has been silent for 250 ms (`DrainSilent`); a client
that keeps sending is the behaviour in which `DrainSilent` is never taken. Assumed:
one request per connection without further bytes (`poll_disconnected` peeks at one
byte and misses a client that left with unread ones), a shut-down socket wakes its
`recv`. The failure to create the acceptor or the first worker before serving is
left out.

### Service control and tray

`command_mutex_` serializes the controller's calls, so `cpc` is the step of the
one command in progress and `call` its locals; the server thread (`srv`) moves on
its own and shares `svc` with it. A configuration is a pair (`topo`, `gen`): a
reload with equal `topo` swaps the generation, another one restarts the server
and rolls back if that fails. `Load` may return any stored configuration, as
the files can change between two commands, or fail. `Server` guarantees that a
stopped `run` returns unless a rejected client sends for ever (`StopCompletes`);
`ServiceControl` relies on it as the fairness of `ServerStep`, so `CommandAnswered`,
`EndNoticed` and `ExitCompletes` assume that no such client is there.

In `TrayHost` the UI thread is `ui`, the executor's worker `running`, the window
messages `inbox`. The tray starts with a status and a start task queued, as its
constructor posts them. Assumed: window messages arrive in order while the
window exists; the shutdown of the GUI session ends (it has a time limit in the
code). `LoopFails` is the failing `GetMessageW`, after which only destructors
run. The command line, which drives AppService without a controller, is not
modelled, and AppService's refusal to start twice is unreachable here.

### Logger

A record is its number and the size of its line; files are sequences of records,
and `flushed` tells how many of the active file's have left the stream buffer. A
call goes through `admit`, waits for space, is queued, and for an error record or
a drain waits for the flush. The writer takes the queue, writes record by record
with rotation and pruning between two writes, flushes, and publishes the numbers.
Opening is one step per system call with an effect: scan, compaction of an
oversized active file (copy, replace), prune. `SinkFails` is any failing system
call of the writer, `SpillFails` the failing flush of a line that is already in
the stream, `OpenFails` a failure of the opening; `SegmentCap` stands for the
largest segment (128 MiB); `Crash` keeps a prefix of what was
buffered. A power failure is not modelled: the code never syncs to the device. As
the code does, a compaction under a smaller total may drop a record larger than
the total although older archives stay for the pruning that follows; `cut` marks
such records for `RetentionOrdered`.

### Transports

A process has one of the two transports. On Windows the request thread makes
synchronous WinHTTP calls; total, header and operation deadlines and the
cancellation callback run on other threads and may close the handle under it.
A call on an open handle may block for ever. On macOS each request thread polls
libcurl and checks token and deadlines itself; libcurl's callbacks for progress,
header lines and body pieces are actions and may come in any order libcurl
permits. `MCTransport` starts one machine per behaviour with the others ended.

### GUI session

UI thread, accept thread and writer of the outbound channel are program counters
(`ui`, `acc`, `writer`); the pipe is two bounded sequences. A state of the view
model is its revision, its pending flag and the number of the last command, enough to
tell a delta from a snapshot and a completion from a state. `OpenWindow` launches
or activates, `CloseWindow` and `GuiCrash` end the GUI, the tray's exit goes
through `wait`, `StopServer`, `CancelAccept` and the joins. Two threads in
`writer_.join()` are `JoinsTwice`, after which the tray is gone (`ui = "crashed"`);
`GuiCatchesUp`, `CommandAnswered` and `ShutdownCompletes` are stated up to that
state, which has its own run.

### Editing

`ConfigurationEditor` has the operations as operators from configuration to
configuration or `Refused`. Two settings that are validated together stand for
the application settings, `path` for the optional fields of a profile. Rule text
is its rules and its layout (foreign line ends, as typed, canonical). In
`MainWindowViewModel` a command computes the views it publishes, and each
publication is a step, because `GuiOutboundChannel` reads the state when it
writes it: a client may be shown any of them. The files are one atomic pair with
a revision, as the refinement of `ConfigRegister` permits. `QtClient` has the
buffers of the rules editor and of the two field editors with their revisions and
`await` flags; prompts are guards, and a confirmed prompt is where the user gives
input up. The connection does not fail here; `GuiSession` has that.

Three variables are ghosts. `typed` is what the user typed and has not saved as
typed: the text of the rules, and per field its value, the profile it was typed for
and whether a save sent it while its editor still awaited the snapshot of an earlier
one (`resent`). `begun` is the draft as it was begun; `saved` the revision the
window saved last.

What the model shows besides the properties: text typed while a selection, a
creation or the Apply of a new profile is under way is replaced when the
selection changes; a profile created in the window cannot be selected, saved or
removed until it is applied; a Reset between the answer of a save and its
snapshot leaves the old text flagged as an edit; a reload of the service from the
tray menu leaves "saved, not yet running" on display.

## 3. Runs

| run | instance | shows |
|---|---|---|
| `repository_crash` | 1 process, 2 settings, 2 profile lists, 2 faults, 2 edits, 2 database files, revision 2 | the files implement `ConfigRegister`; what a save reports is true; journals stay resolvable; originals are kept; replaced databases and unread edits are respected (`DataRespected`); every call returns and every whole transaction is resolved (`RecoverySettles`) |
| `repository_race` | 2 processes, 1 fault, 1 edit | no update is lost, no load returns a mixed pair |
| `server_serve` | 2 connections, 2 numbers, 2 workers, limits 1 and 2, 2 buffers, 1 reload, 1 foreign descriptor | types, sockets, memory and counters (`ResourcesAccounted`), wake-ups, closing and cancelling, during service and stop |
| `server_stop` | 2 connections, 2 numbers, 1 worker, limits 1 and 2 | a stop ends `run`; a disconnect frees its worker; both unless a rejected client sends for ever |
| `tray_host` | 3 configurations, 2 user commands, queue of 2 | status, configuration and thread agree; shutdown is final; release_ready is true; failed reloads keep the configuration |
| `tray_live` | 2 configurations, 1 user command | commands are answered, ended threads joined, exits complete |
| `logger` | 2 threads, 3 records of sizes 1 and 3, queue of 2, totals 1 and 4, 2 openings, 1 crash or failure | acknowledged records stay, order and bounds of the files hold, loss is reported, calls return |
| `transport` | one WinHTTP request with 3 bytes; 2 changes of the proxy; 2 libcurl requests over 1 handle | outcomes are true, leases exact, requests end, the proxy is followed |
| `gui_session` | queue of 2, pipe of 1, six scenarios of commands, menu, crash, restart, exit and stranger | states are true, answers fresh, the window catches up, commands are answered, the exit completes |
| `editing` | 2 profiles, 1 rule, 7 scenarios of up to 4 commands with typing, faults, menu and command line | input and drafts are kept, field editors are current, a pending runtime is shown |
| `client_abort`, `gui_crash` | small | documented claims the code does not keep (section 6) |

Further configurations end with a counterexample each; section 6 explains them:

    tlc -config FreshStart.cfg MCRepository      # FreshStartRecoverable
    tlc -config ForeignConfig.cfg MCRepository   # ForeignConfigKept
    tlc -config StaleToken.cfg MCRepository      # StaleAlwaysDetected
    tlc -config DrainHolds.cfg MCServer          # StopAlwaysCompletes
    tlc -config ProxyWatch.cfg SystemProxyWatcher # SettingsPublished
    tlc -config RulesStale.cfg MCQtClient        # RulesEditorCurrent
    tlc -config MixedProfile.cfg MCQtClient      # ProfileEditorOfItsKey
    tlc -config DraftLost.cfg MCQtClient         # ReloadIsExplicit
    tlc -config InputLost.cfg MCQtClient         # FailedSaveKeepsInput

Every property of a passing run has a mutant: a plausible bug in one definition
under which TLC finds the property violated.

Why the bounds are enough. Repository: two faults let recovery itself crash or
fail and be recovered again; two edits let the user replace `config.json` and
put the journal's bytes back; two database files are a migration that replaces
one; three documents (v2, v3 formatted by hand, unparsable) reach every branch
on the schema; a revision of 2 gives a save after a save. A race needs two
processes and the second process is the stale one, so the fault and edit budgets
can be smaller there. Server: two connections over two numbers give reuse of a
number by a connection and, with one foreign descriptor, by another file; two
workers with a prewarm of one give growth, waiting and a missed notification;
limits 1 and 2 give rejection and a limit lowered below what is open; two
buffers give a full budget. `server_stop` has one worker, so that with limit 2 a
queued connection waits for it while it is blocked, and with limit 1 a rejected one
is drained meanwhile, which are the difficult cases for a stop; it has no foreign
descriptor (with limit 1 it passes with one too, in a longer run). Tray: a queue
of two is full with one command and a status poll, so every rejection happens,
in `tray_host`; one user command besides the automatic start is enough for each
liveness property, because commands do not wait for one another except through
the queue.

Logger: three records of two sizes over a queue of two and segments of one or two
give backpressure, an oversized record, rotation, pruning and a compaction at an
opening with the smaller total; one fault can come at each of these places.
Transport: three bytes and reads of two give a full and a partial read and a body
over the limit of two; two requests over one handle give one that waits; two
changes of the proxy give one while the first is being published. GUI session:
a queue of two is full with an answer and a snapshot, a pipe of one message makes
the writer block; the scenarios separate what one behaviour would multiply: a
command against the menu's, two commands, a crash, two processes in turn, an exit
against a crash, a stranger against an exit. Editing: a save against its
snapshot needs two edits and two commands, an Apply against the command line
three commands, a second save against the snapshot of the first three edits and four
commands; each scenario allows the commands that meet the same state. The scenario
that selects and creates profiles saves no fields, which would meet a finding of
section 6.

Deadlock is not checked: processes end, `run` returns and an idle server waits
for clients. What must not stop is stated as liveness.

Fairness. Repository: a process that holds the lock runs on or dies, and some
process loads or inspects again (every start and every command does). Server:
acceptor, each worker, monitor and the stopping thread run on; nobody has to
connect, send or answer, and a rejected client need not fall silent: `DrainSilent`
has no fairness. `server_stop` needs no fairness of upstream: the close
of the client's socket ends the request. Tray: UI thread, executor and server
thread run on and the status timer fires; users and failures are free. Logger:
threads run and system calls return; nobody has to log. Transport: a WinHTTP
call on an open handle owes nothing, except that sending has time limits of its
own; timers fire; a libcurl thread runs, and a deadline that is checked again and
again is found passed in the end (strong fairness, since callbacks may move the
request in between). Upstream and clients owe nothing. GUI session: the threads
and both event loops run, the status timer goes on, a client that is turned away
leaves; users and crashes owe nothing. Editing has safety properties only.

Scope of some properties. `NoLostUpdate` is about `save_snapshot`, from one
database file; `save(ConfigDocument)` is a finding. `EditsRespected` (in
`DataRespected`) excepts recovery from a database replacement backup (a finding).
`TransactionResolved` (in `RecoverySettles`) speaks of whole journals (a finding).
`StopCompletes` and `DisconnectReleases` except a rejected client that sends for
ever (`HeldByClient`, a finding): the second one too, because after a stop the number
that the monitor polls may have become that client's, and the monitor then sees an
open socket. `DisconnectReleases` depends on the assumption that clients send nothing
after their request. `ShutdownCompletes` begins with the wait of the exit; the join
of a writer by `request_shutdown` that finds the queue full lies before it.
`ProxyFollowed` excepts a change before the first notification (a finding), and
`FieldEditorsCurrent` has no counterpart for the rules editor (a finding). It excepts
an editor typed into since the last snapshot: a field that is typed back to the value
the editor last took over counts as clean although the view may have moved on.
`InputKept` excepts input sent while its editor awaited an earlier snapshot, and does
not count input typed while a reload of the draft is under way, whose answer resets
the editors (a reload may overwrite input, docs/Planning-0.8.0.md:261).
`DraftNotLost` excepts rules that a refused format left in the draft. The first
exception and the last are findings; without them the properties are
`FailedSaveKeepsInput` and `ReloadIsExplicit`. `HandlesOwned` speaks of the time before
`close_all`: while the server stops, a worker may still send on a number it no
longer owns; `ClosesOwnOnly` has no such exception.

## 4. Proofs

Eight modules hold proofs. All constants are arbitrary: any number of processes,
connections, descriptors, workers, threads, requests, commands and clients, any
sizes, capacities and bounds on behaviours. The only assumptions are the named
`ASSUME`s of the modules (bounds are naturals, limits that the code validates are
positive, `None` and other marks are not data), which TLC evaluates in every run.

| module | theorems | inductive invariant |
|---|---|---|
| `CompositeRepositoryProofs` | `RepositoryInvariant`, `RepositoryTypeCorrect`, `RepositoryJournalResolvable`, `RepositoryOriginalsRetained` | `IInv` |
| | `RepositoryWorkingState`, `RepositoryImplementsRegister` (the refinement), `SaveOutcome`, `NoUpdateIsLost`, `ReadsAreCommitted`, `DataIsRespected` | `IInv /\ PInv` |
| `ServerProofs` | `ServerInvariant`, `ResourcesAreAccounted`, `NoWakeupIsLost`, `ReturnIsClean`, `ClosesItsOwnOnly`, `CancelsItsOwnOnly` | `ServerInv` |
| `TrayHostProofs` | `HostInvariant`, `StatusIsTruthful`, `ShutdownIsFinal`, `FailureKeepsTheConfiguration` | `HostInv` |
| `LoggerProofs` | `LoggerInvariant`, `AcknowledgedIsDurable`, `RetentionIsOrdered`, `StorageIsBounded`, `NoLossIsSilent` | `LogInv` |
| `TransportProofs` | `LeaseIsExact`, `OutcomeIsTruthful` | `TransportInv` |
| `GuiSessionProofs` | `SessionInvariant`, `StateIsMatched`, `AnswersAreFresh` | `SessionInv` |
| `QtClientProofs` | `EditingInvariant`, `InputIsKept`, `EditorsAreCurrent`, `PendingIsTruthful`, `DraftIsNotLost` | `IInv` |
| `SumsProofs` | lemmas about sums, used for bytes and leases | |

Every theorem but the invariants states a property that a run checks, so that the
run shows it on an instance and the theorem for all. Each invariant was checked
with TLC before it was proved. A specification with fairness is used through its
safety part.

**Repository, recovery.** `JournalResolvable` is not inductive. A step that commits
to the database or removes a file is justified by what earlier steps of the same
call wrote, so `IInv` adds `Control` (which registers and files each program
counter may rely on), `Underway` (the journal on disk is the one of the step in
progress and its old end is the database of now) and `DiskInv` = `Origins` (every
origin on disk is backed up) /\ `Sound` (what each kind of journal records; an
unreadable database occurs only under an initialization journal) /\
`JournalResolvable`. The argument has one lemma per action: an action that writes
`db` moves it from the journal's old end to its target or back; one that writes a
journal records the database of now; a crash only resets the registers, on which
`DiskInv` does not depend; an edit changes `config.json` and `edits`, which the
clause on `config.json` reads.

**Repository, register.** That the disk is always recoverable does not say what a
client is told. `PInv`, invariant relative to `IInv`, adds what the journal names as
the two documents (`Recording`), where `config.json` stands at each step
(`Position`), that a save works from the files its token was checked against
(`SaveBase`), which database a migration replaced (`Replacing`), that a file number
and revision identify the profiles of a database among all that processes still
hold (`Versions`), and what a returned result means (`Outcome`). The refinement
follows step by step: `Logical`, what recovery would leave, changes in exactly one
step of a transaction, the one that completes its second document, and there it
changes as `ConfigRegister` permits. One case needs care: a migration that replaces
a database by an equal one matches both ends of its journal, and recovery undoes it
although it was complete; nothing a client can see depends on it.

**Server.** `ResourcesAccounted` needs to know where each connection is: `Places`
(in one of backlog, hand, queue, worker), `Descriptors` (whose number each is and
that the registry holds nothing else), `Memory` (the budget is the sum of the
leases, and only connections in service have one), `Watched` (entries, the
monitor's copies and its verdicts name requests that were parsed, and keep naming
them although their numbers are reused). `ClosesOwnOnly` and `CancelsOwnOnly` are
action properties that follow from it.

**Tray.** `AtStep` says for each step of a command which of status, snapshots,
listener and thread agree; `ExecutorInv` and `DrainInv` connect the queue to the
exit of the UI thread.

**Logger.** Files, queue and batch hold consecutive numbers (`Catalogued`,
`Numbered`, `Ordered`, `Frontier`); what is counted as flushed is on disk or retired
(`Durable`, `WriterDurable`); the sums kept are those of the files and of the queue
(`SinkSums`, `QueueSums`).

**Transports.** A context keeps lease = header + body through every callback, a
reason to end is given once and is true when it is given (`ReasonTrue`); on Windows
the handle has at most one closer (`WinHandle`).

**GUI session.** `Payloads`: what is in queue, writer and pipe names revisions and
commands that exist. `Completed`: states without a pending command carry ascending
numbers, and the command that runs has the largest. `Since`: with the number that
the accept thread read before it routed a request, every newer result is that
request's or the menu's, which is the reason why `GuiCommandRouter` may compare
numbers only. `Handover`: the next client is accepted after the writer of the last
one has ended, hence nothing of the last client is on its way.

**Editing.** The four properties are about what the client sees, and what it sees
depends on what the executor has not published yet. `Final` is the view once
everything computed is published. `TInv`, for the tray: a draft with changes makes
`Final` dirty (`DraftShown`) and a service behind the last save makes it pending
(`PendingShown`), except between the commit of an Apply and its new beginning, where
`ExecutorPlace` says that no draft is active. With it a reload or a migration, which
look at the phase only, cannot meet a changed draft, and `DraftNotLost` follows
action by action. `WireInv`, for the pipe: one state and one answer at most, an
answer only when the executor is idle, and without a state in front the copy of the
client agrees with the view. `RulesSent`: the view that a successful save of rules
leaves is newer than the revision its editor remembers, so the rules editor never
awaits a snapshot for longer than one step. `CInv`, for the editors: each is on the
profile of the copy, one that is settled shows the copy (`EditorKept`), and input is
in its editor, differs from what the view said and is newer than the save whose
snapshot is awaited (`EntryKept`); that last clause is what
`EditableFieldModel::apply` compares, and it fails for input that is sent again while
a snapshot is awaited, which is how the finding of `InputLost.cfg` came about. What a configuration
holds, and what the operations of `ConfigurationEditor` compute, does not matter to
the argument.

Sums are recursive functions (`Sums`); what they compute is proved with the least
counterexample (`WFMin` of the library's well-founded induction), because the
library's induction theorems take the predicate as an operator.

What the proofs corrected in the models: two `CASE` expressions with overlapping
guards, a `SUBSET` that bound more than meant, in `GuiSession` a late join of the
UI thread that marked the writer of the next connection as joined, and in
`MainWindowViewModel` a refused format that left the draft as it was. `InputKept`,
`FieldEditorsCurrent` and `DraftNotLost` had held only within the bounds of their
run: the attempts to prove them led to the exceptions of section 3 and to two
findings (`InputLost.cfg`, `DraftLost.cfg`).

Only model-checked: all liveness (`RecoverySettles`, `StopCompletes`,
`DisconnectReleases`, `CommandAnswered`, `EndNoticed`, `ExitCompletes`, `CallsReturn`,
`RequestsEnd`, `ProxyFollowed`, `GuiCatchesUp`, `ShutdownCompletes`), because fairness
is beyond the prover.

## 5. Not modelled

Modelled: repository, server, service control, tray, logger, transports, GUI
session, view model, editing and the editors of the Qt client. Partly modelled:

* server: what a request computes is a choice; the parsing of HTTP is left out;
* view model: the lightweight preference, the replacement confirmation of a
  migration, transitional controller states, failures of `inspect_storage`;
* Qt client: field conversion errors, close prompts, diagnostics, QML;
* the senders of `RenameProfile` and `SetProfileEnabled`, which only the macOS
  window has (the operations are in `MutateCandidate`);
* maintenance endpoint: its pipe and thread (its requests are in `TrayHost`);
* request rules and routing: whether rules compile and routes collide is in
  `ConfigurationEditor`; what a rule makes of a JSON document is a pure function
  over unbounded documents, which unit tests reach as well as a model would;
* command line: its commits and migration are in `MainWindowViewModel`; the run
  of a server in the foreground uses AppService without a controller.

Left out for good: JSON as text, SQLite, sockets and WinHTTP themselves (external), QML, menus, icons
and the macOS windows (presentation over the same view model and executor),
argument parsing.

## 6. Findings

Each is a difference between a document of the repository and its code, quoted in
`PROJECT.json`. `client_abort` and `gui_crash` are runs; a configuration named in
parentheses shows the others.

* `client_abort`: a connection its client aborts before it is accepted can make
  `accept()` fail, and a failed `accept()` stops the server, though disconnects are
  said to affect their own request only.
* `gui_crash`: the UI thread, activating a window whose pipe has just broken, and
  the accept thread both find the writer of the channel joinable and join it; the
  second join ends the tray, though a crash of the GUI is said not to stop the
  listener.
* (`DrainHolds.cfg`) A connection beyond the limit is accepted and drained outside
  the client registry. While its client keeps sending, never silent for 250 ms, it
  holds the acceptor, and a stop does not end `run`, though a stop is said to close
  the registry of accepted sockets to wake their reads.
* (`FreshStart.cfg`) A crash between the creation of `profiles.db` and the commit of
  its schema leaves an initialization that recovery refuses for ever, though
  an interrupted initialization is said to end with both files or with none.
* (`ForeignConfig.cfg`) With a database replacement backup at hand, recovery
  overwrites a `config.json` it does not know, though such bytes are said to be
  left alone.
* (`StaleToken.cfg`) A replacing migration starts the revision over, so an old
  token can match again, though any change is said to be detected.
* (`ProxyWatch.cfg`) A change of the system proxy between the constructor's query
  and the watcher's first notification is not published, though changes are said
  to be.
* (`RulesStale.cfg`) A draft reload confirmed over typed rules, whose snapshot
  arrives before its answer: the reset of the rules editor falls back to the text
  of the given-up draft and shows it as unchanged.
* (`MixedProfile.cfg`) A selection publishes the key before the editors: a client
  that is sent the state in between and edits then keeps the old profile's fields
  under the new profile's key, and saves them there.
* `clear_journal` removes the journal directory file by file; a crash in the
  middle leaves a directory that recovery refuses.
* After a save that failed with Stale, `snapshot_` is the current one, and the
  same draft saved again through `save(ConfigDocument)` is accepted.
* (`DraftLost.cfg`) Formatting rules whose canonical text is too long rejects the command
  after the rules of the draft were replaced, without a new phase or revision. Once
  their editor is reset, a reload replaces them without a question, though a reload
  is said never to overwrite changes silently.
* (`InputLost.cfg`) A save that changes nothing does not move the revision, so its editor
  goes on awaiting the snapshot. Input that a second, refused save sends counts as
  sent, and the next snapshot with a newer revision overwrites it, though a failed
  save is said to keep the local input.
