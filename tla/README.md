# Ramag platform: TLA+ models, model checking and proofs

Ramag is a desktop workbench written in Rust: one process with database, cache,
message-queue, SSH, git and other tools as statically linked plugins. This
directory models the parts of it whose correctness depends on the order in
which several threads, tasks, users, databases and child processes act, checks
the models with TLC, and proves the properties that matter most with TLAPS.

Paths below are relative to the repository; `app/` stands for
`crates/ramag-app/src/`.

## 1. Inventory

### Modelled

| Component | State it keeps | Operations | Talks to |
|---|---|---|---|
| Static plugin host (`app/plugin_host.rs`, `plugin_lifecycle.rs`) | phase of the host, ordered records, one context per plugin with an atomic state, failure diagnostics | register, initialize_all, shutdown_all, execute_entry, start_task | tool registry, plugin catalog, task registries; lifecycle callbacks of the plugins |
| Plugin task registry (`app/plugin_tasks.rs`) | accepting flag, next id, handles with cancellation flags; running operations | start, spawn, cancel, join, detach, drop, cancel_all | the executor; the host (cancel_all at failure and unload) |
| Plugin catalog (`app/plugin_catalog.rs`), plugin part of the tool registry (`app/tool_registry.rs`) | entries by plugin | register, remove | the host; views that list tools |
| Data synchronisation gate (`app/usecases/data_sync/gate.rs`) | generation, active task with phase, progress and cancellation flag | begin, update_progress, request_cancel, finish, acknowledge | executor, overlay, quit handling (`ramag-bin/src/main.rs:392`) |
| SQL synchronisation (`data_sync/service.rs`, `sql_sync.rs`, `sql_sync/io.rs`, `sql_preflight.rs`) | the plan; position in the loop over tables and pages | preflight, start, execute | gate, two databases that other clients use at the same time |
| SSH tunnel registry (`ramag-infra-tunnel/src/lib.rs`) | map of connections to slots under one lock, a slot's tunnel under its own lock, ssh child processes | ensure, evict, shutdown_all | database drivers (`evict` in the redis, mongodb and sql drivers), quit (`main.rs:426`) |
| SSH transfer records (`app/usecases/ssh_service.rs`, `ssh_service/transfer_ops.rs`, `helpers.rs`) | a deque of records, a map of cancellation handles, both in memory | enqueue, retry, begin, cancel, finish, clear, pruning of the history | executors, the transfer list of the view, disconnect and shutdown |
| SFTP transfer engine and session cache (`ramag-infra-ssh/src/transfer.rs`, `transfer/`, `sftp_ops.rs`, `session/connection.rs`) | temporary and backup siblings of a target, permits, one cached session per profile with its connect lock | upload, download, save_file and their commits; get_or_connect, invalidate, shutdown | the records' cancellation handles; the remote server, which may refuse, lose an answer or break |
| SQL, Redis and MongoDB pool caches (`ramag-infra-sql-shared/src/pool.rs`, `backend.rs`, `ramag-infra-redis/src/pool.rs`, `ramag-infra-mongodb/src/pool.rs`) | pools by connection, the generation that evict retires, build locks, access times for an LRU bound | get_pool, insert, evict, retry of reads | every service call; views that save, close or delete a connection |
| SQL transactions (`ramag-infra-sql-shared/src/transaction.rs`) | open transactions per connection, each in a slot with a lock of its own | begin, statement, commit, rollback, clear | the pool cache: an eviction spares open transactions |
| MQTT subscription session (`ramag-tool-mqtt/src/mqtt_view/`, `ramag-infra-mqtt/src/native/mqtt_data_plane.rs`) | rows, flags and request number in the view; the driver's loop with three bounded channels and a cancellation flag | start, toggle, stop, protocol, select and save a profile; the loop's commands, acknowledgements, messages, end | the broker; the profile form, whose changes disown answers |

### Not modelled (yet, or at all)

| Component | State and hard behaviour | What makes it correct | Plan |
|---|---|---|---|
| Plugin settings and secret store (`app/plugin_settings_store.rs`, `plugin_secrets.rs`) | primary and backup envelope per plugin; a crash between the two writes, a damaged envelope, migrations over several versions | a save never destroys the last readable copy; load returns the newest readable one | module `SettingsStore` |
| MongoDB synchronisation (`data_sync/mongo_sync.rs`) | as for SQL; a cancellation is honoured after a collection was created, indexes are recomputed on a retry | as for SQL | module `MongoSync` |
| Tool registry order, blocking worker pool, update service | user order and hidden tools; a bounded queue; stages of an update | - | small modules at the end of the plan |
| Rest of the SSH service (`ramag-infra-ssh`: directory operations, contents of archives, terminals) | one request after the other on a session | data rather than control | none |
| MQTT local server, publishing and management (`ramag-infra-mqtt/src/local_server.rs`, `dynamic_security_operations.rs`) | a test broker run as a child process; requests answered one at a time | the status shown is that of the process | `LocalServer` |
| Local storage (`ramag-infra-storage`) | an encrypted key-value store on redb | its transactions are redb's | an atomic store inside other modules |
| Kafka, object storage, containers, API client, JumpServer, MySQL, PostgreSQL and SQLite drivers | request and response around client libraries | data conversion rather than control | none |
| Git driver, terminal, import and export, clipboard, system monitor | calls of external programs, file formats, screen buffers, platform calls | data rather than control | none |
| User interface (`ramag-ui`, `ramag-tool-*`), composition (`ramag-bin`) | view state | where a view decides what a component is asked, the component's module has it as an action | none of their own |

`PROJECT.json` lists every component with its sources, and every hazard with
the line where it bites and the properties about it.

## 2. Modules

```
TaskScope      <--(implements)-- PluginHost   <-- MCPluginHost,     PluginHostProofs
SyncGate       <--(extends)----- SqlSync      <-- MCSqlSync,        SqlSyncProofs
   ^-- SyncGateProofs               |                                  (uses both)
DataCopy       <--(implements)------+
TunnelRegistry                                <-- MCTunnelRegistry, TunnelRegistryProofs
TransferStore  <--(extends)----- SshTransfers <-- MCSshTransfers,   SshTransfersProofs
   ^-- TransferStoreProofs                                             (uses both)
PoolCache                                     <-- MCPoolCache,      PoolCacheProofs
MqttSession                                   <-- MCMqttSession,    MqttSessionProofs
```

An action stands for the code between two points where somebody else can see or
change something: a critical section, an atomic store, an await. A definition
whose comment begins with "Faulty:", or whose name is that of the next
definition followed by an underscore and a few words (`Hit_AnyGeneration`,
`Deliver_Drops`), is the code with one mistake in it; nothing uses it, and each
property is checked to fail when it takes the place of the definition it is
named after.

### PluginHost and TaskScope

`register_plugin`, `initialize_all` and `shutdown_all` hold `operation_lock`
from begin to end; `opKind`, `opStep` and `opTodo` are the operation that holds
it, its next write, and the plugins it still has to treat. Everything else
(entries being executed, `start_task`, the operations of tasks, readers of the
registries) takes no part in that lock, so every write of an operation is one
action: registering is tool registry, then catalog (which may refuse: rollback),
then record; a failed initialization is stop_tasks, state, diagnostic, withdrawal
of the tools; unloading is state, `stop_tasks`, callback, `stop_tasks`, state,
tool registry, catalog. `caller[c]` is a thread inside `execute_entry` or `start_task`, which
reads the plugin's state, may be refused, and only then takes the lock of the
task registry; `stage[p][i]` is a task from its handle to its result.

Settings and secrets enter only as the success or failure of `prepare_context`;
callbacks may return anything; `next_id` does not saturate. The release profile
aborts on a panic, so poisoned locks and unwinding callbacks do not occur.

What a reader of the code may not expect, and the model shows: `plugin.execute`
can be called after `plugin.shutdown`, because `execute_entry` read `Ready`
before (an operation it starts then ends as `Cancelled`); the catalog keeps the
entries of a plugin whose initialization failed; an operation may be polled for
one more cancellation interval after its plugin was unloaded.

`TaskScope` says in sixty lines what the three files promise together: a scope
admits tasks while it is open and has room, and closing it tells all of its
tasks in one step. `PluginHost!Scope` is the refinement mapping.

### SyncGate, SqlSync and DataCopy

`SyncGate` has one action per method of `DataSyncGate`, each under its one
mutex. A permit is a generation and a task id; `running`, `issued`, `asked` and
`confirmed` remember who holds permits and what users did, because views of
finished tasks keep permits and task ids for as long as they are on the screen.

`SqlSync` adds `preflight`, `start` and `run_sql_sync`, one action per database
call: two databases whose rows are record identities, whether a table exists
and has its indexes, and a sequence per PostgreSQL table. Between any two calls
other clients insert, delete and create. A call may fail, and an insert may
succeed without its reply. `Clashing` rows hold another unique value that a
foreign row holds too: PostgreSQL rejects the statement, MySQL drops the row and
says nothing (io.rs:206), which is why the code asks for the identities again.

Abstracted: statement texts, splitting an insert into several statements, type
checks of the preflight, creation of namespaces and enum types (they precede
CREATE TABLE and count as structure like it); constraints other than indexes
are treated like foreign keys; the preflight reads the target at one moment (a
table that appears between two of its reads makes CREATE TABLE fail, which the
model has anyway). Rows inserted in the source behind the keyset position are
missed by the code and not promised: `kept` holds the rows that were there from
start to end. A failed run leaves tables without indexes and foreign keys, which
a second preflight takes for existing ones and never finishes; nothing in the
repository says otherwise, so this is recorded as a hazard without a property.

`DataCopy` is what remains of all this for somebody who looks only at the rows
and at the result: a copy that runs adds missing rows, in any order and as many
at a time as it likes, and touches no other row; it may give up at any time; it
succeeds only when nothing it owes is missing, which is every row that stayed in
the source since it began. `SqlSync!Copy` is the refinement mapping: phases of
the gate become the copy's status (a cancelled and a failed task both gave up),
`kept` becomes what is owed, and everything else is hidden.

### TunnelRegistry

Threads of the blocking pool run `ensure`, `evict` and `shutdown_all`. The
registry lock is held over one action, except by `remove_unused_slot`, which
takes the slot's lock under it (`cleaner`). A slot is named by the number of
the call that made it, a process by the number of the ensure that spawned it;
`slot` and `drained` are the Arcs a thread holds, so the strong count that
`remove_unused_slot` reads is the number of threads with the slot, plus one for the registry.
ssh binds its port some time after it was spawned, finds it taken, or dies at
any time; `connect` succeeds whoever listens.

Left out: poisoned locks (see above), the draining of stderr, validation and
the reading of ssh options.

### TransferStore and SshTransfers

`TransferStore` is the deque and the map of handles under their one lock:
`stored`, `status` and `handles`, with `flagged` for the handles on which
`cancel()` was called. Records live in memory, so a crash (`Restart`) empties it.

`SshTransfers` runs one executor per job through the steps of an upload, a
download or a save of the remote editor: permit, the look at the target, a
sibling file, the copy, a last look at the cancellation, and one of four
commits. A remote target that exists is renamed away (`Stash`), the sibling is
renamed onto its place (`Swap`), the backup is dropped, and `Restore` is the
rollback; a target that does not exist is written by one rename (`CommitNew`); a
local file is linked or renamed (`Link`, `Replace`). A content is the original,
another program's, that of a job, or partial. Every request may be answered,
refused, or lose its answer with or without an effect (`Request`), which is what
the error paths of the engine are about. `cache`, `lock` and `lockKnown` are the
session cache of the profile; disconnect and shutdown cancel, wait for five
seconds at most, and close it, so executors may still be at work afterwards.

Assumed of the server: a rename does not replace an existing file, as OpenSSH's
SFTP server has it. Capability probes, paths, progress and the contents of
archives are left out.

### PoolCache

The three caches are one algorithm over DashMaps, and `driver` says what each
leaves out: SQL has transactions and no limit, Redis a pool per database, a
limit and the collection of idle build locks, MongoDB neither. One operation on
one entry of a map is an action. A request draws the generation, looks without
a lock, takes the build lock of its key, looks again, builds, and inserts by
checking the generation before and after (`Admit`, `Put`, `Confirm`, `Undo`).
An eviction (the view's, or a retry's, which may run at the same time) removes
the generation, then the build locks, then the pools one by one, then the
transactions. Statements hold the lock of their transaction's slot; a commit
takes the transaction out of the store first and then out of the slot.

`older` stands for the access times: which database with a pool was not used
since which other. The pass of `enforce_pool_limit` over them counts as one read.
The content of configurations is not modelled: a generation stands for the
configuration it was drawn under (see the observations).

### MqttSession

The view's tasks, the driver's loop and the broker, for every session the view
starts. Messages, statuses and commands are bounded channels: a full channel
holds the loop up, loses a status, or rejects a command. The loop attributes an
acknowledgement to the oldest request awaited, which `awaited` keeps apart for
SUBSCRIBE and UNSUBSCRIBE. On the wire it has a packet identifier; the model
says instead which request it is `of`, which no action of the loop reads and
`AcksMatched` compares with what is awaited. `Heard(s)` is the test every
task of the view makes before it applies what came back: the latest session, in
a profile that is still the same.

The broker may refuse any filter and answers each kind in its order. Events of a
session that is not the latest are ignored by that test, so what an earlier one
left in its channels is dropped when the next starts. `ChooseProtocol` stands
also for the editing of topics, which resets the rows in the same way. `Toggle`
has the guards of `toggle_subscription_topic`, which looks at the row and at
`stopping` only: after `ChooseProtocol` a row no longer shows what was asked for
its filter, and the filter can be asked for again. `clicked` counts clicks on
rows and protocols, for the bound `MaxClicks`.

## 3. Runs

Every run that passes explores its complete state space, in at most two and a
half minutes.

| Run | Instance | What it shows |
|---|---|---|
| `host_lifecycle` (28,304 states) | four plugins: one malformed, one that claims another's entry and fills a catalog of two | `HostConsistent`, `ToolsAreUsable`, `FailureIsolated`, `ReverseShutdown`: in every order of operations the tool registry, the catalog and the records agree between operations, a failure stays with its plugin, unloading goes backwards |
| `host_tasks` (62,388) | one plugin, two callers, one slot, three tasks | `NoOrphanTask`, `ImplementsScope`: a caller that read the state before the host changed it cannot slip a task in; liveness: `ShutdownCompletes`, `RunsEnd` |
| `sync` (562,074) | two scenes. Rows: either engine, one table that exists or not, beside an empty one, two rows, pages of one or two, two tasks in a row whose views stay, one step of another client. Tables: two tables, each existing or not, one row each, one task | `ImplementsCopy`, `CompletedIsComplete`, `SequencesAhead`, `CancelledIsWhole`, and of the gate `OneExecutor`, `CancelVisible`, `CancelsAsked`, `ResultsConfirmed`; liveness: `EveryTaskEnds` |
| `tunnel_calls` (148,240) | two threads, two connections, two configurations, two ports, three calls | `NoStrayProcess`, `UnsharedNeverLeaks`; liveness: `CallsReturn` |
| `tunnel_shutdown` (violation) | two threads, one connection, three calls | `ShutdownReachesAll`: an ensure that waits for a slot while `evict` or `shutdown_all` takes it out of the registry builds a tunnel nothing can close |
| `transfers_files` (3,157,577, up to symmetry) | two jobs of any policy on one file, two permits, one disturbance: a session that breaks, a disconnect or shutdown, a crash, another program's write | `TargetWhole`, `CompletedLanded`, `NothingLost`, `RefuseKeeps`: what a target holds at each step of two racing commits and what a record may say of it; `RunningIsExecuted`, `NoSessionAfterShutdown` |
| `transfers_ends` (156,744) | an upload and a download, one permit, no disturbance | `HandlesMatch`; liveness: `EveryTransferEnds` |
| `transfers_cancel` (violation) | the same | `OkIsCompleted`: a transfer cancelled during its commit replaced the file and is recorded as cancelled |
| `pools` (1.9 million, up to symmetry) | SQL or Redis, three calls of which two at a time, two evictions, two databases of which one may be cached, one open transaction | `RetiredIsSwept`, `NewPoolStays`, `OneBuild`, `LruBound`, `StatementsInside` |
| `mqtt` (278,538) | two filters, two subscriptions, two messages, two clicks, channels of one and two | `NoMessageLost`, `AcksMatched`, `OneSession`; liveness: `StopEnds` |
| `mqtt_stuck` (violation) | the same | `EndIsSeen`: a subscription started while its profile is being saved is disowned by the answer, and the view stays busy |
| `mqtt_rows` (violation) | two filters, one subscription, three clicks | `RowsTell`: the protocol is chosen while a subscription runs, a filter is asked for twice, and the late second answer shows it as subscribed after it was given up |

The bounds, and why they are enough:

- `TaskIdBound`, `MaxRuns`, `MaxOthers`, `MaxCalls`, `MaxEvicts` and
  `MaxSessions` cap counters that only tell occurrences apart; the violated
  properties and the faulty definitions all show within two or three of each.
  Every safety property of a passing run is also proved for every value of
  these bounds (section 4).
- `host_tasks` has one slot for two callers, the smallest instance in which the
  limit is contended; `host_lifecycle` has the smallest catalog that two plugins
  fill.
- `sync` needs two rows (one before and one behind the keyset position), a
  second task (a retry) and one step of another client, which falls between any
  two calls; a second interfering step only repeats the same window. It also
  needs two tables, so that one is finished while the other is not. All of it at
  once is beyond TLC, so `MCSqlSync` fixes at the start which of the two a
  behaviour is about (`scene`) and keeps everything else free.
- `tunnel_calls` has two threads because every window is between two of them;
  two ports so that two tunnels can live at once; three calls make a tunnel,
  share or replace it, and close it.
- `transfers_files` puts both jobs on one file, where they can harm each other;
  `MaxTrouble` of one lets any one thing go wrong at any step, and a lost answer
  of a live session is not counted. A second disturbance would only meet
  the rollback or the cleanup of the first. One finished record is kept, so that the
  history is pruned while another transfer runs.
- `pools` has two calls under way beside the view, as every window is between
  two of them and an eviction; a third call finds what they left. `MaxCached`
  and `MaxActive` of one make both limits matter. MongoDB's cache has no
  behaviour that SQL's, without transactions, does not have.
- `mqtt`: one filter could not tell whose answer an acknowledgement is, one
  session could not meet another's leftovers. A channel of messages with one
  place is full after one. Of two clicks the first may choose the protocol and
  the second ask for a filter that is being asked for; `mqtt_rows` needs a third
  to give it up.

Deadlock is checked in the runs of the host, the synchronisation, the tunnels
(`Rest` stands for a system whose bounded calls are used up) and the pools
(`Terminated`). The runs of the transfers and of MQTT say `CHECK_DEADLOCK FALSE`:
when all jobs are over, or the sessions are used up, nothing more has to happen.

### Fairness

- `PluginHost!FairSpec`: lifecycle callbacks return and the thread that holds
  `operation_lock` goes on; the executor polls spawned operations; the timer
  fires. No fairness for callers, for joins, or for an operation resolving by
  itself: an operation that never resolves is the case `RunsEnd` is about.
- `SqlSync!FairSyncSpec`, and `MCSqlSync!MCSpec` with the scene: `execute` was spawned detached and its database calls
  return, with a result or an error. No fairness for
  users, for dialogs or for other clients: nobody has to acknowledge or cancel.
- `TunnelRegistry!FairSpec`: a thread that can go on does. The probing loop ends
  at `READY_TIMEOUT`, and a lock that stays free is taken. Nothing is assumed of
  ssh; a build that no process answers fails.
- `SshTransfers!FairSpec`: a job that can go on does. A request on a session
  ends after 20 seconds at the latest and connecting after 15, and the view
  executes what it puts in the queue; permits are given back by jobs that end.
  No fairness for users, for other programs or for what breaks.
- `MqttSession!FairSpec`: the loop runs on a thread of its own and goes on when
  it can. Nothing is assumed of the view, which may never look at its channels,
  or of the broker, which may never answer: that is what `StopEnds` is about.
- `PoolCache` states no fairness: its properties are of safety.

## 4. Proofs

TLAPS proves, for every value of the constants:

| Module | Theorem | Statement |
|---|---|---|
| `PluginHostProofs` | `TypeCorrect`, `Bounded` | `TypeOK`; no context holds more than `MAX_PLUGIN_TASKS` handles (`TasksBounded`) |
| | `NoOrphans`, `Refinement` | `NoOrphanTask`; the host implements `TaskScope` |
| | `Lifecycle` | the inductive invariant of registration, start and shutdown, and from it: |
| | `NoToolsLeft`, `CollectionsAgree`, `FailuresStayApart`, `LastInFirstOut` | `ToolsAreUsable`, `HostConsistent`, `FailureIsolated`, `ReverseShutdown` |
| `SyncGateProofs` | `Exclusive`, `CancellationShown`, `StaleViewsCancelNothing`, `StaleViewsCloseNothing` | `OneExecutor`, `CancelVisible`, `CancelsAsked`, `ResultsConfirmed` |
| `SqlSyncProofs` | `UsesGate`, `OneSynchronisation` | a synchronisation uses the gate only as `GateSpec` allows and inherits its exclusivity |
| | `CancelledWhole` | `CancelledIsWhole` |
| | `Copying`, `SyncTypes` | the inductive invariant of the copy; `SyncTypeOK` |
| | `NoRowLost`, `SequencesMoved`, `ForeignRowsStay` | `CompletedIsComplete`, `SequencesAhead`, `NothingOverwritten` |
| | `SyncIsCopy` | `ImplementsCopy`: a synchronisation implements `DataCopy` |
| `TunnelRegistryProofs` | `NoStray`, `UnsharedSafe` | `NoStrayProcess`, `UnsharedNeverLeaks` |
| `TransferStoreProofs` | `StoreHandlesMatch` | `HandlesMatch`, of the store by itself |
| `SshTransfersProofs` | `TransferInvariant`, `TransferTypeOK` | the inductive invariant of records, executors, files and sessions; `TypeOK` |
| | `HandlesFollowRecords`, `OneExecutorPerRecord`, `ShutdownClosesLast` | `HandlesMatch` of the whole, `RunningIsExecuted`, `NoSessionAfterShutdown` |
| | `CompletedIsInPlace`, `NoTargetInPart`, `NothingIsLost`, `RefuseTakesNothing` | `CompletedLanded`, `TargetWhole`, `NothingLost`, `RefuseKeeps` |
| | `TransfersUseTheStore` | `SshTransfers` implements `StoreSpec` |
| `PoolCacheProofs` | `CacheInvariant`, `PoolTypes` | the inductive invariant of the caches; `TypeOK` |
| | `RetiredPoolsAreSwept`, `OneBuildAtATime`, `LimitReached`, `StatementsStayInside`, `CurrentPoolStays` | `RetiredIsSwept`, `OneBuild`, `LruBound`, `StatementsInside`, `NewPoolStays` |
| `MqttSessionProofs` | `OneConnection`, `MessagesInOrder` | `OneSession`, `NoMessageLost` |
| | `AcknowledgementsInTurn` | `AcksMatched` |

`TypeOK` and `TasksBounded` of the host are proved and no run repeats them: the
first has only types, the second a limit that is tested where it is used.

Assumptions are the types of the constants only (`MaxTasksPos`, `SqlConstants`,
`TunnelConstants`, `JobsAreNew`, `PoolConstants` and so on). Sets of plugins,
callers, threads, connections, ports and jobs are arbitrary; requests and
databases of `PoolCache` are finite sets of any size, since its limit counts
them.

**PluginHost, tasks.** `NoOrphanTask` is about two states that are never read
together: the plugin's state and the flags of its tasks. The invariant adds the
bridge: a registry that does not accept has flagged all its tasks
(`ClosedIsFlagged`, because `cancel_all` closes and flags under one lock and
`start` adds only to an open registry); a context marked `Failed` or `Unloaded`
is closed (`MarkedIsClosed`), because the step before the mark was `stop_tasks`
(`AboutToMark`). That a new task's flag is clear needs fresh ids (`FreshIds`),
that a handle is spawned or dropped once needs that no two callers hold one
(`Handles`). For the refinement each action is mapped to at most one step of
`TaskScope`: `StartTask` to `Admit`, `stop_tasks` to `Close`, dropping to
`Release`, and the rest to nothing. `Bounded` is proved with cardinality facts
of the library from `BelowLimit` at admission.

**PluginHost, lifecycle.** The four properties speak of the host between
operations, so they say nothing of the steps in between and are far from
inductive. `LifeInv` says where every plugin stands at every step of whatever
operation holds the lock: `AtRest`, `Registering`, `Initializing` and
`ShuttingDown` describe, for the plugins already treated, the one being treated
(at each value of `opStep`) and those to come, in which of tool registry,
catalog, diagnostics and states it appears. `OthersAbsent` says that a plugin
outside the records has left nothing behind, which is the rollback of a refused
registration; `EntriesApart` that no two tools claim an entry. The order of
unloading is in `ShuttingDown` too: what is left to do is the reverse of a
prefix of the records, so `current` is the last of them that has not been
unloaded.

**SyncGate.** The four properties together with the types and "permits at work
were issued" are inductive (`GateInv`); the argument turns on generations being
fresh, so that a stale permit differs from the holder.

**SqlSync.** `ExecuteGate` shows that each step of the executor is a report, an
end, or nothing for the gate, so `SyncSpec => GateSpec` and the results of
`SyncGateProofs` carry over. `CancelledWhole` rests on `WholeInv`: while the
final statements run, the created tables before `at` are finished, so whoever
leaves with `Cancelled` has finished them all, or had created none.

`CompletedIsComplete` compares the target with the source after a loop whose
every turn saw another source, as other clients insert and delete between any
two calls. `CopyInv` follows the loop: tables before `at` have all their kept
rows (`EarlierKept`); in the table at hand every kept row up to the keyset
position is in the target or in the page being written (`CurrentKept`). What
makes a turn preserve it is the lemma `PageStretch`: `ORDER BY key LIMIT n`
returns rows behind the position that leave out nothing up to the greatest one
of them, and an empty page means that nothing is left. That a page of `n` rows
exists is an argument about cardinalities and least elements; `LeastElement` and
`MaxOfBounded` get these from the well-foundedness of `<` in the library. A row
taken for present because a foreign row has its identity is present too, and
stays: other clients insert into the target, and the statement promises nothing
against one that deletes there. A row MySQL dropped in silence ends the task in
error, by the comparison after the insert. `FinalAhead` does for the sequences
what `EarlierKept` does for the rows. `NothingOverwritten` needs only that what
is inserted is a page without the identities found, and that the insert itself
leaves a foreign row as it is.

`SyncIsCopy` puts these together. A step of the executor is nothing to the copy
(`ExecuteQuiet`), except for an insert, which adds rows that are missing at that
moment (`InsertAdds`; the comparison made before may be out of date by then),
and for the end, where `AllKept` is the guard of `Succeed` (`EndReports`). Only
an executor writes or ends, and by `OneExecutor` it does so while the gate's
phase is that of work, so that no step of a finished task falls into the copy
that follows. `NothingOverwritten` is checked in no run by itself, since
every step of `DataCopy` has it.

**TunnelRegistry.** `IInv` consists of `TypeOK`; numbers of calls are unique and
bounded (`CallsOK`); what a thread's program counter says of its locals
(`LocalsOK`); which locks it holds, and that the slot being built is empty
(`LocksOK`); and that a slot that was never shared has one user, is still
registered while an ensure works on it, and is empty when it is about to be
removed (`UnsharedOK`). Each action has a lemma that states its effects point by
point and then one step per conjunct.

**TransferStore and SshTransfers.** The store alone needs that what is under way
is stored (`OpenIsStored`): pruning the history takes finished records only, or
a handle would stay without its record. `TransferInv` adds to it what the step
of an executor says of its files (`FilesOK`), and this is where the engine's
order of steps enters: the sibling holds the job's whole content from the check
after the copy until the commit, so a rename cannot put a partial file in place;
only a job that may overwrite gets as far as taking the target away, and its
backup is absent before; a result is `ok` only after the content was at the
target. `SessionOK` is about the connect lock: a job that connects holds it, and
a shutdown that has drained the locks finds no one behind them. `NothingIsLost`
and `RefuseTakesNothing` are action properties; `EngineWrites` lists the few
steps that write a target or a backup at all. `TransfersUseTheStore` maps every
step to an operation of the store or a stutter; an outcome is reported only for
a record that is running, which is `RunningIsExecuted`.

**PoolCache.** An eviction and an insert are several steps each, on maps without
a common lock, so `RetiredIsSwept` and `OneBuild` depend on the order of the
steps. `ClockOK` says that the clock is ahead of every generation anybody holds
(a new one is new to everyone) and that it counts evictions. `LocalsOK` says
that who sweeps has retired its generation before; `LocksOK` that the lock of a
key of the current generation is the one in its entry: idle and retired locks
are removed, and two requests for a current key can therefore not hold two.
`OrderOK` makes the order of use a strict total one, so that the list of the `n`
longest unused pools has `n` members; with it `LimitOK` says that when there are
too many pools somebody has still to enforce the limit, or has begun to and will
end below it. Hits, evictions and other passes that interleave with that one
only take pools away or add pools whose own requests come to enforce it.

**MqttSession.** `SessionInv` says that a loop which lives is the one the view
knows of (`Known`: it is the latest, and `running` is set). `OneSession` alone
is not inductive, because starting is guarded by `running` and not by the loops.
What makes it hold is that `TakeProfile` leaves `running` set: every step of a
loop moves only that loop (`LoopStep`), and `running` is cleared only for a loop
that has ended. The same line of the code is behind finding 3: a view that
forgot the flag would allow a second connection, and one that keeps it must
still hear the end.

`MessagesInv` says of every live session that channel and connection together
hold the last messages published, consecutive and in order, that a loop waiting
to deliver has the publish it waits with at the head, and that a session which
is not alive has nothing on the connection. Acknowledgements lie between the
publishes, so `InOrder` speaks of the positions of the publishes in the sequence
of packets, and each way a sequence changes (taking a head, appending,
delivering) has a lemma.

`AcksMatched` needs to know of every answer on its way whose it is, although the
loop never asks. `AcksInv` says of every session (`AcksOK`, `Matched`): what the
loop waits for, from the oldest on, are first the requests whose answers lie
among the packets, in the order of these answers, then those the broker has not
answered, in theirs; for SUBSCRIBE and UNSUBSCRIBE apart, since only within a
kind does the order hold. A request that the client takes comes last both in its
channel and in what is awaited, because a refused one is not awaited; an answer
moves the first request of its kind behind the last answer; a message lies
between them and changes nothing; and an answer the loop takes off is the first
of its kind, as is what it then stops waiting for. Each of these has a lemma on
two sequences and the places in them (`Enumerates`), and `MatchedInTurn` reads
the property off the two put together. Before it has begun a session has asked
nothing, which needs that sessions are started in turn (`Later`). No bound on
clicks, sessions or channels is used.

### Only model-checked

- Liveness (`ShutdownCompletes`, `RunsEnd`, `EveryTaskEnds`, `CallsReturn`,
  `EveryTransferEnds`, `StopEnds`): fairness and ENABLED are beyond the prover.
- The four violations, whose traces TLC shows.

What a recursive operator computes for every input is not proved anywhere: the
library's induction theorems take an operator as a parameter, which none of the
provers instantiates. Well-foundedness of `<` is first-order and is all the
proofs here need; `NoMessageLost` is stated with positions rather than with
`SelectSeq` for this reason.

## 5. Findings

1. `ensure` can leave an ssh process that no later `evict` or `shutdown_all`
   reaches (`tunnel_shutdown`). `remove_unused_slot` has a second way to the
   same end: it looks at the slot, lets go of it, and removes it after another
   ensure that was waiting for it has filled it and returned. Dropping a
   `Child` does not end it, so the process survives the program.
2. A transfer that is cancelled during its commit replaces the target and is
   recorded as cancelled, although ssh.rs:358 asks to take an outcome for a
   success (`transfers_cancel`).
3. A subscription that is started while the profile is being saved or deleted is
   cancelled by the answer, but the view never hears of its end and stays busy
   (`mqtt_stuck`).
4. The protocol can be chosen while a subscription runs (configuration_view.rs:357),
   which resets every row (subscription_operations.rs:103). A row whose filter is
   being asked for can then be clicked, and the filter is asked for twice; if it
   is given up between the two answers, the second one shows it as subscribed
   (已订阅) while the broker no longer serves it, although
   docs/04-ui-acceptance-standard.md:88 has it that what was cancelled is not
   shown as a success (`mqtt_rows`). The loop is not to blame: each answer is
   taken for its request (`AcksMatched`).

### Observations

Seen while modelling; in the models where they fit, without a property.

- *Host.* A task that times out does not get its cancellation flag set
  (plugin_tasks.rs:395; docs/05-plugin-development-guide.md:121 says it does).
- *Synchronisation.* A cancellation accepted while the last table of a target
  that is being created is copied is forgotten (sql_sync.rs:96). A failed
  synchronisation leaves tables without indexes and foreign keys, which the next
  preflight takes for existing ones (sql_sync.rs:125).
- *Tunnels.* `remove_unused_slot` waits for the slot's lock under the registry
  lock, up to the 12 s of another handshake (lib.rs:178; the comment at :138
  says that a handshake locks only its connection). The port may be taken between
  `pick_free_port` and ssh's bind, and `build_tunnel` then returns the address of
  whoever answers (lib.rs:209, :319).
- *Transfers.* When the rename that stashes the target took effect but its reply did not
  come in time, the commit returns without a rollback (commit.rs:89): the target
  is gone and its file stays in the backup. An open that is given up or cancelled may leave
  its sibling behind. A link that succeeded and a removal that failed make a
  download that landed report an error. `invalidate_broken` of an old connection
  drops a newer one of the same profile. Between the last comparison of a save
  and its commit another program's write is lost to the backup (transfer.rs:160).
  A transfer that read the profile before it was saved or deleted can connect
  again after the disconnect.
- *Pools.* A request with the old configuration that draws its generation after
  the eviction caches a pool to the old server as the current one
  (backend.rs:200); so does the retry of a read whose connection was edited
  meanwhile. An
  eviction does nothing while a transaction is open, so the old pool serves the
  new configuration (connection_service.rs:253). Concurrent begins exceed the
  limit of open transactions, which is counted before the insertion
  (transaction.rs:54), and a transaction begun between the test for open ones
  and the clearing is dropped. Build locks of retired generations stay in the
  maps of SQL and MongoDB.
- *MQTT.* Statuses that do not fit the channel of 128 are lost without notice
  (mqtt_operations.rs:411): the row goes on waiting, and a click on it does
  nothing. At the end only the rows of the initial filters are reset, so that
  one toggled in later goes on saying 已订阅 or 订阅中, also during the next
  session.
  A publish that is sent while the profile is saved makes the view ignore the
  save's answer, so that it stays busy. The local server's status stays
  "running" after a restart that failed (local_server.rs:87).

## 6. Plan

In this order; a dozen runs in all, so that they stay a few minutes' work, with
more questions per run rather than more runs.

1. *done* `PluginHost` with `TaskScope`, proofs.
2. *done* `SyncGate` and `SqlSync`, proofs.
3. *done* `TunnelRegistry`, proofs.
4. *done* `TransferStore` and `SshTransfers`, proofs.
5. *done* `PoolCache` with the transactions and `MqttSession`, proofs. Composing
   the cache with `TunnelRegistry` (its drivers' evict calls both) is left.
6. `SettingsStore`: primary, backup, damage and crash between writes, migration
   versions; abstract specification: a register whose value is one of the last
   two saved. To examine: a save after a recovery copies the damaged primary
   over the only good backup (plugin_settings_store.rs, `save`, which nothing
   in the application calls yet). Bounds: one plugin, three values, one crash,
   one damage. To prove: a readable copy survives every save that finds a
   readable primary.
7. `MongoSync`: as `SqlSync`, on the same gate.
8. `ToolRegistry` order, `WorkerPool`, `UpdateService`, `LocalServer`.
