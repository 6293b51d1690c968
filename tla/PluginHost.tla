----------------------------- MODULE PluginHost -----------------------------
(***************************************************************************)
(* The static plugin host: StaticPluginHost (plugin_host.rs), the context  *)
(* each plugin lives in (plugin_lifecycle.rs), the bounded task registry   *)
(* of a context (plugin_tasks.rs), and the parts of ToolRegistry and       *)
(* PluginCatalog the host writes.                                          *)
(*                                                                         *)
(* register_plugin, initialize_all and shutdown_all hold operation_lock    *)
(* from begin to end, so at most one of them is under way; but each of its *)
(* writes goes to a structure with a lock of its own, and everything else  *)
(* (execute_entry, PluginContext::start_task, running tasks, readers of    *)
(* the tool registry) takes no part in operation_lock.  So an operation is *)
(* one action per write the others can see.                                *)
(***************************************************************************)
EXTENDS Naturals, Sequences, FiniteSets, SequencesExt

CONSTANTS
  Plugins,     \* plugin ids offered to register_plugin (an id may be offered again)
  Entries,     \* tool entry ids
  EntriesOf,   \* EntriesOf[p]: the entries of plugin p's descriptor
  Valid,       \* plugins whose descriptor is valid and matches their tools
  MaxCatalog,  \* MAX_PLUGIN_CATALOG_ENTRIES
  Granted,     \* plugins that declared and were granted task.scoped
  Callers,     \* threads that call execute_entry, or plugin code calling start_task
  MaxTasks,    \* MAX_PLUGIN_TASKS
  TaskIdBound  \* bound of the model: tasks one context ever starts

ASSUME EntriesOfType == EntriesOf \in [Plugins -> SUBSET Entries]
ASSUME MaxCatalogNat == MaxCatalog \in Nat
ASSUME MaxTasksPos   == MaxTasks \in Nat \ {0}
ASSUME TaskIdNat     == TaskIdBound \in Nat

VARIABLES
  phase,      \* HostPhase
  opKind,     \* which operation holds operation_lock
  opStep,     \* the next write of that operation
  opTodo,     \* the plugins it still has to treat; the head is the current one
  records,    \* accepted plugins, in registration order
  pstate,     \* PluginState of each record's context
  registry,   \* plugins whose entries are in the ToolRegistry
  catalog,    \* plugins whose entries are in the PluginCatalog
  failures,   \* the stage recorded in `failures` for a plugin
  rejected,   \* plugins with a diagnostic in registration_failures
  accepting,  \* TaskInner.accepting of each context
  nextId,     \* TaskInner.next_id of each context
  stage,      \* stage[p][i]: how far task i of p has come
  cancelled,  \* cancelled[p]: tasks of p whose cancellation flag is set
  caller      \* caller[c]: progress of a start_task call

hostVars   == <<phase, opKind, opStep, opTodo, records, registry, catalog, failures, rejected>>
taskVars   == <<accepting, nextId, stage, cancelled>>
vars       == <<phase, opKind, opStep, opTodo, records, pstate, registry, catalog,
                failures, rejected, accepting, nextId, stage, cancelled, caller>>

HostPhase   == {"Registering", "Running", "ShuttingDown", "Stopped"}
PluginState == {"Registered", "Initializing", "Ready", "ShuttingDown", "Failed", "Unloaded"}
Results     == {"Completed", "Errored", "TooLarge", "TimedOut", "Cancelled"}
Live        == {"held", "queued", "running"} \cup Results
TaskIds     == 1..TaskIdBound

(* The keys of TaskInner.tasks: a task is in the map from start() until its
   handle is dropped, finished or not. *)
Registered(p) == {i \in TaskIds : stage[p][i] \in Live}

(* The map has room for one more *)
BelowLimit(tasks) == Cardinality(tasks) < MaxTasks

(* PluginContext::ensure_available *)
Available == {"Initializing", "Ready", "ShuttingDown"}

current == Head(opTodo)

(* Tools of the registry and of the catalog *)
ToolEntries    == UNION {EntriesOf[p] : p \in registry}
CatalogEntries == UNION {{<<p, e>> : e \in EntriesOf[p]} : p \in catalog}

TypeOK ==
  /\ phase     \in HostPhase
  /\ opKind    \in {"none", "register", "initialize", "shutdown"}
  /\ opStep    \in {"none", "catalog", "rollback", "record", "claim", "prepare",
                    "callback", "stop", "fail", "unload", "mark", "withdraw", "uncatalog"}
  /\ opTodo    \in Seq(Plugins)
  /\ records   \in Seq(Plugins)
  /\ pstate    \in [Plugins -> PluginState \cup {"Absent"}]
  /\ registry  \in SUBSET Plugins
  /\ catalog   \in SUBSET Plugins
  /\ failures  \in [Plugins -> {"none", "Initialize", "Shutdown"}]
  /\ rejected  \in SUBSET Plugins
  /\ accepting \in [Plugins -> BOOLEAN]
  /\ nextId    \in [Plugins -> 0..TaskIdBound]
  /\ stage     \in [Plugins -> [TaskIds -> {"free", "released"} \cup Live]]
  /\ cancelled \in [Plugins -> SUBSET TaskIds]
  /\ caller    \in [Callers -> [pc : {"idle", "entry", "capable", "admitted", "holding"},
                                plugin : Plugins \cup {"none"}, task : 0..TaskIdBound]]

Idle == [pc |-> "idle", plugin |-> "none", task |-> 0]

Init ==
  /\ phase     = "Registering"
  /\ opKind    = "none"
  /\ opStep    = "none"
  /\ opTodo    = <<>>
  /\ records   = <<>>
  /\ pstate    = [p \in Plugins |-> "Absent"]
  /\ registry  = {}
  /\ catalog   = {}
  /\ failures  = [p \in Plugins |-> "none"]
  /\ rejected  = {}
  /\ accepting = [p \in Plugins |-> TRUE]
  /\ nextId    = [p \in Plugins |-> 0]
  /\ stage     = [p \in Plugins |-> [i \in TaskIds |-> "free"]]
  /\ cancelled = [p \in Plugins |-> {}]
  /\ caller    = [c \in Callers |-> Idle]

(* A definition commented "Faulty:" is the code with one mistake in it; no
   action uses it.  Put in the place of the definition it is named after, it
   breaks one of the properties at the end of the module. *)

(* The operation lock: taken by a Begin action, released by FinishOperation. *)
BeginOperation(kind, step, todo) ==
  /\ opKind  = "none"
  /\ opKind' = kind
  /\ opStep' = step
  /\ opTodo' = todo

At(kind, step) == opKind = kind /\ opStep = step /\ opTodo # <<>>

Goto(step) == opStep' = step /\ UNCHANGED <<opKind, opTodo>>

NextPlugin == opTodo' = Tail(opTodo) /\ opStep' = "claim" /\ UNCHANGED opKind

FinishOperation == opKind' = "none" /\ opStep' = "none" /\ opTodo' = <<>>

(* PluginContext::transition: a compare-exchange on the state *)
Transition(p, from, to) == pstate' = [pstate EXCEPT ![p] = IF @ = from THEN to ELSE @]

(* Faulty: the flags are set but the registry keeps accepting. *)
CancelAll_StaysOpen(p) ==
  /\ cancelled' = [cancelled EXCEPT ![p] = @ \cup Registered(p)]
  /\ UNCHANGED <<accepting, nextId, stage>>

(* PluginTaskRegistry::cancel_all, under the registry's own lock *)
CancelAll(p) ==
  /\ accepting' = [accepting EXCEPT ![p] = FALSE]
  /\ cancelled' = [cancelled EXCEPT ![p] = @ \cup Registered(p)]
  /\ UNCHANGED <<nextId, stage>>

(* Faulty: a failed catalog registration leaves the tools in the registry. *)
RegisterRollback_KeepsTools ==
  /\ At("register", "rollback")
  /\ rejected' = rejected \cup {current}
  /\ FinishOperation
  /\ UNCHANGED <<phase, records, pstate, registry, catalog, failures, taskVars, caller>>

(* Faulty: the failed plugin keeps its tools. *)
InitializeWithdraw_KeepsTools ==
  /\ At("initialize", "withdraw")
  /\ failures' = [failures EXCEPT ![current] = "Initialize"]
  /\ NextPlugin
  /\ UNCHANGED <<phase, records, pstate, registry, catalog, rejected, taskVars, caller>>

(* Faulty: `break` for `continue`, one failure ends the loop. *)
InitializeWithdraw_Breaks ==
  /\ At("initialize", "withdraw")
  /\ registry' = registry \ {current}
  /\ failures' = [failures EXCEPT ![current] = "Initialize"]
  /\ opTodo' = <<>> /\ opStep' = "claim" /\ UNCHANGED opKind
  /\ UNCHANGED <<phase, records, pstate, catalog, rejected, taskVars, caller>>

(* Faulty: no `.rev()`. *)
BeginShutdown_Forward ==
  /\ phase  \in {"Registering", "Running"}
  /\ phase' = "ShuttingDown"
  /\ BeginOperation("shutdown", "claim", records)
  /\ UNCHANGED <<records, pstate, registry, catalog, failures, rejected, taskVars, caller>>

(* Faulty: an error of plugin.shutdown returns from shutdown_all. *)
ShutdownCallback_Returns ==
  /\ At("shutdown", "callback")
  /\ \/ UNCHANGED failures /\ Goto("unload")
     \/ failures' = [failures EXCEPT ![current] = "Shutdown"] /\ FinishOperation
  /\ UNCHANGED <<phase, records, pstate, registry, catalog, rejected, taskVars, caller>>

-----------------------------------------------------------------------------
(* register_plugin *)

(* Refused before anything is written: registration is closed, the descriptor
   does not match the tools, the plugin id is already in the tool registry, or
   one of its entries is taken. *)
RegisterRejected(p) ==
  /\ opKind = "none"
  /\ \/ phase # "Registering"
     \/ p \notin Valid
     \/ p \in registry
     \/ EntriesOf[p] \cap ToolEntries # {}
  /\ rejected' = rejected \cup {p}
  /\ UNCHANGED <<phase, opKind, opStep, opTodo, records, pstate, registry,
                 catalog, failures, taskVars, caller>>

RegisterTools(p) ==
  /\ phase = "Registering"
  /\ p \in Valid \ registry
  /\ EntriesOf[p] \cap ToolEntries = {}
  /\ BeginOperation("register", "catalog", <<p>>)
  /\ registry' = registry \cup {p}
  /\ UNCHANGED <<phase, records, pstate, catalog, failures, rejected, taskVars, caller>>

(* PluginCatalog::register: the whole group or nothing *)
RegisterCatalog ==
  /\ At("register", "catalog")
  /\ LET fits == Cardinality(CatalogEntries) + Cardinality(EntriesOf[current]) <= MaxCatalog
     IN  IF fits
         THEN catalog' = catalog \cup {current} /\ Goto("record")
         ELSE UNCHANGED catalog /\ Goto("rollback")
  /\ UNCHANGED <<phase, records, pstate, registry, failures, rejected, taskVars, caller>>

RegisterRollback ==
  /\ At("register", "rollback")
  /\ registry' = registry \ {current}
  /\ rejected' = rejected \cup {current}
  /\ FinishOperation
  /\ UNCHANGED <<phase, records, pstate, catalog, failures, taskVars, caller>>

RegisterRecord ==
  /\ At("register", "record")
  /\ records' = Append(records, current)
  /\ pstate'  = [pstate EXCEPT ![current] = "Registered"]
  /\ FinishOperation
  /\ UNCHANGED <<phase, registry, catalog, failures, rejected, taskVars, caller>>

-----------------------------------------------------------------------------
(* initialize_all; a second call, or one after shutdown_all, does nothing. *)

BeginInitialize ==
  /\ phase  = "Registering"
  /\ phase' = "Running"
  /\ BeginOperation("initialize", "claim", records)
  /\ UNCHANGED <<records, pstate, registry, catalog, failures, rejected, taskVars, caller>>

InitializeClaim ==
  /\ At("initialize", "claim")
  /\ Transition(current, "Registered", "Initializing")
  /\ IF pstate[current] = "Registered" THEN Goto("prepare") ELSE NextPlugin
  /\ UNCHANGED <<phase, records, registry, catalog, failures, rejected, taskVars, caller>>

(* prepare_context: settings and secrets load, or they do not *)
InitializePrepare ==
  /\ At("initialize", "prepare")
  /\ Goto("callback") \/ Goto("stop")
  /\ UNCHANGED <<phase, records, pstate, registry, catalog, failures, rejected, taskVars, caller>>

InitializeReady ==
  /\ At("initialize", "callback")
  /\ Transition(current, "Initializing", "Ready")
  /\ NextPlugin
  /\ UNCHANGED <<phase, records, registry, catalog, failures, rejected, taskVars, caller>>

InitializeError ==
  /\ At("initialize", "callback")
  /\ Goto("stop")
  /\ UNCHANGED <<phase, records, pstate, registry, catalog, failures, rejected, taskVars, caller>>

(* Isolation of a plugin that failed: stop its tasks, ... *)
InitializeStop ==
  /\ At("initialize", "stop")
  /\ CancelAll(current)
  /\ Goto("fail")
  /\ UNCHANGED <<phase, records, pstate, registry, catalog, failures, rejected, caller>>

(* ... mark it, ... *)
InitializeFail ==
  /\ At("initialize", "fail")
  /\ Transition(current, "Initializing", "Failed")
  /\ Goto("withdraw")
  /\ UNCHANGED <<phase, records, registry, catalog, failures, rejected, taskVars, caller>>

(* ... withdraw its tools, note the failure and go on with the next one. *)
InitializeWithdraw ==
  /\ At("initialize", "withdraw")
  /\ registry' = registry \ {current}
  /\ failures' = [failures EXCEPT ![current] = "Initialize"]
  /\ NextPlugin
  /\ UNCHANGED <<phase, records, pstate, catalog, rejected, taskVars, caller>>

InitializeDone ==
  /\ opKind = "initialize" /\ opTodo = <<>>
  /\ FinishOperation
  /\ UNCHANGED <<phase, records, pstate, registry, catalog, failures, rejected, taskVars, caller>>

-----------------------------------------------------------------------------
(* shutdown_all; allowed without initialize_all, a second call does nothing. *)

BeginShutdown ==
  /\ phase  \in {"Registering", "Running"}
  /\ phase' = "ShuttingDown"
  /\ BeginOperation("shutdown", "claim", Reverse(records))
  /\ UNCHANGED <<records, pstate, registry, catalog, failures, rejected, taskVars, caller>>

ShutdownClaim ==
  /\ At("shutdown", "claim")
  /\ Transition(current, "Ready", "ShuttingDown")
  /\ Goto(IF pstate[current] = "Ready" THEN "stop" ELSE "unload")
  /\ UNCHANGED <<phase, records, registry, catalog, failures, rejected, taskVars, caller>>

ShutdownStop ==
  /\ At("shutdown", "stop")
  /\ CancelAll(current)
  /\ Goto("callback")
  /\ UNCHANGED <<phase, records, pstate, registry, catalog, failures, rejected, caller>>

(* plugin.shutdown returns, with or without an error *)
ShutdownCallback ==
  /\ At("shutdown", "callback")
  /\ \/ UNCHANGED failures
     \/ failures' = [failures EXCEPT ![current] = "Shutdown"]
  /\ Goto("unload")
  /\ UNCHANGED <<phase, records, pstate, registry, catalog, rejected, taskVars, caller>>

(* mark_unloaded, first half: stop_tasks ... *)
ShutdownUnload ==
  /\ At("shutdown", "unload")
  /\ CancelAll(current)
  /\ Goto("mark")
  /\ UNCHANGED <<phase, records, pstate, registry, catalog, failures, rejected, caller>>

(* ... second half: an unconditional store, over Failed too *)
ShutdownMark ==
  /\ At("shutdown", "mark")
  /\ pstate' = [pstate EXCEPT ![current] = "Unloaded"]
  /\ Goto("withdraw")
  /\ UNCHANGED <<phase, records, registry, catalog, failures, rejected, taskVars, caller>>

ShutdownWithdraw ==
  /\ At("shutdown", "withdraw")
  /\ registry' = registry \ {current}
  /\ Goto("uncatalog")
  /\ UNCHANGED <<phase, records, pstate, catalog, failures, rejected, taskVars, caller>>

ShutdownUncatalog ==
  /\ At("shutdown", "uncatalog")
  /\ catalog' = catalog \ {current}
  /\ NextPlugin
  /\ UNCHANGED <<phase, records, pstate, registry, failures, rejected, taskVars, caller>>

ShutdownDone ==
  /\ opKind = "shutdown" /\ opTodo = <<>>
  /\ phase' = "Stopped"
  /\ FinishOperation
  /\ UNCHANGED <<records, pstate, registry, catalog, failures, rejected, taskVars, caller>>

-----------------------------------------------------------------------------
(* Starting a task.  The three reads of the state and the admission into the
   registry are separate steps: the host may move on between any two. *)

SetCaller(c, pc, p, i) == caller' = [caller EXCEPT ![c] = [pc |-> pc, plugin |-> p, task |-> i]]
Leave(c) == caller' = [caller EXCEPT ![c] = Idle]

(* execute_entry: the record is found and Ready; its input and budget fit *)
ExecuteEntry(c, p) ==
  /\ caller[c].pc = "idle"
  /\ p \in ToSet(records)
  /\ pstate[p] = "Ready"
  /\ SetCaller(c, "entry", p, 0)
  /\ UNCHANGED <<hostVars, pstate, taskVars>>

(* start_task, first read: require_capability("task.scoped").  Reached from
   execute_entry, or from plugin code that kept its context. *)
RequireCapability(c, p) ==
  /\ \/ caller[c].pc = "entry" /\ caller[c].plugin = p
     \/ caller[c].pc = "idle" /\ pstate[p] \notin {"Absent", "Registered"}
  /\ IF pstate[p] \in Available /\ p \in Granted
     THEN SetCaller(c, "capable", p, 0)
     ELSE Leave(c)
  /\ UNCHANGED <<hostVars, pstate, taskVars>>

(* start_task, second read: a plugin that is shutting down gets no task *)
RefuseShuttingDown(c) ==
  /\ caller[c].pc = "capable"
  /\ IF pstate[caller[c].plugin] = "ShuttingDown"
     THEN Leave(c)
     ELSE SetCaller(c, "admitted", caller[c].plugin, 0)
  /\ UNCHANGED <<hostVars, pstate, taskVars>>

(* Faulty: the state was checked before, so `accepting` is not. *)
StartTask_TrustsState(c) ==
  /\ caller[c].pc = "admitted"
  /\ LET p == caller[c].plugin
         i == nextId[p] + 1
     IN  /\ Cardinality(Registered(p)) < MaxTasks
         /\ i <= TaskIdBound
         /\ nextId' = [nextId EXCEPT ![p] = i]
         /\ stage'  = [stage EXCEPT ![p][i] = "held"]
         /\ SetCaller(c, "holding", p, i)
  /\ UNCHANGED <<hostVars, pstate, accepting, cancelled>>

(* PluginTaskRegistry::start, under the registry's lock *)
StartTask(c) ==
  /\ caller[c].pc = "admitted"
  /\ LET p == caller[c].plugin
         i == nextId[p] + 1
     IN  /\ accepting[p]
         /\ BelowLimit(Registered(p))
         /\ i <= TaskIdBound
         /\ nextId' = [nextId EXCEPT ![p] = i]
         /\ stage'  = [stage EXCEPT ![p][i] = "held"]
         /\ SetCaller(c, "holding", p, i)
  /\ UNCHANGED <<hostVars, pstate, accepting, cancelled>>

(* NotAccepting or LimitReached *)
StartRefused(c) ==
  /\ caller[c].pc = "admitted"
  /\ LET p == caller[c].plugin
     IN  ~accepting[p] \/ ~BelowLimit(Registered(p))
  /\ Leave(c)
  /\ UNCHANGED <<hostVars, pstate, taskVars>>

(* plugin.execute returned an operation, and the handle is spawned with it *)
SpawnTask(c) ==
  /\ caller[c].pc = "holding"
  /\ stage' = [stage EXCEPT ![caller[c].plugin][caller[c].task] = "queued"]
  /\ Leave(c)
  /\ UNCHANGED <<hostVars, pstate, accepting, nextId, cancelled>>

(* plugin.execute failed: the handle is dropped, and with it the slot *)
DropHandle(c) ==
  /\ caller[c].pc = "holding"
  /\ stage' = [stage EXCEPT ![caller[c].plugin][caller[c].task] = "released"]
  /\ Leave(c)
  /\ UNCHANGED <<hostVars, pstate, accepting, nextId, cancelled>>

-----------------------------------------------------------------------------
(* A spawned task: run_operation on the executor, and its owner *)

MoveTask(p, i, from, to) ==
  /\ stage[p][i] \in from
  /\ stage' = [stage EXCEPT ![p][i] = to]
  /\ UNCHANGED <<hostVars, pstate, accepting, nextId, cancelled, caller>>

(* First poll: a flag that is already set ends the task before the operation
   is ever polled. *)
RunStart(p, i) == MoveTask(p, i, {"queued"}, IF i \in cancelled[p] THEN "Cancelled" ELSE "running")

(* The operation resolves; the arm wins the select over both others. *)
RunResolve(p, i) == \E r \in {"Completed", "Errored", "TooLarge"} : MoveTask(p, i, {"running"}, r)

(* Faulty: the timer only matters once cancellation was requested. *)
RunTimeout_OnlyCancelled(p, i) == i \in cancelled[p] /\ MoveTask(p, i, {"running"}, "TimedOut")

RunTimeout(p, i) == MoveTask(p, i, {"running"}, "TimedOut")

(* wait_for_cancellation saw the flag *)
RunCancel(p, i) == i \in cancelled[p] /\ MoveTask(p, i, {"running"}, "Cancelled")

(* PluginTaskExecution::request_cancel, or a write through the handle's
   cancellation_flag *)
RequestCancel(p, i) ==
  /\ i \in Registered(p)
  /\ cancelled' = [cancelled EXCEPT ![p] = @ \cup {i}]
  /\ UNCHANGED <<hostVars, pstate, accepting, nextId, stage, caller>>

(* join and detach keep the handle until the task has a result *)
JoinTask(p, i) == MoveTask(p, i, Results, "released")

(* The owner drops the execution: the executor drops the future as well *)
DropExecution(p, i) == MoveTask(p, i, {"queued", "running"}, "released")

-----------------------------------------------------------------------------
Register  == \/ \E p \in Plugins : RegisterRejected(p) \/ RegisterTools(p)
             \/ RegisterCatalog \/ RegisterRollback \/ RegisterRecord

InitializeStep == \/ InitializeClaim \/ InitializePrepare \/ InitializeReady
                  \/ InitializeError \/ InitializeStop \/ InitializeFail
                  \/ InitializeWithdraw \/ InitializeDone

ShutdownStep == \/ ShutdownClaim \/ ShutdownStop \/ ShutdownCallback \/ ShutdownUnload
                \/ ShutdownMark \/ ShutdownWithdraw \/ ShutdownUncatalog \/ ShutdownDone

CallerStep(c) == \/ \E p \in Plugins : ExecuteEntry(c, p) \/ RequireCapability(c, p)
                 \/ RefuseShuttingDown(c) \/ StartTask(c) \/ StartRefused(c)
                 \/ SpawnTask(c) \/ DropHandle(c)

TaskStep(p, i) == \/ RunStart(p, i) \/ RunResolve(p, i) \/ RunTimeout(p, i) \/ RunCancel(p, i)
                  \/ RequestCancel(p, i) \/ JoinTask(p, i) \/ DropExecution(p, i)

Next ==
  \/ Register
  \/ BeginInitialize \/ InitializeStep
  \/ BeginShutdown \/ ShutdownStep
  \/ \E c \in Callers : CallerStep(c)
  \/ \E p \in Plugins, i \in TaskIds : TaskStep(p, i)

(* Lifecycle callbacks return and the thread that holds operation_lock goes
   on; the executor polls queued tasks, and the timer of a running one fires.
   Nothing makes an operation resolve, a caller act, or an owner join. *)
Fairness ==
  /\ WF_vars(RegisterCatalog \/ RegisterRollback \/ RegisterRecord)
  /\ WF_vars(InitializeStep)
  /\ WF_vars(ShutdownStep)
  /\ \A p \in Plugins, i \in TaskIds : WF_vars(RunStart(p, i)) /\ WF_vars(RunTimeout(p, i))

Spec     == Init /\ [][Next]_vars
FairSpec == Spec /\ Fairness

-----------------------------------------------------------------------------
(* Properties *)

(* A context that failed or was unloaded has no task that was not told to
   stop: initialize_all and mark_unloaded call stop_tasks before they set the
   state, and start_task cannot slip a task in behind them although it read
   the state earlier (docs/05-plugin-development-guide.md:108-109). *)
NoOrphanTask ==
  \A p \in Plugins :
     pstate[p] \in {"Failed", "Unloaded"} => Registered(p) \subseteq cancelled[p]

(* However calls to start_task interleave, a context never holds more than
   MAX_PLUGIN_TASKS handles: the limit is tested and the slot taken under one
   lock, and a slot comes back only when the handle is dropped. *)
TasksBounded == \A p \in Plugins : Cardinality(Registered(p)) <= MaxTasks

(* A plugin that failed or was unloaded has tools in the registry only until
   the operation that brought it down reaches its unregister_plugin
   (docs/05-plugin-development-guide.md:156). *)
ToolsAreUsable ==
  \A p \in registry :
     pstate[p] \in {"Failed", "Unloaded"} => opStep = "withdraw" /\ p = current

(* Between operations the three collections agree: a registration that failed
   halfway left nothing behind, a failed initialization took its tools away,
   a shutdown emptied the registry and the catalog, and no entry has two
   owners. *)
HostConsistent ==
  opKind = "none" =>
     /\ registry = {p \in ToSet(records) : pstate[p] \in {"Registered", "Ready"}}
     /\ catalog  = IF phase = "Stopped" THEN {} ELSE ToSet(records)
     /\ \A p, q \in registry : p # q => EntriesOf[p] \cap EntriesOf[q] = {}

(* After initialize_all every accepted plugin is Ready, or Failed with an
   Initialize diagnostic: the failure of one neither blocks nor disables the
   ones behind it (docs/05-plugin-development-guide.md:105). *)
FailureIsolated ==
  phase = "Running" /\ opKind = "none" =>
     \A p \in ToSet(records) :
        pstate[p] = (IF failures[p] = "Initialize" THEN "Failed" ELSE "Ready")

(* Plugins go down in the reverse of the order they came up: when one is
   claimed for shutdown, every plugin registered after it is unloaded. *)
ReverseShutdown ==
  [][\A m, n \in 1..Len(records) :
        /\ m < n
        /\ pstate[records[m]] = "Ready"
        /\ pstate'[records[m]] = "ShuttingDown"
        => pstate[records[n]] = "Unloaded"]_vars

(* The contexts of the host are task scopes in the sense of TaskScope: the
   admission, cancellation and closing of tasks look atomic from outside. *)
Scope == INSTANCE TaskScope WITH
  Owners <- Plugins,
  Ids    <- TaskIds,
  HasRoom <- BelowLimit,
  open   <- accepting,
  active <- [p \in Plugins |-> Registered(p)],
  warned <- [p \in Plugins |-> cancelled[p] \cap Registered(p)]

ImplementsScope == Scope!Spec

(* Whatever callbacks return and callers do, shutdown_all reaches Stopped. *)
ShutdownCompletes == opKind = "shutdown" ~> phase = "Stopped"

(* A spawned operation does not outlive its budget: it ends by itself, by
   cancellation or by the timer, also when nobody joins it. *)
RunsEnd ==
  \A p \in Plugins, i \in TaskIds :
     stage[p][i] \in {"queued", "running"} ~> stage[p][i] \notin {"queued", "running"}
=============================================================================
