-------------------------- MODULE PluginHostProofs --------------------------
(***************************************************************************)
(* Proofs about PluginHost, for every set of plugins, every number of      *)
(* callers and every limit: the types, that a context which failed or was  *)
(* unloaded holds only tasks that were told to stop, that no context holds *)
(* more than MaxTasks tasks, that contexts are task scopes, and, in the    *)
(* last part, that registry, catalog and records agree between operations. *)
(*                                                                         *)
(* The argument.  NoOrphanTask is not inductive: the operation marks the   *)
(* context one step after it stopped the tasks, and callers that passed    *)
(* the state checks long ago may still arrive.  What carries the proof is  *)
(* that `accepting` decides: a closed registry holds flagged tasks only    *)
(* (ClosedIsFlagged), and whoever is about to mark a context, or has done  *)
(* so, has closed its registry (MarkedIsClosed, AboutToMark).  The other   *)
(* parts say which tasks exist (FreshIds) and who holds their handles      *)
(* (Handles).                                                              *)
(***************************************************************************)
EXTENDS PluginHost, FiniteSetTheorems, TLAPS

ClosedIsFlagged ==
  \A p \in Plugins : ~accepting[p] => Registered(p) \subseteq cancelled[p]

MarkedIsClosed ==
  \A p \in Plugins : pstate[p] \in {"Failed", "Unloaded"} => ~accepting[p]

AboutToMark ==
  At("initialize", "fail") \/ At("shutdown", "mark") => ~accepting[current]

FreshIds ==
  \A p \in Plugins :
     /\ cancelled[p] \subseteq 1..nextId[p]
     /\ \A i \in TaskIds : i > nextId[p] => stage[p][i] = "free"

Handles ==
  /\ \A c \in Callers : caller[c].pc # "idle" => caller[c].plugin \in Plugins
  /\ \A c \in Callers : caller[c].pc = "holding" =>
        /\ caller[c].task \in TaskIds
        /\ stage[caller[c].plugin][caller[c].task] = "held"
  /\ \A c, d \in Callers :
        c # d /\ caller[c].pc = "holding" /\ caller[d].pc = "holding" =>
        <<caller[c].plugin, caller[c].task>> # <<caller[d].plugin, caller[d].task>>

IInv ==
  /\ TypeOK
  /\ ClosedIsFlagged
  /\ MarkedIsClosed
  /\ AboutToMark
  /\ FreshIds
  /\ Handles

-----------------------------------------------------------------------------
(* Types *)

(* The records read backwards are records. *)
LEMMA ReverseType ==
  ASSUME NEW S, NEW s \in Seq(S)
  PROVE  Reverse(s) \in Seq(S)
BY DEF Reverse

(* The plugin an operation is at exists. *)
LEMMA CurrentType ==
  ASSUME TypeOK, opTodo # <<>>
  PROVE  current \in Plugins /\ Tail(opTodo) \in Seq(Plugins)
BY DEF TypeOK, current

(* register_plugin: each of its writes keeps the types. *)
LEMMA RegisterTypes ==
  ASSUME TypeOK, Register
  PROVE  TypeOK'
<1>1. ASSUME NEW p \in Plugins, RegisterRejected(p) PROVE TypeOK'
  BY <1>1 DEF TypeOK, RegisterRejected, taskVars
<1>2. ASSUME NEW p \in Plugins, RegisterTools(p) PROVE TypeOK'
  BY <1>2 DEF TypeOK, RegisterTools, BeginOperation, taskVars
<1>3. CASE RegisterCatalog
  BY <1>3, CurrentType DEF TypeOK, RegisterCatalog, At, Goto, taskVars
<1>4. CASE RegisterRollback
  BY <1>4, CurrentType DEF TypeOK, RegisterRollback, At, FinishOperation, taskVars
<1>5. CASE RegisterRecord
  BY <1>5, CurrentType DEF TypeOK, RegisterRecord, At, FinishOperation, PluginState, taskVars
<1> QED
  BY <1>1, <1>2, <1>3, <1>4, <1>5 DEF Register

(* initialize_all, from the change of phase to the last plugin. *)
LEMMA InitializeTypes ==
  ASSUME TypeOK, BeginInitialize \/ InitializeStep
  PROVE  TypeOK'
<1>1. CASE BeginInitialize
  BY <1>1 DEF TypeOK, BeginInitialize, BeginOperation, HostPhase, taskVars
<1>2. CASE InitializeClaim
  BY <1>2, CurrentType DEF TypeOK, InitializeClaim, At, Goto, NextPlugin, Transition, PluginState, taskVars
<1>3. CASE InitializePrepare
  BY <1>3 DEF TypeOK, InitializePrepare, At, Goto, taskVars
<1>4. CASE InitializeReady
  BY <1>4, CurrentType DEF TypeOK, InitializeReady, At, NextPlugin, Transition, PluginState, taskVars
<1>5. CASE InitializeError
  BY <1>5 DEF TypeOK, InitializeError, At, Goto, taskVars
<1>6. CASE InitializeStop
  BY <1>6, CurrentType DEF TypeOK, InitializeStop, At, Goto, CancelAll, Registered
<1>7. CASE InitializeFail
  BY <1>7, CurrentType DEF TypeOK, InitializeFail, At, Goto, Transition, PluginState, taskVars
<1>8. CASE InitializeWithdraw
  BY <1>8, CurrentType DEF TypeOK, InitializeWithdraw, At, NextPlugin, taskVars
<1>9. CASE InitializeDone
  BY <1>9 DEF TypeOK, InitializeDone, FinishOperation, taskVars
<1> QED
  BY <1>1, <1>2, <1>3, <1>4, <1>5, <1>6, <1>7, <1>8, <1>9 DEF InitializeStep

(* shutdown_all, from the change of phase to the last plugin. *)
LEMMA ShutdownTypes ==
  ASSUME TypeOK, BeginShutdown \/ ShutdownStep
  PROVE  TypeOK'
<1>1. CASE BeginShutdown
  <2>1. Reverse(records) \in Seq(Plugins)
    BY ReverseType DEF TypeOK
  <2> QED
    BY <1>1, <2>1 DEF TypeOK, BeginShutdown, BeginOperation, HostPhase, taskVars
<1>2. CASE ShutdownClaim
  BY <1>2, CurrentType DEF TypeOK, ShutdownClaim, At, Goto, Transition, PluginState, taskVars
<1>3. CASE ShutdownStop
  BY <1>3, CurrentType DEF TypeOK, ShutdownStop, At, Goto, CancelAll, Registered
<1>4. CASE ShutdownCallback
  BY <1>4, CurrentType DEF TypeOK, ShutdownCallback, At, Goto, taskVars
<1>5. CASE ShutdownUnload
  BY <1>5, CurrentType DEF TypeOK, ShutdownUnload, At, Goto, CancelAll, Registered
<1>6. CASE ShutdownMark
  BY <1>6, CurrentType DEF TypeOK, ShutdownMark, At, Goto, PluginState, taskVars
<1>7. CASE ShutdownWithdraw
  BY <1>7, CurrentType DEF TypeOK, ShutdownWithdraw, At, Goto, taskVars
<1>8. CASE ShutdownUncatalog
  BY <1>8, CurrentType DEF TypeOK, ShutdownUncatalog, At, NextPlugin, taskVars
<1>9. CASE ShutdownDone
  BY <1>9 DEF TypeOK, ShutdownDone, FinishOperation, HostPhase, taskVars
<1> QED
  BY <1>1, <1>2, <1>3, <1>4, <1>5, <1>6, <1>7, <1>8, <1>9 DEF ShutdownStep

CallerType ==
  [Callers -> [pc : {"idle", "entry", "capable", "admitted", "holding"},
               plugin : Plugins \cup {"none"}, task : 0..TaskIdBound]]

(* What a caller becomes, as a record of the right type *)
LEMMA CallerRecord ==
  ASSUME TypeOK, NEW c \in Callers, NEW p \in Plugins \cup {"none"}, NEW i \in 0..TaskIdBound,
         NEW pc \in {"idle", "entry", "capable", "admitted", "holding"}
  PROVE  [caller EXCEPT ![c] = [pc |-> pc, plugin |-> p, task |-> i]] \in CallerType
BY DEF TypeOK, CallerType

(* Callers inside execute_entry and start_task. *)
LEMMA CallerTypes ==
  ASSUME TypeOK, Handles, NEW c \in Callers, CallerStep(c)
  PROVE  TypeOK'
<1> USE TaskIdNat
<1>1. ASSUME NEW p \in Plugins, ExecuteEntry(c, p) PROVE TypeOK'
  BY <1>1 DEF TypeOK, ExecuteEntry, SetCaller, hostVars, taskVars
<1>2. ASSUME NEW p \in Plugins, RequireCapability(c, p) PROVE TypeOK'
  <2>1. UNCHANGED <<hostVars, pstate, taskVars>>
    BY <1>2 DEF RequireCapability
  <2>2. CASE Leave(c)
    BY <2>1, <2>2, CallerRecord DEF TypeOK, CallerType, Leave, Idle, hostVars, taskVars
  <2>3. CASE SetCaller(c, "capable", p, 0)
    BY <2>1, <2>3, CallerRecord DEF TypeOK, CallerType, SetCaller, hostVars, taskVars
  <2> QED
    BY <1>2, <2>2, <2>3 DEF RequireCapability
<1>3. CASE RefuseShuttingDown(c)
  <2>1. caller[c].plugin \in Plugins \cup {"none"}
    BY DEF TypeOK
  <2>2. UNCHANGED <<hostVars, pstate, taskVars>>
    BY <1>3 DEF RefuseShuttingDown
  <2>3. Leave(c) \/ SetCaller(c, "admitted", caller[c].plugin, 0)
    BY <1>3 DEF RefuseShuttingDown
  <2>4. caller' \in CallerType
    <3>1. CASE Leave(c)
      BY <3>1, CallerRecord DEF CallerType, Leave, Idle
    <3>2. CASE SetCaller(c, "admitted", caller[c].plugin, 0)
      BY <3>2, <2>1, CallerRecord DEF CallerType, SetCaller
    <3> QED
      BY <2>3, <3>1, <3>2
  <2> QED
    BY <2>2, <2>4 DEF TypeOK, CallerType, hostVars, taskVars
<1>4. CASE StartTask(c)
  <2> DEFINE p == caller[c].plugin
             i == nextId[p] + 1
  <2>1. p \in Plugins /\ i \in TaskIds
    BY <1>4 DEF TypeOK, Handles, StartTask, TaskIds
  <2>2. caller' \in CallerType
    BY <1>4, <2>1, CallerRecord DEF CallerType, StartTask, SetCaller, TaskIds
  <2> QED
    BY <1>4, <2>1, <2>2 DEF TypeOK, CallerType, StartTask, Live, TaskIds, hostVars
<1>5. CASE StartRefused(c)
  BY <1>5 DEF TypeOK, StartRefused, Leave, Idle, hostVars, taskVars
<1>6. CASE SpawnTask(c)
  BY <1>6 DEF TypeOK, Handles, SpawnTask, Leave, Idle, Live, hostVars
<1>7. CASE DropHandle(c)
  BY <1>7 DEF TypeOK, Handles, DropHandle, Leave, Idle, hostVars
<1> QED
  BY <1>1, <1>2, <1>3, <1>4, <1>5, <1>6, <1>7 DEF CallerStep

(* Every step of a task but RequestCancel is a MoveTask out of a live stage,
   never from "held", into a live stage or "released". *)
LEMMA TaskMoves ==
  ASSUME NEW p, NEW i, TaskStep(p, i)
  PROVE  \/ RequestCancel(p, i)
         \/ /\ stage[p][i] \in Live \ {"held"}
            /\ \E to \in (Live \ {"held"}) \cup {"released"} : 
                  stage' = [stage EXCEPT ![p][i] = to]
            /\ UNCHANGED <<hostVars, pstate, accepting, nextId, cancelled, caller>>
BY DEF TaskStep, RunStart, RunResolve, RunTimeout, RunCancel, JoinTask, DropExecution,
       MoveTask, Live, Results

(* Tasks, from their spawning to join, detach or drop. *)
LEMMA TaskTypes ==
  ASSUME TypeOK, NEW p \in Plugins, NEW i \in TaskIds, TaskStep(p, i)
  PROVE  TypeOK'
<1>1. CASE RequestCancel(p, i)
  BY <1>1 DEF TypeOK, RequestCancel, hostVars
<1>2. CASE ~RequestCancel(p, i)
  <2>1. PICK to \in (Live \ {"held"}) \cup {"released"} : stage' = [stage EXCEPT ![p][i] = to]
    BY <1>2, TaskMoves
  <2>2. UNCHANGED <<hostVars, pstate, accepting, nextId, cancelled, caller>>
    BY <1>2, TaskMoves
  <2> QED
    BY <2>1, <2>2 DEF TypeOK, hostVars
<1> QED
  BY <1>1, <1>2

-----------------------------------------------------------------------------
(* The inductive invariant *)

(* A host step that touches neither tasks nor callers, brings down no context
   with an open registry and is not about to. *)
LEMMA QuietStep ==
  ASSUME IInv, TypeOK', UNCHANGED <<taskVars, caller>>,
         \A p \in Plugins : pstate'[p] \in {"Failed", "Unloaded"} => ~accepting[p],
         ~At("initialize", "fail")', ~At("shutdown", "mark")'
  PROVE  IInv'
<1>1. ClosedIsFlagged' /\ FreshIds'
  BY DEF IInv, ClosedIsFlagged, FreshIds, Registered, taskVars
<1>2. Handles'
  BY DEF IInv, Handles, taskVars
<1>3. MarkedIsClosed'
  BY DEF MarkedIsClosed, taskVars
<1>4. AboutToMark'
  BY DEF AboutToMark
<1> QED
  BY <1>1, <1>2, <1>3, <1>4 DEF IInv

(* stop_tasks on the current plugin *)
LEMMA StopStep ==
  ASSUME IInv, TypeOK', opTodo # <<>>, CancelAll(current), UNCHANGED <<pstate, opTodo, caller>>
  PROVE  IInv'
<1>1. current \in Plugins
  BY CurrentType DEF IInv
<1>2. /\ accepting' = [accepting EXCEPT ![current] = FALSE]
      /\ cancelled' = [cancelled EXCEPT ![current] = @ \cup Registered(current)]
      /\ nextId' = nextId /\ stage' = stage /\ pstate' = pstate /\ current' = current
  BY DEF CancelAll, current
<1>3. ClosedIsFlagged'
  BY <1>1, <1>2 DEF IInv, TypeOK, ClosedIsFlagged, Registered
<1>4. MarkedIsClosed'
  BY <1>1, <1>2 DEF IInv, TypeOK, MarkedIsClosed
<1>5. AboutToMark'
  BY <1>1, <1>2 DEF IInv, TypeOK, AboutToMark
<1>6. FreshIds'
  <2> SUFFICES ASSUME NEW p \in Plugins
               PROVE  /\ cancelled'[p] \subseteq 1..nextId[p]
                      /\ \A i \in TaskIds : i > nextId[p] => stage[p][i] = "free"
    BY <1>2 DEF FreshIds
  <2>1. Registered(p) \subseteq 1..nextId[p]
    <3> SUFFICES ASSUME NEW i \in Registered(p)
                 PROVE  i \in 1..nextId[p]
      OBVIOUS
    <3>1. i \in TaskIds /\ stage[p][i] # "free"
      BY DEF Registered, Live, Results
    <3> QED
      BY <3>1, TaskIdNat DEF IInv, TypeOK, FreshIds, TaskIds
  <2> QED
    BY <1>1, <1>2, <2>1 DEF IInv, TypeOK, FreshIds
<1>7. Handles'
  BY DEF CancelAll, IInv, Handles
<1> QED
  BY <1>3, <1>4, <1>5, <1>6, <1>7 DEF IInv

(* Registering touches no task registry. *)
LEMMA RegisterInv ==
  ASSUME IInv, Register
  PROVE  IInv'
<1> USE DEF IInv
<1>1. TypeOK'
  BY RegisterTypes
<1>2. UNCHANGED <<taskVars, caller>>
  BY DEF Register, RegisterRejected, RegisterTools, RegisterCatalog, RegisterRollback, RegisterRecord
<1>3. \A p \in Plugins : pstate'[p] \in {"Failed", "Unloaded"} => ~accepting[p]
  <2>1. CASE RegisterRecord
    BY <2>1, CurrentType DEF RegisterRecord, At, MarkedIsClosed, TypeOK
  <2>2. CASE UNCHANGED pstate
    BY <2>2 DEF MarkedIsClosed
  <2> QED
    BY <2>1, <2>2 DEF Register, RegisterRejected, RegisterTools, RegisterCatalog, RegisterRollback
<1>4. ~At("initialize", "fail")' /\ ~At("shutdown", "mark")'
  <2>1. opKind' \in {"none", "register"}
    BY DEF Register, RegisterRejected, RegisterTools, RegisterCatalog, RegisterRollback,
           RegisterRecord, BeginOperation, FinishOperation, Goto, At
  <2> QED
    BY <2>1 DEF At
<1> QED
  BY <1>1, <1>2, <1>3, <1>4, QuietStep

(* A failed initialization closes the registry before it marks the context. *)
LEMMA InitializeInv ==
  ASSUME IInv, BeginInitialize \/ InitializeStep
  PROVE  IInv'
<1>1. TypeOK'
  BY InitializeTypes DEF IInv
<1>2. CASE InitializeStop
  <2>1. opTodo # <<>> /\ CancelAll(current) /\ UNCHANGED <<pstate, opTodo, caller>>
    BY <1>2 DEF InitializeStop, At, Goto
  <2> QED
    BY <1>1, <2>1, StopStep
<1>3. CASE InitializeFail
  <2>1. \A p \in Plugins : pstate'[p] \in {"Failed", "Unloaded"} => ~accepting[p]
    BY <1>3, CurrentType DEF InitializeFail, Transition, At, AboutToMark, MarkedIsClosed, IInv, TypeOK
  <2>2. ~At("initialize", "fail")' /\ ~At("shutdown", "mark")'
    BY <1>3 DEF InitializeFail, At, Goto
  <2> QED
    BY <1>1, <1>3, <2>1, <2>2, QuietStep DEF InitializeFail
<1>4. CASE ~InitializeStop /\ ~InitializeFail
  <2>1. UNCHANGED <<taskVars, caller>>
    BY <1>4 DEF BeginInitialize, InitializeStep, InitializeClaim, InitializePrepare, InitializeReady,
                InitializeError, InitializeWithdraw, InitializeDone
  <2>2. ~At("initialize", "fail")' /\ ~At("shutdown", "mark")'
    BY <1>4 DEF BeginInitialize, InitializeStep, InitializeClaim, InitializePrepare, InitializeReady,
                InitializeError, InitializeWithdraw, InitializeDone, BeginOperation, FinishOperation,
                Goto, NextPlugin, At
  <2>3. \A p \in Plugins : pstate'[p] \in {"Failed", "Unloaded"} => ~accepting[p]
    <3>1. CASE UNCHANGED pstate
      BY <3>1 DEF IInv, MarkedIsClosed
    <3>2. CASE Transition(current, "Registered", "Initializing") \/ Transition(current, "Initializing", "Ready")
      BY <3>2 DEF Transition, IInv, TypeOK, MarkedIsClosed
    <3> QED
      BY <1>4, <3>1, <3>2 DEF BeginInitialize, InitializeStep, InitializeClaim, InitializePrepare,
                InitializeReady, InitializeError, InitializeWithdraw, InitializeDone
  <2> QED
    BY <1>1, <2>1, <2>2, <2>3, QuietStep
<1> QED
  BY <1>2, <1>3, <1>4

(* Unloading closes the registry before it marks the context. *)
LEMMA ShutdownInv ==
  ASSUME IInv, BeginShutdown \/ ShutdownStep
  PROVE  IInv'
<1>1. TypeOK'
  BY ShutdownTypes DEF IInv
<1>2. CASE ShutdownStop \/ ShutdownUnload
  <2>1. opTodo # <<>> /\ CancelAll(current) /\ UNCHANGED <<pstate, opTodo, caller>>
    BY <1>2 DEF ShutdownStop, ShutdownUnload, At, Goto
  <2> QED
    BY <1>1, <2>1, StopStep
<1>3. CASE ShutdownMark
  <2>1. \A p \in Plugins : pstate'[p] \in {"Failed", "Unloaded"} => ~accepting[p]
    BY <1>3, CurrentType DEF ShutdownMark, At, AboutToMark, MarkedIsClosed, IInv, TypeOK
  <2>2. ~At("initialize", "fail")' /\ ~At("shutdown", "mark")'
    BY <1>3 DEF ShutdownMark, At, Goto
  <2> QED
    BY <1>1, <1>3, <2>1, <2>2, QuietStep DEF ShutdownMark
<1>4. CASE ~ShutdownStop /\ ~ShutdownUnload /\ ~ShutdownMark
  <2>1. UNCHANGED <<taskVars, caller>>
    BY <1>4 DEF BeginShutdown, ShutdownStep, ShutdownClaim, ShutdownCallback, ShutdownWithdraw,
                ShutdownUncatalog, ShutdownDone
  <2>2. ~At("initialize", "fail")' /\ ~At("shutdown", "mark")'
    BY <1>4 DEF BeginShutdown, ShutdownStep, ShutdownClaim, ShutdownCallback, ShutdownWithdraw,
                ShutdownUncatalog, ShutdownDone, BeginOperation, FinishOperation, Goto, NextPlugin, At
  <2>3. \A p \in Plugins : pstate'[p] \in {"Failed", "Unloaded"} => ~accepting[p]
    <3>1. CASE UNCHANGED pstate
      BY <3>1 DEF IInv, MarkedIsClosed
    <3>2. CASE Transition(current, "Ready", "ShuttingDown")
      BY <3>2 DEF Transition, IInv, TypeOK, MarkedIsClosed
    <3> QED
      BY <1>4, <3>1, <3>2 DEF BeginShutdown, ShutdownStep, ShutdownClaim, ShutdownCallback,
                ShutdownWithdraw, ShutdownUncatalog, ShutdownDone
  <2> QED
    BY <1>1, <2>1, <2>2, <2>3, QuietStep
<1> QED
  BY <1>2, <1>3, <1>4

(* The host's own part of the invariant does not see callers and tasks. *)
LEMMA HostPart ==
  ASSUME IInv, UNCHANGED <<hostVars, pstate, accepting>>
  PROVE  MarkedIsClosed' /\ AboutToMark'
BY DEF IInv, MarkedIsClosed, AboutToMark, At, current, hostVars

(* A caller that moves on without touching a task *)
LEMMA CallerQuiet ==
  ASSUME IInv, TypeOK', NEW c \in Callers, UNCHANGED <<hostVars, pstate, taskVars>>,
         \/ Leave(c)
         \/ \E p \in Plugins, pc \in {"entry", "capable", "admitted"} : SetCaller(c, pc, p, 0)
  PROVE  IInv'
<1>1. MarkedIsClosed' /\ AboutToMark'
  BY HostPart DEF taskVars
<1>2. ClosedIsFlagged' /\ FreshIds'
  BY DEF IInv, ClosedIsFlagged, FreshIds, Registered, taskVars
<1>3. /\ \A d \in Callers : d # c => caller'[d] = caller[d]
      /\ caller'[c].pc # "holding"
      /\ caller'[c].pc # "idle" => caller'[c].plugin \in Plugins
  BY DEF IInv, TypeOK, Leave, Idle, SetCaller
<1>4. Handles'
  BY <1>3 DEF IInv, Handles, taskVars
<1> QED
  BY <1>1, <1>2, <1>4 DEF IInv

(* A caller that spawns its handle or drops it: the task stays what it was to
   everybody else. *)
LEMMA HandOver ==
  ASSUME IInv, TypeOK', NEW c \in Callers, caller[c].pc = "holding", Leave(c),
         NEW to \in {"queued", "released"},
         stage' = [stage EXCEPT ![caller[c].plugin][caller[c].task] = to],
         UNCHANGED <<hostVars, pstate, accepting, nextId, cancelled>>
  PROVE  IInv'
<1> DEFINE p == caller[c].plugin
           i == caller[c].task
<1>1. p \in Plugins /\ i \in TaskIds /\ stage[p][i] = "held"
  BY DEF IInv, Handles
<1>2. MarkedIsClosed' /\ AboutToMark'
  BY HostPart
<1>3. \A q \in Plugins : Registered(q)' \subseteq Registered(q)
  BY <1>1 DEF Registered, IInv, TypeOK, Live
<1>4. ClosedIsFlagged'
  BY <1>3 DEF IInv, ClosedIsFlagged
<1>5. FreshIds'
  BY <1>1 DEF IInv, TypeOK, FreshIds
<1>6. Handles'
  <2>1. /\ \A d \in Callers : d # c => caller'[d] = caller[d]
        /\ caller'[c].pc = "idle"
    BY DEF IInv, TypeOK, Leave, Idle
  <2>2. ASSUME NEW d \in Callers, caller'[d].pc = "holding"
        PROVE  caller'[d].task \in TaskIds /\ stage'[caller'[d].plugin][caller'[d].task] = "held"
    <3>1. d # c /\ caller'[d] = caller[d] /\ caller[d].pc = "holding"
      BY <2>1, <2>2
    <3>2. /\ caller[d].plugin \in Plugins /\ caller[d].task \in TaskIds
          /\ stage[caller[d].plugin][caller[d].task] = "held"
      BY <3>1 DEF IInv, Handles
    <3>3. caller[d].plugin # p \/ caller[d].task # i
      BY <3>1 DEF IInv, Handles
    <3> QED
      BY <1>1, <3>1, <3>2, <3>3 DEF IInv, TypeOK
  <2> QED
    BY <2>1, <2>2 DEF IInv, Handles
<1> QED
  BY <1>2, <1>4, <1>5, <1>6 DEF IInv

(* start in plugin_tasks.rs adds to an open registry only, under a fresh id. *)
LEMMA StartInv ==
  ASSUME IInv, TypeOK', NEW c \in Callers, StartTask(c)
  PROVE  IInv'
<1> DEFINE p == caller[c].plugin
           i == nextId[p] + 1
<1>1. /\ p \in Plugins /\ i \in TaskIds /\ accepting[p]
      /\ nextId' = [nextId EXCEPT ![p] = i]
      /\ stage'  = [stage EXCEPT ![p][i] = "held"]
      /\ caller' = [caller EXCEPT ![c] = [pc |-> "holding", plugin |-> p, task |-> i]]
      /\ UNCHANGED <<hostVars, pstate, accepting, cancelled>>
  BY TaskIdNat DEF IInv, TypeOK, Handles, StartTask, SetCaller, TaskIds
<1>2. stage[p][i] = "free"
  BY <1>1, TaskIdNat DEF IInv, TypeOK, FreshIds, TaskIds
<1>3. MarkedIsClosed' /\ AboutToMark'
  BY <1>1, HostPart
<1>4. ClosedIsFlagged'
  BY <1>1 DEF IInv, TypeOK, ClosedIsFlagged, Registered
<1>5. FreshIds'
  BY <1>1, TaskIdNat DEF IInv, TypeOK, FreshIds, TaskIds
<1>6. Handles'
  <2>1. /\ \A d \in Callers : d # c => caller'[d] = caller[d]
        /\ caller'[c] = [pc |-> "holding", plugin |-> p, task |-> i]
    BY <1>1 DEF IInv, TypeOK
  <2>2. ASSUME NEW d \in Callers, d # c, caller'[d].pc = "holding"
        PROVE  /\ caller'[d].plugin \in Plugins /\ caller'[d].task \in TaskIds
               /\ stage'[caller'[d].plugin][caller'[d].task] = "held"
               /\ <<caller'[d].plugin, caller'[d].task>> # <<p, i>>
    <3>1. /\ caller[d].plugin \in Plugins /\ caller[d].task \in TaskIds
          /\ stage[caller[d].plugin][caller[d].task] = "held"
      BY <2>1, <2>2 DEF IInv, Handles
    <3> QED
      BY <1>1, <1>2, <2>1, <2>2, <3>1 DEF IInv, TypeOK
  <2>3. stage'[p][i] = "held"
    BY <1>1 DEF IInv, TypeOK
  <2> QED
    BY <1>1, <2>1, <2>2, <2>3 DEF IInv, Handles
<1> QED
  BY <1>3, <1>4, <1>5, <1>6 DEF IInv

(* No step of a caller breaks the invariant. *)
LEMMA CallerInv ==
  ASSUME IInv, NEW c \in Callers, CallerStep(c)
  PROVE  IInv'
<1>1. TypeOK'
  BY CallerTypes DEF IInv
<1>2. ASSUME NEW p \in Plugins, ExecuteEntry(c, p) \/ RequireCapability(c, p) PROVE IInv'
  BY <1>1, <1>2, CallerQuiet DEF ExecuteEntry, RequireCapability
<1>3. CASE RefuseShuttingDown(c)
  <2>1. caller[c].plugin \in Plugins
    BY <1>3 DEF RefuseShuttingDown, IInv, Handles
  <2> QED
    BY <1>1, <1>3, <2>1, CallerQuiet DEF RefuseShuttingDown
<1>4. CASE StartTask(c)
  BY <1>1, <1>4, StartInv
<1>5. CASE StartRefused(c)
  BY <1>1, <1>5, CallerQuiet DEF StartRefused
<1>6. CASE SpawnTask(c)
  BY <1>1, <1>6, HandOver DEF SpawnTask
<1>7. CASE DropHandle(c)
  BY <1>1, <1>7, HandOver DEF DropHandle
<1> QED
  BY <1>2, <1>3, <1>4, <1>5, <1>6, <1>7 DEF CallerStep

(* No step of a task does: handles leave the registry, flags are only set. *)
LEMMA TaskInv ==
  ASSUME IInv, NEW p \in Plugins, NEW i \in TaskIds, TaskStep(p, i)
  PROVE  IInv'
<1>1. TypeOK'
  BY TaskTypes DEF IInv
<1>2. CASE RequestCancel(p, i)
  <2>1. /\ i \in Registered(p) /\ cancelled' = [cancelled EXCEPT ![p] = @ \cup {i}]
        /\ UNCHANGED <<hostVars, pstate, accepting, nextId, stage, caller>>
    BY <1>2 DEF RequestCancel
  <2>2. MarkedIsClosed' /\ AboutToMark' /\ Handles'
    BY <2>1, HostPart DEF IInv, Handles
  <2>3. ClosedIsFlagged'
    BY <2>1 DEF IInv, TypeOK, ClosedIsFlagged, Registered
  <2>4. i \in 1..nextId[p]
    BY <2>1, TaskIdNat DEF IInv, TypeOK, FreshIds, Registered, TaskIds, Live, Results
  <2>5. FreshIds'
    BY <2>1, <2>4 DEF IInv, TypeOK, FreshIds
  <2> QED
    BY <1>1, <2>2, <2>3, <2>5 DEF IInv
<1>3. CASE ~RequestCancel(p, i)
  <2>1. /\ stage[p][i] \in Live \ {"held"}
        /\ UNCHANGED <<hostVars, pstate, accepting, nextId, cancelled, caller>>
    BY <1>3, TaskMoves
  <2>2. PICK to \in (Live \ {"held"}) \cup {"released"} : stage' = [stage EXCEPT ![p][i] = to]
    BY <1>3, TaskMoves
  <2>3. MarkedIsClosed' /\ AboutToMark'
    BY <2>1, HostPart
  <2>4. \A q \in Plugins : Registered(q)' \subseteq Registered(q)
    BY <2>1, <2>2 DEF Registered, IInv, TypeOK
  <2>5. ClosedIsFlagged'
    BY <2>1, <2>4 DEF IInv, ClosedIsFlagged
  <2>6. FreshIds'
    BY <2>1, <2>2 DEF IInv, TypeOK, FreshIds, Live, Results
  <2>7. Handles'
    BY <2>1, <2>2 DEF IInv, TypeOK, Handles
  <2> QED
    BY <1>1, <2>3, <2>5, <2>6, <2>7 DEF IInv
<1> QED
  BY <1>2, <1>3

(* The host starts within the invariant. *)
LEMMA InitInv == Init => IInv
<1> SUFFICES ASSUME Init PROVE IInv
  OBVIOUS
<1> USE DEF Init
<1>1. TypeOK
  BY TaskIdNat DEF TypeOK, HostPhase, Idle
<1>2. ClosedIsFlagged /\ MarkedIsClosed /\ AboutToMark /\ FreshIds
  BY DEF ClosedIsFlagged, MarkedIsClosed, AboutToMark, At, FreshIds
<1>3. Handles
  BY DEF Handles, Idle
<1> QED
  BY <1>1, <1>2, <1>3 DEF IInv

(* The invariant is inductive. *)
LEMMA NextInv == IInv /\ [Next]_vars => IInv'
<1> SUFFICES ASSUME IInv, [Next]_vars PROVE IInv'
  OBVIOUS
<1>1. CASE Register
  BY <1>1, RegisterInv
<1>2. CASE BeginInitialize \/ InitializeStep
  BY <1>2, InitializeInv
<1>3. CASE BeginShutdown \/ ShutdownStep
  BY <1>3, ShutdownInv
<1>4. ASSUME NEW c \in Callers, CallerStep(c) PROVE IInv'
  BY <1>4, CallerInv
<1>5. ASSUME NEW p \in Plugins, NEW i \in TaskIds, TaskStep(p, i) PROVE IInv'
  BY <1>5, TaskInv
<1>6. CASE UNCHANGED vars
  BY <1>6 DEF vars, IInv, TypeOK, ClosedIsFlagged, MarkedIsClosed, AboutToMark, At, current,
              FreshIds, Handles, Registered
<1> QED
  BY <1>1, <1>2, <1>3, <1>4, <1>5, <1>6 DEF Next

-----------------------------------------------------------------------------
(* The theorems *)

(* The host never leaves the invariant behind NoOrphanTask, whatever the callers do. *)
THEOREM Invariance == Spec => []IInv
BY InitInv, NextInv, PTL DEF Spec

(* Every variable keeps its type in every behaviour of the host. *)
THEOREM TypeCorrect == Spec => []TypeOK
<1>1. IInv => TypeOK
  BY DEF IInv
<1> QED
  BY <1>1, Invariance, PTL

(* A failed or unloaded context only holds tasks that were told to stop:
   stop_tasks comes before the state, and nothing is admitted behind it. *)
THEOREM NoOrphans == Spec => []NoOrphanTask
<1>1. IInv => NoOrphanTask
  BY DEF IInv, ClosedIsFlagged, MarkedIsClosed, NoOrphanTask
<1> QED
  BY <1>1, Invariance, PTL

-----------------------------------------------------------------------------
(* Contexts implement TaskScope *)

(* What a step does to the tasks, in terms of the host's variables *)
LEMMA StepOnTasks ==
  ASSUME IInv, Next
  PROVE  \/ UNCHANGED taskVars
         \/ \E p \in Plugins : CancelAll(p)
         \/ \E c \in Callers : StartTask(c)
         \/ \E p \in Plugins, i \in TaskIds : RequestCancel(p, i)
         \/ \E p \in Plugins, i \in TaskIds, to \in (Live \ {"held"}) \cup {"released"} :
               /\ stage[p][i] \in Live
               /\ stage' = [stage EXCEPT ![p][i] = to]
               /\ UNCHANGED <<accepting, nextId, cancelled>>
<1>1. CASE Register
  BY <1>1 DEF Register, RegisterRejected, RegisterTools, RegisterCatalog, RegisterRollback, RegisterRecord
<1>2. CASE BeginInitialize \/ InitializeStep
  BY <1>2, CurrentType DEF IInv, At, BeginInitialize, InitializeStep, InitializeClaim, InitializePrepare,
     InitializeReady, InitializeError, InitializeStop, InitializeFail, InitializeWithdraw, InitializeDone
<1>3. CASE BeginShutdown \/ ShutdownStep
  BY <1>3, CurrentType DEF IInv, At, BeginShutdown, ShutdownStep, ShutdownClaim, ShutdownStop,
     ShutdownCallback, ShutdownUnload, ShutdownMark, ShutdownWithdraw, ShutdownUncatalog, ShutdownDone
<1>4. ASSUME NEW c \in Callers, SpawnTask(c) \/ DropHandle(c)
      PROVE  \E p \in Plugins, i \in TaskIds, to \in (Live \ {"held"}) \cup {"released"} :
               /\ stage[p][i] \in Live
               /\ stage' = [stage EXCEPT ![p][i] = to]
               /\ UNCHANGED <<accepting, nextId, cancelled>>
  <2>1. /\ caller[c].plugin \in Plugins /\ caller[c].task \in TaskIds
        /\ stage[caller[c].plugin][caller[c].task] \in Live
    BY <1>4 DEF IInv, Handles, SpawnTask, DropHandle, Live
  <2> QED
    BY <1>4, <2>1 DEF SpawnTask, DropHandle, Live
<1>5. ASSUME NEW c \in Callers, CallerStep(c), ~SpawnTask(c), ~DropHandle(c)
      PROVE  UNCHANGED taskVars \/ StartTask(c)
  BY <1>5 DEF CallerStep, ExecuteEntry, RequireCapability, RefuseShuttingDown, StartRefused
<1>6. ASSUME NEW p \in Plugins, NEW i \in TaskIds, TaskStep(p, i), ~RequestCancel(p, i)
      PROVE  \E to \in (Live \ {"held"}) \cup {"released"} :
               /\ stage[p][i] \in Live
               /\ stage' = [stage EXCEPT ![p][i] = to]
               /\ UNCHANGED <<accepting, nextId, cancelled>>
  BY <1>6, TaskMoves
<1> QED
  BY <1>1, <1>2, <1>3, <1>4, <1>5, <1>6 DEF Next

(* A new host is a scope that is open and empty. *)
LEMMA ScopeInit == Init => Scope!Init
BY DEF Init, Scope!Init, Registered, Live, Results

(* Each step of the host is at most one step of the scope it maps to. *)
LEMMA ScopeStep == IInv /\ [Next]_vars => [Scope!Next]_(Scope!vars)
<1> SUFFICES ASSUME IInv, [Next]_vars PROVE [Scope!Next]_(Scope!vars)
  OBVIOUS
<1>1. CASE UNCHANGED taskVars \/ UNCHANGED vars
  BY <1>1 DEF Scope!vars, Registered, taskVars, vars
<1>2. ASSUME NEW p \in Plugins, CancelAll(p) PROVE Scope!Close(p)
  BY <1>2 DEF CancelAll, Scope!Close, Registered, IInv, TypeOK
<1>3. ASSUME NEW c \in Callers, StartTask(c)
      PROVE  \E p \in Plugins, i \in TaskIds : Scope!Admit(p, i)
  <2> DEFINE p == caller[c].plugin
             i == nextId[p] + 1
  <2>1. /\ p \in Plugins /\ i \in TaskIds /\ accepting[p]
        /\ BelowLimit(Registered(p))
        /\ stage'  = [stage EXCEPT ![p][i] = "held"]
        /\ UNCHANGED <<accepting, cancelled>>
    BY <1>3, TaskIdNat DEF IInv, TypeOK, Handles, StartTask, TaskIds
  <2>2. stage[p][i] = "free" /\ i \notin cancelled[p]
    BY <2>1, TaskIdNat DEF IInv, TypeOK, FreshIds, TaskIds
  <2>3. \A q \in Plugins : Registered(q)' = IF q = p THEN Registered(q) \cup {i} ELSE Registered(q)
    BY <2>1 DEF Registered, IInv, TypeOK, Live
  <2>4. i \notin Registered(p)
    BY <2>2 DEF Registered, Live, Results
  <2>5. \A q \in Plugins : cancelled'[q] \cap Registered(q)' = cancelled[q] \cap Registered(q)
    BY <2>1, <2>2, <2>3
  <2>6. UNCHANGED <<accepting, [q \in Plugins |-> cancelled[q] \cap Registered(q)]>>
    BY <2>1, <2>5
  <2>7. [q \in Plugins |-> Registered(q)]'
           = [[q \in Plugins |-> Registered(q)] EXCEPT ![p] = @ \cup {i}]
    BY <2>1, <2>3
  <2>8. Scope!Admit(p, i)
    BY <2>1, <2>4, <2>6, <2>7 DEF Scope!Admit
  <2> QED
    BY <2>1, <2>8
<1>4. ASSUME NEW p \in Plugins, NEW i \in TaskIds, RequestCancel(p, i) PROVE Scope!Warn(p, i)
  <2>1. /\ i \in Registered(p)
        /\ cancelled' = [cancelled EXCEPT ![p] = @ \cup {i}]
        /\ UNCHANGED <<accepting, stage>>
    BY <1>4 DEF RequestCancel
  <2>2. \A q \in Plugins : Registered(q)' = Registered(q)
    BY <2>1 DEF Registered
  <2>3. cancelled \in [Plugins -> SUBSET TaskIds]
    BY DEF IInv, TypeOK
  <2>4. \A q \in Plugins : cancelled'[q] \cap Registered(q)'
           = IF q = p THEN (cancelled[q] \cap Registered(q)) \cup {i} ELSE cancelled[q] \cap Registered(q)
    BY <2>1, <2>2, <2>3
  <2>5. [q \in Plugins |-> cancelled[q] \cap Registered(q)]'
           = [[q \in Plugins |-> cancelled[q] \cap Registered(q)] EXCEPT ![p] = @ \cup {i}]
    BY <2>4
  <2>6. UNCHANGED <<accepting, [q \in Plugins |-> Registered(q)]>>
    BY <2>1, <2>2
  <2> QED
    BY <2>1, <2>5, <2>6 DEF Scope!Warn
<1>5. ASSUME NEW p \in Plugins, NEW i \in TaskIds, NEW to \in (Live \ {"held"}) \cup {"released"},
             stage[p][i] \in Live, stage' = [stage EXCEPT ![p][i] = to],
             UNCHANGED <<accepting, nextId, cancelled>>
      PROVE  Scope!Release(p, i) \/ UNCHANGED Scope!vars
  <2>1. CASE to = "released"
    <3>1. \A q \in Plugins : Registered(q)' = IF q = p THEN Registered(q) \ {i} ELSE Registered(q)
      BY <1>5, <2>1 DEF Registered, IInv, TypeOK, Live, Results
    <3>2. i \in Registered(p)
      BY <1>5 DEF Registered
    <3> QED
      BY <1>5, <3>1, <3>2 DEF Scope!Release, IInv, TypeOK
  <2>2. CASE to \in Live
    <3>1. \A q \in Plugins : Registered(q)' = Registered(q)
      BY <1>5, <2>2 DEF Registered, IInv, TypeOK
    <3> QED
      BY <1>5, <3>1 DEF Scope!vars
  <2> QED
    BY <2>1, <2>2
<1> QED
  BY <1>1, <1>2, <1>3, <1>4, <1>5, StepOnTasks DEF Scope!Next

(* The host's contexts are task scopes: admission, cancellation and closing
   look atomic although callers and lifecycle interleave at every read. *)
THEOREM Refinement == Spec => ImplementsScope
BY ScopeInit, ScopeStep, Invariance, PTL DEF Spec, Scope!Spec, ImplementsScope

(* No context ever holds more than MaxTasks tasks. *)
THEOREM Bounded == Spec => []TasksBounded
<1>1. Init => TasksBounded
  <2>1. \A p \in Plugins : Init => Registered(p) = {}
    BY DEF Init, Registered, Live, Results
  <2> QED
    BY <2>1, FS_EmptySet, MaxTasksPos DEF TasksBounded
<1>2. TasksBounded /\ [Scope!Next]_(Scope!vars) => TasksBounded'
  <2> SUFFICES ASSUME TasksBounded, [Scope!Next]_(Scope!vars), NEW p \in Plugins
               PROVE  Cardinality(Registered(p)') <= MaxTasks
    BY DEF TasksBounded
  <2>1. IsFiniteSet(Registered(p)) /\ Cardinality(Registered(p)) \in Nat
    <3>1. IsFiniteSet(TaskIds)
      BY TaskIdNat, FS_Interval DEF TaskIds
    <3>2. Registered(p) \in SUBSET TaskIds
      BY DEF Registered
    <3> QED
      BY <3>1, <3>2, FS_Subset, FS_CardinalityType
  <2>2. CASE \E i \in TaskIds : Scope!Admit(p, i)
    <3>1. PICK i \in TaskIds : Scope!Admit(p, i)
      BY <2>2
    <3>2. Registered(p)' = Registered(p) \cup {i}
      BY <3>1 DEF Scope!Admit
    <3>3. [q \in Plugins |-> Registered(q)][p] = Registered(p)
      OBVIOUS
    <3>4. Cardinality(Registered(p)) < MaxTasks
      BY <3>1, <3>3 DEF Scope!Admit, BelowLimit
    <3>5. /\ IsFiniteSet(Registered(p) \cup {i})
          /\ Cardinality(Registered(p) \cup {i}) =
               IF i \in Registered(p) THEN Cardinality(Registered(p))
                                     ELSE Cardinality(Registered(p)) + 1
      BY <2>1, FS_AddElement
    <3> QED
      BY <2>1, <3>2, <3>4, <3>5, FS_CardinalityType, MaxTasksPos
  <2>3. CASE ~(\E i \in TaskIds : Scope!Admit(p, i))
    <3>1. Registered(p)' \subseteq Registered(p)
      BY <2>3 DEF Scope!Next, Scope!Admit, Scope!Warn, Scope!Release, Scope!Close, Scope!vars
    <3>2. /\ Cardinality(Registered(p)') <= Cardinality(Registered(p))
          /\ Cardinality(Registered(p)') \in Nat
      BY <2>1, <3>1, FS_Subset, FS_CardinalityType
    <3> QED
      BY <2>1, <3>2, MaxTasksPos DEF TasksBounded
  <2> QED
    BY <2>2, <2>3
<1> QED
  BY <1>1, <1>2, ScopeStep, Invariance, PTL DEF Spec

-----------------------------------------------------------------------------
(* The lifecycle.  What holds between operations is not inductive: the
   invariant says for every operation, and for every write of it, how far it
   is with each plugin. *)

Distinct(s) == \A i, j \in 1..Len(s) : s[i] = s[j] => i = j
Accepted == ToSet(records)
Todo == ToSet(opTodo)

(* What is known of a plugin before, after and instead of its initialization, *)
(* and after its shutdown *)
Listed(p) == p \in registry /\ p \in catalog /\ failures[p] = "none"
Fresh(p) == Listed(p) /\ pstate[p] = "Registered"
Up(p)    == Listed(p) /\ pstate[p] = "Ready"
Down(p)  == p \notin registry /\ p \in catalog /\ failures[p] = "Initialize" /\ pstate[p] = "Failed"
Gone(p)  == p \notin registry /\ p \notin catalog /\ pstate[p] = "Unloaded"

(* ... while initialize_all and shutdown_all are at it *)
Starting(p) ==
  /\ Listed(p)
  /\ \/ opStep = "claim" /\ pstate[p] = "Registered"
     \/ opStep \in {"prepare", "callback", "stop", "fail"} /\ pstate[p] = "Initializing"
     \/ opStep = "withdraw" /\ pstate[p] = "Failed"
Stopping(p) ==
  /\ p \in catalog
  /\ \/ opStep = "claim" /\ (Fresh(p) \/ Up(p) \/ Down(p))
     \/ opStep \in {"stop", "callback"} /\ pstate[p] = "ShuttingDown"
     \/ /\ opStep \in {"unload", "mark"}
        /\ pstate[p] \in {"Registered", "ShuttingDown"} \/ (pstate[p] = "Failed" /\ p \notin registry)
     \/ opStep = "withdraw" /\ pstate[p] = "Unloaded"
     \/ opStep = "uncatalog" /\ pstate[p] = "Unloaded" /\ p \notin registry

(* No plugin is accepted twice; of the others nothing is left, but for the    *)
(* one that is being registered.                                              *)
OthersAbsent ==
  \A p \in Plugins \ Accepted :
     /\ pstate[p] = "Absent" /\ failures[p] = "none"
     /\ p \in registry \cup catalog => opKind = "register" /\ p \in Todo
EntriesApart == \A p, q \in registry : p # q => EntriesOf[p] \cap EntriesOf[q] = {}

AtRest ==
  /\ opTodo = <<>>
  /\ \/ phase = "Registering" /\ \A p \in Accepted : Fresh(p)
     \/ phase = "Running" /\ \A p \in Accepted : Up(p) \/ Down(p)
     \/ phase = "Stopped" /\ \A p \in Accepted : Gone(p)
Registering ==
  /\ phase = "Registering" /\ \A p \in Accepted : Fresh(p)
  /\ Len(opTodo) = 1 /\ current \notin Accepted /\ current \in registry
  /\ opStep \in {"catalog", "record", "rollback"}
  /\ current \in catalog <=> opStep = "record"
Initializing ==
  /\ phase = "Running" /\ Todo \subseteq Accepted
  /\ \A p \in Accepted \ Todo : Up(p) \/ Down(p)
  /\ \A p \in Todo : IF p = current THEN Starting(p) ELSE Fresh(p)
  /\ opTodo = <<>> => opStep = "claim"
ShuttingDown ==
  /\ phase = "ShuttingDown"
  /\ Len(opTodo) <= Len(records)
  /\ \A i \in 1..Len(opTodo) : opTodo[i] = records[Len(opTodo) + 1 - i]
  /\ \A p \in Accepted \ Todo : Gone(p)
  /\ \A p \in Todo : IF p = current THEN Stopping(p) ELSE Fresh(p) \/ Up(p) \/ Down(p)
  /\ opTodo = <<>> => opStep = "claim"

LifeInv ==
  /\ Distinct(records) /\ Distinct(opTodo) /\ OthersAbsent /\ EntriesApart
  /\ \/ opKind = "none" /\ AtRest
     \/ opKind = "register" /\ Registering
     \/ opKind = "initialize" /\ Initializing
     \/ opKind = "shutdown" /\ ShuttingDown

(* The tail of a sequence without repetitions *)
LEMMA TailOfDistinct ==
  ASSUME NEW S, NEW s \in Seq(S), s # <<>>, Distinct(s)
  PROVE  /\ Distinct(Tail(s)) /\ Head(s) \in ToSet(s)
         /\ ToSet(Tail(s)) = ToSet(s) \ {Head(s)}
<1>1. /\ Len(s) \in Nat \ {0} /\ Len(Tail(s)) = Len(s) - 1 /\ Head(s) = s[1]
      /\ \A i \in 1..Len(Tail(s)) : Tail(s)[i] = s[i + 1]
      /\ DOMAIN s = 1..Len(s) /\ DOMAIN Tail(s) = 1..Len(Tail(s))
  OBVIOUS
<1>2. Distinct(Tail(s))
  BY <1>1 DEF Distinct
<1>3. ASSUME NEW x \in ToSet(Tail(s)) PROVE x \in ToSet(s) /\ x # Head(s)
  <2>1. PICK i \in 1..Len(Tail(s)) : x = Tail(s)[i]
    BY <1>1 DEF ToSet
  <2>2. x = s[i + 1] /\ i + 1 \in 1..Len(s) /\ i + 1 # 1 /\ 1 \in 1..Len(s)
    BY <1>1, <2>1
  <2> QED
    BY <1>1, <2>2 DEF ToSet, Distinct
<1>4. ASSUME NEW x \in ToSet(s), x # Head(s) PROVE x \in ToSet(Tail(s))
  <2>1. PICK i \in 1..Len(s) : x = s[i]
    BY <1>1 DEF ToSet
  <2>2. i - 1 \in 1..Len(Tail(s)) /\ Tail(s)[i - 1] = s[i]
    BY <1>1, <1>4, <2>1
  <2> QED
    BY <1>1, <2>1, <2>2 DEF ToSet
<1>5. Head(s) \in ToSet(s)
  BY <1>1 DEF ToSet
<1> QED
  BY <1>2, <1>3, <1>4, <1>5

(* The extension of a sequence by a new element *)
LEMMA AppendToDistinct ==
  ASSUME NEW S, NEW s \in Seq(S), NEW x \in S, Distinct(s), x \notin ToSet(s)
  PROVE  Distinct(Append(s, x)) /\ ToSet(Append(s, x)) = ToSet(s) \cup {x}
<1> DEFINE r == Append(s, x)
<1>1. /\ Len(s) \in Nat /\ Len(r) = Len(s) + 1 /\ r[Len(s) + 1] = x
      /\ \A i \in 1..Len(s) : r[i] = s[i]
      /\ DOMAIN s = 1..Len(s) /\ DOMAIN r = 1..Len(r)
  OBVIOUS
<1> HIDE DEF r
<1>2. \A i \in 1..Len(s) : s[i] # x
  BY <1>1 DEF ToSet
<1>3. Distinct(r)
  BY <1>1, <1>2 DEF Distinct
<1>4. ToSet(r) = ToSet(s) \cup {x}
  <2>1. ASSUME NEW y \in ToSet(r) PROVE y \in ToSet(s) \cup {x}
    BY <1>1 DEF ToSet
  <2>2. ASSUME NEW y \in ToSet(s) PROVE y \in ToSet(r)
    BY <1>1 DEF ToSet
  <2>3. x \in ToSet(r)
    BY <1>1 DEF ToSet
  <2> QED
    BY <2>1, <2>2, <2>3
<1> QED
  BY <1>3, <1>4 DEF r

(* The order shutdown_all goes through the records in *)
LEMMA ReverseOfDistinct ==
  ASSUME NEW S, NEW s \in Seq(S), Distinct(s)
  PROVE  /\ Reverse(s) \in Seq(S) /\ Len(Reverse(s)) = Len(s)
         /\ \A i \in 1..Len(s) : Reverse(s)[i] = s[Len(s) + 1 - i]
         /\ Distinct(Reverse(s)) /\ ToSet(Reverse(s)) = ToSet(s)
<1> DEFINE r == Reverse(s)
<1>1. /\ Len(s) \in Nat /\ r \in Seq(S) /\ Len(r) = Len(s)
      /\ \A i \in 1..Len(s) : r[i] = s[Len(s) + 1 - i]
      /\ DOMAIN s = 1..Len(s) /\ DOMAIN r = 1..Len(s)
  BY ReverseType DEF Reverse
<1> HIDE DEF r
<1>2. Distinct(r)
  BY <1>1 DEF Distinct
<1>3. \A i \in 1..Len(s) : Len(s) + 1 - i \in 1..Len(s) /\ r[Len(s) + 1 - i] = s[i]
  BY <1>1
<1>4. ToSet(r) = ToSet(s)
  <2>1. ASSUME NEW x \in ToSet(r) PROVE x \in ToSet(s)
    BY <1>1 DEF ToSet
  <2>2. ASSUME NEW x \in ToSet(s) PROVE x \in ToSet(r)
    <3>1. PICK i \in 1..Len(s) : x = s[i]
      BY <1>1 DEF ToSet
    <3> QED
      BY <1>1, <1>3, <3>1 DEF ToSet
  <2> QED
    BY <2>1, <2>2
<1> QED
  BY <1>1, <1>2, <1>4 DEF r

(* Between the steps of the host nothing of this changes.                     *)
LEMMA LifeQuiet ==
  ASSUME LifeInv, UNCHANGED <<hostVars, pstate>>
  PROVE  LifeInv'
BY DEF LifeInv, hostVars, Distinct, Accepted, Todo, Listed, Fresh, Up, Down, Gone, Starting, Stopping,
       OthersAbsent, EntriesApart, AtRest, Registering, Initializing, ShuttingDown, current

(* An operation that moves on to the next plugin leaves the current one behind. *)
LEMMA NextPluginTodo ==
  ASSUME TypeOK, LifeInv, opTodo # <<>>, NextPlugin
  PROVE  /\ Distinct(opTodo)' /\ Todo' = Todo \ {current} /\ current \in Todo
         /\ opStep' = "claim" /\ opKind' = opKind
         /\ opTodo' # <<>> => current' \in Todo'
         /\ opTodo' = Tail(opTodo) /\ opTodo' \in Seq(Plugins)
<1>1. opTodo \in Seq(Plugins) /\ Distinct(opTodo)
  BY DEF TypeOK, LifeInv
<1>2. opTodo' = Tail(opTodo) /\ opTodo' \in Seq(Plugins)
  BY <1>1 DEF NextPlugin
<1>3. Distinct(opTodo)' /\ Todo' = Todo \ {current} /\ current \in Todo
  BY <1>1, <1>2, TailOfDistinct DEF Todo, current, Distinct
<1>4. opTodo' # <<>> => current' \in Todo'
  BY <1>2, <1>3, TailOfDistinct DEF Todo, current, Distinct
<1> QED
  BY <1>2, <1>3, <1>4 DEF NextPlugin

(* Registration writes the three collections one after the other, or takes the
   first write back. *)
LEMMA RegisterLife ==
  ASSUME TypeOK, LifeInv, Register
  PROVE  LifeInv'
<1> USE DEF Listed, Fresh
<1>1. ASSUME NEW p \in Plugins, RegisterRejected(p) PROVE LifeInv'
  BY <1>1 DEF RegisterRejected, LifeInv, Distinct, Accepted, Todo, Up, Down, Gone,
       OthersAbsent, EntriesApart, AtRest, Registering, Initializing, ShuttingDown, current
<1>2. ASSUME NEW p \in Plugins, RegisterTools(p) PROVE LifeInv'
  <2>1. /\ opKind = "none" /\ opKind' = "register" /\ opStep' = "catalog" /\ opTodo' = <<p>>
        /\ phase = "Registering" /\ p \notin registry /\ EntriesOf[p] \cap ToolEntries = {}
        /\ registry' = registry \cup {p}
        /\ UNCHANGED <<phase, records, pstate, catalog, failures>>
    BY <1>2 DEF RegisterTools, BeginOperation
  <2>2. (\A q \in Accepted : Fresh(q)) /\ Distinct(records) /\ OthersAbsent /\ EntriesApart
    BY <2>1 DEF LifeInv, AtRest
  <2>3. p \notin Accepted
    BY <2>1, <2>2
  <2>4. Len(opTodo') = 1 /\ current' = p /\ Todo' = {p} /\ Distinct(opTodo)' /\ Accepted' = Accepted
    <3>1. Len(<<p>>) = 1 /\ Head(<<p>>) = p /\ <<p>>[1] = p /\ DOMAIN <<p>> = 1..1
      OBVIOUS
    <3> QED
      BY <2>1, <3>1 DEF current, Todo, Accepted, ToSet, Distinct
  <2>5. p \notin catalog
    BY <2>1, <2>2, <2>3 DEF OthersAbsent
  <2>6. Registering'
    BY <2>1, <2>2, <2>3, <2>4, <2>5 DEF Registering
  <2>7. OthersAbsent'
    BY <2>1, <2>2, <2>4 DEF OthersAbsent
  <2>8. EntriesApart'
    BY <2>1, <2>2 DEF EntriesApart, ToolEntries
  <2> QED
    BY <2>1, <2>2, <2>4, <2>6, <2>7, <2>8 DEF LifeInv, Distinct
<1>3. CASE RegisterCatalog
  <2>1. /\ opKind = "register" /\ opStep = "catalog" /\ UNCHANGED <<opKind, opTodo, phase, records, pstate, registry, failures>>
        /\ \/ catalog' = catalog \cup {current} /\ opStep' = "record"
           \/ catalog' = catalog /\ opStep' = "rollback"
    BY <1>3 DEF RegisterCatalog, At, Goto
  <2>2. Registering /\ current' = current /\ Accepted' = Accepted /\ Todo' = Todo
    BY <2>1 DEF LifeInv, current, Accepted, Todo
  <2>3. current \in Todo
    BY <2>2, TailOfDistinct DEF Registering, Todo, current, LifeInv, TypeOK
  <2>4. Registering'
    BY <2>1, <2>2 DEF Registering
  <2>5. OthersAbsent'
    BY <2>1, <2>2, <2>3 DEF LifeInv, OthersAbsent
  <2>6. EntriesApart' /\ Distinct(records)' /\ Distinct(opTodo)'
    BY <2>1 DEF LifeInv, EntriesApart, Distinct
  <2> QED
    BY <2>1, <2>4, <2>5, <2>6 DEF LifeInv
<1>4. CASE RegisterRollback \/ RegisterRecord
  <2>1. /\ opKind = "register" /\ opKind' = "none" /\ opTodo' = <<>> /\ opStep' = "none" /\ UNCHANGED <<phase, catalog, failures>>
        /\ \/ /\ opStep = "rollback" /\ registry' = registry \ {current} /\ UNCHANGED <<records, pstate>>
           \/ /\ opStep = "record" /\ records' = Append(records, current) /\ UNCHANGED registry
              /\ pstate' = [pstate EXCEPT ![current] = "Registered"]
    BY <1>4 DEF RegisterRollback, RegisterRecord, At, FinishOperation
  <2>2. Registering /\ OthersAbsent /\ EntriesApart /\ Distinct(records) /\ opTodo # <<>>
    BY <2>1 DEF LifeInv, Registering
  <2>3. current \in Plugins /\ Todo = {current}
    <3>1. current \in Plugins /\ opTodo[1] = current /\ DOMAIN opTodo = 1..1
      BY <2>2, CurrentType DEF Registering, TypeOK, current
    <3> QED
      BY <3>1 DEF Todo, ToSet
  <2>4. Distinct(opTodo)' /\ Todo' = {}
    BY <2>1 DEF Distinct, Todo, ToSet
  <2>5. CASE opStep = "rollback"
    <3>1. registry' = registry \ {current} /\ UNCHANGED <<records, pstate>> /\ Accepted' = Accepted
      BY <2>1, <2>5 DEF Accepted
    <3>2. (\A p \in Accepted : Fresh(p))' /\ phase' = "Registering"
      BY <2>1, <2>2, <3>1 DEF Registering
    <3>3. OthersAbsent'
      BY <2>1, <2>2, <2>3, <2>5, <3>1 DEF OthersAbsent, Registering
    <3> QED
      BY <2>1, <2>2, <2>4, <3>1, <3>2, <3>3 DEF LifeInv, AtRest, EntriesApart, Distinct
  <2>6. CASE opStep = "record"
    <3>1. records' = Append(records, current) /\ UNCHANGED registry /\ pstate' = [pstate EXCEPT ![current] = "Registered"]
      BY <2>1, <2>6
    <3>2. Distinct(records)' /\ Accepted' = Accepted \cup {current}
      <4>1. /\ Distinct(Append(records, current))
            /\ ToSet(Append(records, current)) = ToSet(records) \cup {current}
        BY <2>2, <2>3, AppendToDistinct DEF Accepted, Registering, TypeOK
      <4> QED
        BY <3>1, <4>1 DEF Accepted, Distinct
    <3>3. ASSUME NEW c \in Plugins, c = current PROVE Fresh(c)'
      BY <2>1, <2>2, <2>3, <2>6, <3>1, <3>3 DEF Registering, OthersAbsent, TypeOK
    <3>4. ASSUME NEW p \in Accepted PROVE Fresh(p)'
      BY <2>1, <2>2, <2>3, <3>1 DEF Registering, TypeOK
    <3>5. OthersAbsent'
      BY <2>1, <2>2, <2>3, <3>1, <3>2 DEF OthersAbsent, TypeOK
    <3>6. EntriesApart'
      BY <2>2, <3>1 DEF EntriesApart
    <3>7. AtRest'
      BY <2>1, <2>2, <2>3, <3>2, <3>3, <3>4 DEF AtRest, Registering
    <3> QED
      BY <2>1, <2>4, <3>2, <3>5, <3>6, <3>7 DEF LifeInv
  <2> QED
    BY <2>1, <2>5, <2>6
<1> QED
  BY <1>1, <1>2, <1>3, <1>4 DEF Register

(* initialize_all treats one plugin after the other; whatever becomes of one,
   the ones behind it are as they were. *)
LEMMA InitializeLife ==
  ASSUME TypeOK, LifeInv, BeginInitialize \/ InitializeStep
  PROVE  LifeInv'
<1> USE DEF Listed, Fresh, Up, Down
<1>0. OthersAbsent /\ EntriesApart /\ Distinct(records) /\ Distinct(opTodo) /\ records \in Seq(Plugins) /\ opTodo \in Seq(Plugins)
  BY DEF LifeInv, TypeOK
<1>1. CASE BeginInitialize
  <2>1. /\ phase = "Registering" /\ opKind = "none" /\ phase' = "Running" /\ opKind' = "initialize" /\ opStep' = "claim"
        /\ opTodo' = records /\ UNCHANGED <<records, pstate, registry, catalog, failures>>
    BY <1>1 DEF BeginInitialize, BeginOperation
  <2>2. Todo' = Accepted /\ Accepted' = Accepted /\ \A p \in Accepted : Fresh(p)
    BY <2>1 DEF LifeInv, AtRest, Todo, Accepted
  <2>3. Initializing'
    BY <2>1, <2>2 DEF Initializing, Starting
  <2>4. OthersAbsent' /\ EntriesApart' /\ Distinct(records)' /\ Distinct(opTodo)'
    BY <1>0, <2>1, <2>2 DEF OthersAbsent, EntriesApart, Distinct, LifeInv
  <2> QED
    BY <2>1, <2>3, <2>4 DEF LifeInv
<1>2. CASE InitializeDone
  <2>1. /\ opKind = "initialize" /\ opTodo = <<>> /\ opKind' = "none" /\ opTodo' = <<>>
        /\ UNCHANGED <<phase, records, pstate, registry, catalog, failures>>
    BY <1>2 DEF InitializeDone, FinishOperation
  <2>2. Todo = {} /\ Todo' = {} /\ Accepted' = Accepted
    BY <2>1 DEF Todo, ToSet, Accepted
  <2>3. AtRest'
    BY <2>1, <2>2 DEF LifeInv, Initializing, AtRest
  <2>4. OthersAbsent' /\ EntriesApart' /\ Distinct(records)' /\ Distinct(opTodo)'
    BY <1>0, <2>1, <2>2 DEF OthersAbsent, EntriesApart, Distinct
  <2> QED
    BY <2>1, <2>3, <2>4 DEF LifeInv
<1>3. CASE ~ BeginInitialize /\ ~ InitializeDone
  <2>1. /\ opKind = "initialize" /\ opTodo # <<>> /\ Initializing
        /\ UNCHANGED <<opKind, phase, records, catalog>> /\ Accepted' = Accepted
    BY <1>3 DEF InitializeStep, InitializeClaim, InitializePrepare, InitializeReady, InitializeError,
                InitializeStop, InitializeFail, InitializeWithdraw, At, Goto, NextPlugin, LifeInv, Accepted
  <2>2. current \in Todo /\ current \in Plugins
    BY <1>0, <2>1, TailOfDistinct, CurrentType DEF Todo, current
  <2>3. Starting(current)
    BY <2>1, <2>2 DEF Initializing
  (* ... either the current plugin takes the next step,                       *)
  <2>4. ASSUME UNCHANGED <<opTodo, registry, failures>>, Starting(current)',
               \A p \in Plugins : p # current => pstate'[p] = pstate[p]
        PROVE  LifeInv'
    <3>1. Todo' = Todo /\ current' = current
      BY <2>4 DEF Todo, current
    <3>2. \A p \in Accepted : p \in Plugins
      BY <1>0 DEF Accepted, ToSet
    <3>3. Initializing'
      <4>1. \A p \in Accepted' \ Todo' : Up(p)' \/ Down(p)'
        BY <2>1, <2>2, <2>4, <3>1, <3>2 DEF Initializing
      <4>2. \A p \in Todo' : IF p = current' THEN Starting(p)' ELSE Fresh(p)'
        BY <2>1, <2>2, <2>4, <3>1, <3>2 DEF Initializing
      <4> QED
        BY <2>1, <2>4, <3>1, <4>1, <4>2 DEF Initializing
    <3>4. OthersAbsent' /\ EntriesApart' /\ Distinct(records)' /\ Distinct(opTodo)'
      BY <1>0, <2>1, <2>2, <2>4, <3>1 DEF OthersAbsent, EntriesApart, Distinct, Initializing
    <3> QED
      BY <2>1, <3>3, <3>4 DEF LifeInv
  (* ... or it is done, and the next one is the current one.                  *)
  <2>5. ASSUME NextPlugin, NEW c \in Plugins, c = current, Up(c)' \/ Down(c)',
               \A p \in Plugins : p # current => /\ pstate'[p] = pstate[p] /\ failures'[p] = failures[p]
                                                 /\ p \in registry' <=> p \in registry,
               registry' \subseteq registry
        PROVE  LifeInv'
    <3>1. /\ Distinct(opTodo)' /\ Todo' = Todo \ {current} /\ opStep' = "claim"
          /\ opTodo' # <<>> => current' \in Todo'
      BY <2>1, <2>5, NextPluginTodo
    <3>2. \A p \in Accepted : p \in Plugins
      BY <1>0 DEF Accepted, ToSet
    <3>3. \A p \in Accepted' \ Todo' : Up(p)' \/ Down(p)'
      <4> SUFFICES ASSUME NEW p \in Accepted, p \notin Todo', p # c PROVE Up(p)' \/ Down(p)'
        BY <2>1, <2>5
      <4>1. Up(p) \/ Down(p)
        BY <2>1, <2>5, <3>1 DEF Initializing
      <4> QED
        BY <2>1, <2>5, <3>2, <4>1
    <3>4. \A p \in Todo' : Fresh(p)'
      BY <2>1, <2>5, <3>1, <3>2 DEF Initializing
    <3>5. Initializing'
      BY <2>1, <3>1, <3>3, <3>4 DEF Initializing, Starting
    <3>6. OthersAbsent' /\ EntriesApart' /\ Distinct(records)'
      BY <1>0, <2>1, <2>2, <2>5, <3>1 DEF OthersAbsent, EntriesApart, Distinct, Initializing
    <3> QED
      BY <2>1, <3>1, <3>5, <3>6 DEF LifeInv
  <2> USE DEF At, Goto, TypeOK, Starting
  <2>6. CASE InitializeClaim
    BY <1>0, <2>2, <2>3, <2>4, <2>6 DEF InitializeClaim, Transition, current
  <2>7. CASE InitializePrepare \/ InitializeError \/ InitializeStop
    BY <2>2, <2>3, <2>4, <2>7 DEF InitializePrepare, InitializeError, InitializeStop, current
  <2>8. CASE InitializeReady
    <3>1. PICK c \in Plugins : c = current
      BY <2>2
    <3>2. Up(c)'
      BY <2>1, <2>3, <2>8, <3>1 DEF InitializeReady, Transition
    <3> QED
      BY <2>5, <2>8, <3>1, <3>2 DEF InitializeReady, Transition
  <2>9. CASE InitializeFail
    BY <2>2, <2>3, <2>4, <2>9 DEF InitializeFail, Transition, current
  <2>10. CASE InitializeWithdraw
    <3>1. PICK c \in Plugins : c = current
      BY <2>2
    <3>2. Down(c)'
      BY <2>1, <2>3, <2>10, <3>1 DEF InitializeWithdraw
    <3> QED
      BY <2>5, <2>10, <3>1, <3>2 DEF InitializeWithdraw
  <2> QED
    BY <1>3, <2>6, <2>7, <2>8, <2>9, <2>10 DEF InitializeStep
<1> QED
  BY <1>1, <1>2, <1>3

(* shutdown_all goes through the plugins from the last to the first. *)
LEMMA ShutdownLife ==
  ASSUME TypeOK, LifeInv, BeginShutdown \/ ShutdownStep
  PROVE  LifeInv'
<1> USE DEF Listed, Fresh, Up, Down, Gone
<1>0. /\ OthersAbsent /\ EntriesApart /\ Distinct(records) /\ Distinct(opTodo)
      /\ records \in Seq(Plugins) /\ opTodo \in Seq(Plugins)
  BY DEF LifeInv, TypeOK
<1>a. \A p \in Accepted : p \in Plugins
  BY <1>0 DEF Accepted, ToSet
<1>1. CASE BeginShutdown
  <2>1. /\ phase \in {"Registering", "Running"} /\ opKind = "none"
        /\ phase' = "ShuttingDown" /\ opKind' = "shutdown" /\ opStep' = "claim"
        /\ opTodo' = Reverse(records) /\ UNCHANGED <<records, pstate, registry, catalog, failures>>
    BY <1>1 DEF BeginShutdown, BeginOperation
  <2>2. /\ Len(opTodo') = Len(records) /\ Distinct(opTodo)' /\ Todo' = Accepted /\ Accepted' = Accepted
        /\ \A i \in 1..Len(records) : opTodo'[i] = records[Len(records) + 1 - i]
    BY <1>0, <2>1, ReverseOfDistinct DEF Todo, Accepted, Distinct
  <2>3. \A p \in Accepted : Fresh(p) \/ Up(p) \/ Down(p)
    BY <2>1 DEF LifeInv, AtRest
  <2>4. \A p \in Todo' : IF p = current' THEN Stopping(p)' ELSE Fresh(p)' \/ Up(p)' \/ Down(p)'
    BY <2>1, <2>2, <2>3 DEF Stopping
  <2>5. ShuttingDown'
    BY <1>0, <2>1, <2>2, <2>4 DEF ShuttingDown
  <2>6. OthersAbsent' /\ EntriesApart' /\ Distinct(records)'
    BY <1>0, <2>1, <2>2 DEF OthersAbsent, EntriesApart, Distinct
  <2> QED
    BY <2>1, <2>2, <2>5, <2>6 DEF LifeInv
<1>2. CASE ShutdownDone
  <2>1. /\ opKind = "shutdown" /\ opTodo = <<>> /\ opKind' = "none" /\ opTodo' = <<>> /\ phase' = "Stopped"
        /\ UNCHANGED <<records, pstate, registry, catalog, failures>>
    BY <1>2 DEF ShutdownDone, FinishOperation
  <2>2. Todo = {} /\ Todo' = {} /\ Accepted' = Accepted
    BY <2>1 DEF Todo, ToSet, Accepted
  <2>3. AtRest'
    BY <2>1, <2>2 DEF LifeInv, ShuttingDown, AtRest
  <2>4. OthersAbsent' /\ EntriesApart' /\ Distinct(records)' /\ Distinct(opTodo)'
    BY <1>0, <2>1, <2>2 DEF OthersAbsent, EntriesApart, Distinct
  <2> QED
    BY <2>1, <2>3, <2>4 DEF LifeInv
<1>3. CASE ~ BeginShutdown /\ ~ ShutdownDone
  <2>1. /\ opKind = "shutdown" /\ opTodo # <<>> /\ ShuttingDown
        /\ UNCHANGED <<opKind, phase, records>> /\ Accepted' = Accepted
    BY <1>3 DEF ShutdownStep, ShutdownClaim, ShutdownStop, ShutdownCallback, ShutdownUnload,
                ShutdownMark, ShutdownWithdraw, ShutdownUncatalog, At, Goto, NextPlugin, LifeInv, Accepted
  <2>2. current \in Todo /\ current \in Plugins
    BY <1>0, <2>1, TailOfDistinct, CurrentType DEF Todo, current
  <2>3. Stopping(current)
    BY <2>1, <2>2 DEF ShuttingDown
  <2>b. current \in Accepted
    <3>1. Len(opTodo) \in 1..Len(records) /\ opTodo[1] = records[Len(opTodo)] /\ opTodo[1] = current
      BY <1>0, <2>1 DEF ShuttingDown, current
    <3>2. DOMAIN records = 1..Len(records)
      BY <1>0
    <3> QED
      BY <3>1, <3>2 DEF Accepted, ToSet
  (* ... either the current plugin takes the next step,                       *)
  <2>4. ASSUME UNCHANGED <<opTodo, catalog>>, Stopping(current)', registry' \subseteq registry,
               \A p \in Plugins : p # current => /\ pstate'[p] = pstate[p] /\ failures'[p] = failures[p]
                                                 /\ p \in registry' <=> p \in registry
        PROVE  LifeInv'
    <3>1. Todo' = Todo /\ current' = current
      BY <2>4 DEF Todo, current
    <3>2. \A p \in Accepted' \ Todo' : Gone(p)'
      <4> SUFFICES ASSUME NEW p \in Accepted, p \notin Todo PROVE Gone(p)'
        BY <2>1, <3>1
      <4>1. Gone(p) /\ p # current /\ p \in Plugins
        BY <1>a, <2>1, <2>2 DEF ShuttingDown
      <4> QED
        BY <2>4, <4>1
    <3>3. \A p \in Todo' : IF p = current' THEN Stopping(p)' ELSE Fresh(p)' \/ Up(p)' \/ Down(p)'
      <4> SUFFICES ASSUME NEW p \in Todo, p # current PROVE Fresh(p)' \/ Up(p)' \/ Down(p)'
        BY <2>4, <3>1
      <4>1. (Fresh(p) \/ Up(p) \/ Down(p)) /\ p \in Plugins
        BY <1>0, <2>1 DEF ShuttingDown, Todo, ToSet
      <4> QED
        BY <2>4, <4>1
    <3>4. ShuttingDown'
      BY <2>1, <2>4, <3>1, <3>2, <3>3 DEF ShuttingDown
    <3>5. OthersAbsent' /\ EntriesApart' /\ Distinct(records)' /\ Distinct(opTodo)'
      BY <1>0, <2>1, <2>4, <2>b, <3>1 DEF OthersAbsent, EntriesApart, Distinct
    <3> QED
      BY <2>1, <3>4, <3>5 DEF LifeInv
  <2> USE DEF At, Goto, TypeOK
  <2>5. CASE ShutdownClaim
    <3>1. Stopping(current)'
      BY <2>2, <2>3, <2>5 DEF ShutdownClaim, Transition, current, Stopping
    <3> QED
      BY <2>2, <2>4, <2>5, <3>1 DEF ShutdownClaim, Transition
  <2>6. CASE ShutdownStop \/ ShutdownUnload
    <3>1. Stopping(current)'
      BY <2>2, <2>3, <2>6 DEF ShutdownStop, ShutdownUnload, current, Stopping
    <3> QED
      BY <2>2, <2>4, <2>6, <3>1 DEF ShutdownStop, ShutdownUnload
  <2>7. CASE ShutdownCallback
    <3>1. Stopping(current)'
      BY <2>2, <2>3, <2>7 DEF ShutdownCallback, current, Stopping
    <3> QED
      BY <2>2, <2>4, <2>7, <3>1 DEF ShutdownCallback
  <2>8. CASE ShutdownMark
    <3>1. Stopping(current)'
      BY <2>2, <2>3, <2>8 DEF ShutdownMark, current, Stopping
    <3> QED
      BY <2>2, <2>4, <2>8, <3>1 DEF ShutdownMark
  <2>9. CASE ShutdownWithdraw
    <3>1. Stopping(current)'
      BY <2>2, <2>3, <2>9 DEF ShutdownWithdraw, current, Stopping
    <3> QED
      BY <2>2, <2>4, <2>9, <3>1 DEF ShutdownWithdraw
  (* ... or it is unloaded, and the one registered before it comes next.      *)
  <2>10. CASE ShutdownUncatalog
    <3>1. /\ catalog' = catalog \ {current} /\ NextPlugin /\ opStep = "uncatalog"
          /\ UNCHANGED <<pstate, registry, failures>>
      BY <2>10 DEF ShutdownUncatalog
    <3>2. /\ Distinct(opTodo)' /\ Todo' = Todo \ {current} /\ opStep' = "claim"
          /\ opTodo' # <<>> => current' \in Todo'
          /\ opTodo' = Tail(opTodo)
      BY <2>1, <3>1, NextPluginTodo
    <3>3. pstate[current] = "Unloaded" /\ current \notin registry
      BY <2>3, <3>1 DEF Stopping
    <3>4. \A p \in Accepted' \ Todo' : Gone(p)'
      <4> SUFFICES ASSUME NEW p \in Accepted, p \notin Todo' PROVE Gone(p)'
        BY <2>1
      <4>1. p = current \/ Gone(p)
        BY <2>1, <3>2 DEF ShuttingDown
      <4> QED
        BY <3>1, <3>3, <4>1
    <3>5. \A p \in Todo' : Fresh(p)' \/ Up(p)' \/ Down(p)'
      <4> SUFFICES ASSUME NEW p \in Todo, p # current PROVE Fresh(p)' \/ Up(p)' \/ Down(p)'
        BY <3>2
      <4>1. Fresh(p) \/ Up(p) \/ Down(p)
        BY <2>1 DEF ShuttingDown
      <4> QED
        BY <3>1, <4>1
    <3>6. /\ Len(opTodo') = Len(opTodo) - 1 /\ Len(opTodo) \in Nat /\ Len(records) \in Nat
          /\ \A i \in 1..Len(opTodo') : opTodo'[i] = opTodo[i + 1]
      BY <1>0, <2>1, <3>2
    <3>7. Len(opTodo)' <= Len(records)' /\ \A i \in 1..Len(opTodo') : opTodo'[i] = records[Len(opTodo') + 1 - i]
      BY <2>1, <3>6 DEF ShuttingDown
    <3>8. ShuttingDown'
      BY <2>1, <3>2, <3>4, <3>5, <3>7 DEF ShuttingDown, Stopping
    <3>9. OthersAbsent' /\ EntriesApart' /\ Distinct(records)'
      BY <1>0, <2>1, <2>b, <3>1, <3>2 DEF OthersAbsent, EntriesApart, Distinct
    <3> QED
      BY <2>1, <3>2, <3>8, <3>9 DEF LifeInv
  <2> QED
    BY <1>3, <2>5, <2>6, <2>7, <2>8, <2>9, <2>10 DEF ShutdownStep
<1> QED
  BY <1>1, <1>2, <1>3

(* Callers and tasks leave all this alone. *)
LEMMA LifeStep ==
  ASSUME TypeOK, LifeInv, [Next]_vars
  PROVE  LifeInv'
<1>1. ASSUME NEW c \in Callers, CallerStep(c) PROVE LifeInv'
  BY <1>1, LifeQuiet DEF CallerStep, ExecuteEntry, RequireCapability, RefuseShuttingDown, StartTask,
     StartRefused, SpawnTask, DropHandle
<1>2. ASSUME NEW p \in Plugins, NEW i \in TaskIds, TaskStep(p, i) PROVE LifeInv'
  <2>1. UNCHANGED <<hostVars, pstate>>
    BY <1>2, TaskMoves DEF RequestCancel
  <2> QED
    BY <2>1, LifeQuiet
<1>3. CASE UNCHANGED vars
  BY <1>3, LifeQuiet DEF vars, hostVars
<1> QED
  BY <1>1, <1>2, <1>3, RegisterLife, InitializeLife, ShutdownLife DEF Next

(* The lifecycle invariant holds. *)
THEOREM Lifecycle == Spec => []LifeInv
<1>1. Init => LifeInv
  BY DEF Init, LifeInv, Distinct, Accepted, ToSet, OthersAbsent, EntriesApart, AtRest
<1> QED
  BY <1>1, LifeStep, TypeCorrect, PTL DEF Spec

(* A plugin that failed or was unloaded has tools in the registry only until
   the operation that brought it down has withdrawn them. *)
THEOREM NoToolsLeft == Spec => []ToolsAreUsable
<1>1. ASSUME LifeInv, TypeOK PROVE ToolsAreUsable
  <2> SUFFICES ASSUME NEW p \in registry, pstate[p] \in {"Failed", "Unloaded"}
               PROVE  opStep = "withdraw" /\ p = current
    BY DEF ToolsAreUsable
  <2>1. p \in Accepted
    BY <1>1 DEF LifeInv, OthersAbsent, TypeOK
  <2>2. opTodo = <<>> => p \notin Todo
    BY DEF Todo, ToSet
  <2> QED
    BY <1>1, <2>1, <2>2 DEF LifeInv, AtRest, Registering, Initializing, ShuttingDown, Listed, Fresh, Up, Down, Gone,
       Starting, Stopping
<1> QED
  BY <1>1, Lifecycle, TypeCorrect, PTL

(* Between operations the tool registry, the catalog and the records agree, and
   no entry has two owners (register_plugin and its rollback, initialize_all,
   shutdown_all). *)
THEOREM CollectionsAgree == Spec => []HostConsistent
<1>1. ASSUME LifeInv, TypeOK PROVE HostConsistent
  <2> SUFFICES ASSUME opKind = "none"
               PROVE  /\ registry = {p \in Accepted : pstate[p] \in {"Registered", "Ready"}}
                      /\ catalog  = IF phase = "Stopped" THEN {} ELSE Accepted
                      /\ \A p, q \in registry : p # q => EntriesOf[p] \cap EntriesOf[q] = {}
    BY DEF HostConsistent, Accepted
  <2>1. AtRest /\ OthersAbsent /\ EntriesApart
    BY <1>1 DEF LifeInv
  <2>2. registry \subseteq Accepted /\ catalog \subseteq Accepted
    BY <1>1, <2>1 DEF OthersAbsent, TypeOK
  <2>3. registry = {p \in Accepted : pstate[p] \in {"Registered", "Ready"}}
    BY <2>1, <2>2 DEF AtRest, Listed, Fresh, Up, Down, Gone
  <2>4. catalog  = IF phase = "Stopped" THEN {} ELSE Accepted
    BY <2>1, <2>2 DEF AtRest, Listed, Fresh, Up, Down, Gone
  <2> QED
    BY <2>1, <2>3, <2>4 DEF EntriesApart
<1> QED
  BY <1>1, Lifecycle, TypeCorrect, PTL

(* After initialize_all every accepted plugin is Ready, or Failed with an
   Initialize diagnostic. *)
THEOREM FailuresStayApart == Spec => []FailureIsolated
<1>1. ASSUME LifeInv PROVE FailureIsolated
  BY <1>1 DEF LifeInv, AtRest, FailureIsolated, Accepted, Listed, Up, Down
<1> QED
  BY <1>1, Lifecycle, PTL

(* A plugin is only claimed for shutdown when every one registered after it is
   unloaded (shutdown_all reverses the records). *)
THEOREM LastInFirstOut == Spec => ReverseShutdown
<1>1. ASSUME TypeOK, LifeInv, [Next]_vars
      PROVE  [\A m, n \in 1..Len(records) :
                /\ m < n
                /\ pstate[records[m]] = "Ready"
                /\ pstate'[records[m]] = "ShuttingDown"
                => pstate[records[n]] = "Unloaded"]_vars
  <2> SUFFICES ASSUME NEW m \in 1..Len(records), NEW n \in 1..Len(records), m < n,
                      pstate[records[m]] = "Ready", pstate'[records[m]] = "ShuttingDown"
               PROVE  pstate[records[n]] = "Unloaded"
    OBVIOUS
  <2>0. records \in Seq(Plugins) /\ opTodo \in Seq(Plugins) /\ pstate \in [Plugins -> PluginState \cup {"Absent"}]
    BY <1>1 DEF TypeOK
  <2>1. ShutdownClaim
    <3>1. pstate' # pstate
      OBVIOUS
    <3>2. ASSUME NEW c \in Callers, CallerStep(c) PROVE FALSE
      BY <3>1, <3>2 DEF CallerStep, ExecuteEntry, RequireCapability, RefuseShuttingDown, StartTask,
         StartRefused, SpawnTask, DropHandle
    <3>3. ASSUME NEW p \in Plugins, NEW i \in TaskIds, TaskStep(p, i) PROVE FALSE
      BY <3>1, <3>3, TaskMoves DEF RequestCancel
    <3>4. ~ UNCHANGED vars
      BY <3>1 DEF vars
    <3>5. ASSUME Register PROVE FALSE
      <4>1. RegisterRecord
        BY <3>1, <3>5 DEF Register, RegisterRejected, RegisterTools, RegisterCatalog, RegisterRollback
      <4>2. pstate' = [pstate EXCEPT ![current] = "Registered"]
        BY <4>1 DEF RegisterRecord
      <4> QED
        BY <2>0, <4>2
    <3>6. ASSUME BeginInitialize \/ InitializeStep PROVE FALSE
      BY <2>0, <3>1, <3>6 DEF BeginInitialize, InitializeStep, InitializeClaim, InitializePrepare, InitializeReady,
         InitializeError, InitializeStop, InitializeFail, InitializeWithdraw, InitializeDone, Transition
    <3>7. ASSUME BeginShutdown \/ ShutdownStep, ~ ShutdownClaim PROVE FALSE
      BY <2>0, <3>1, <3>7 DEF BeginShutdown, ShutdownStep, ShutdownStop, ShutdownCallback, ShutdownUnload,
         ShutdownMark, ShutdownWithdraw, ShutdownUncatalog, ShutdownDone
    <3> QED
      BY <1>1, <3>2, <3>3, <3>4, <3>5, <3>6, <3>7 DEF Next
  <2>2. ShuttingDown /\ opTodo # <<>> /\ Distinct(records)
    BY <1>1, <2>1 DEF ShutdownClaim, At, LifeInv
  <2>3. records[m] = current
    BY <2>0, <2>1 DEF ShutdownClaim, Transition
  <2>4. current = records[Len(opTodo)] /\ Len(opTodo) \in 1..Len(records)
    BY <2>0, <2>2 DEF ShuttingDown, current
  <2>5. m = Len(opTodo)
    BY <2>2, <2>3, <2>4 DEF Distinct
  <2>6. records[n] \notin Todo
    <3> SUFFICES ASSUME records[n] \in Todo PROVE FALSE
      OBVIOUS
    <3>1. PICK i \in 1..Len(opTodo) : records[n] = opTodo[i]
      BY <2>0 DEF Todo, ToSet
    <3>2. records[n] = records[Len(opTodo) + 1 - i] /\ Len(opTodo) + 1 - i \in 1..Len(records)
      BY <2>0, <2>2, <2>4, <3>1 DEF ShuttingDown
    <3>3. n = Len(opTodo) + 1 - i
      BY <2>2, <3>2 DEF Distinct
    <3> QED
      BY <2>0, <2>5, <3>1, <3>3
  <2>7. records[n] \in Accepted
    BY <2>0 DEF Accepted, ToSet
  <2> QED
    BY <2>2, <2>6, <2>7 DEF ShuttingDown, Gone
<1> QED
  BY <1>1, TypeCorrect, Lifecycle, PTL DEF Spec, ReverseShutdown
=============================================================================
