------------------------------ MODULE SyncGate ------------------------------
(***************************************************************************)
(* DataSyncGate (data_sync/gate.rs): the application-wide slot a data      *)
(* synchronisation holds from start() until the user has confirmed its     *)
(* result.  Every method runs under the gate's one mutex and is one        *)
(* action.  A permit is what begin() hands out: the executor reports and   *)
(* finishes with it, clones of it and task ids stay behind in views that   *)
(* may outlive the task they show.                                         *)
(***************************************************************************)
EXTENDS Naturals, FiniteSets

CONSTANTS
  Tasks,    \* task ids; DataSyncTaskId::new() draws a fresh one per request
  MaxRuns   \* bound of the model: tasks ever begun

ASSUME MaxRunsNat == MaxRuns \in Nat

VARIABLES
  generation, \* GateInner.generation
  holder,     \* permit of the active task, NoPermit when `active` is None
  phase,      \* DataSyncGatePhase of the active task, "Idle" when None
  stage,      \* progress.stage as the overlay shows it
  flagged,    \* permits whose cancellation flag is set
  running,    \* permits whose execute() has not returned
  issued,     \* permits handed out so far
  asked,      \* history: permits a user asked to cancel while he looked at them
  confirmed   \* history: permits of the tasks a user asked to close

gateVars == <<generation, holder, phase, stage, flagged, running, issued, asked, confirmed>>

Working  == {"Running", "Cancelling"}
Terminal == {"Completed", "Failed", "Cancelled"}
Stages   == {"none", "Verifying", "Creating", "Scanning", "Writing", "Finalizing", "Cancelling"}

Permits  == [gen : 1..MaxRuns, task : Tasks]
NoPermit == [gen |-> 0, task |-> "none"]

GateTypeOK ==
  /\ generation \in 0..MaxRuns
  /\ holder     \in Permits \cup {NoPermit}
  /\ phase      \in {"Idle"} \cup Working \cup Terminal
  /\ stage      \in Stages
  /\ flagged    \in SUBSET Permits
  /\ running    \in SUBSET Permits
  /\ issued     \in SUBSET Permits
  /\ asked      \in SUBSET Permits
  /\ confirmed  \in SUBSET Permits

GateInit ==
  /\ generation = 0
  /\ holder     = NoPermit
  /\ phase      = "Idle"
  /\ stage      = "none"
  /\ flagged    = {}
  /\ running    = {}
  /\ issued     = {}
  /\ asked      = {}
  /\ confirmed  = {}

-----------------------------------------------------------------------------
(* current_task: generation and task id match, and there is a task *)
Current(p) == phase # "Idle" /\ holder = p

(* begin, called by start(); `running` stands for the execute() that follows *)
Begin(t) ==
  /\ phase = "Idle"
  /\ generation < MaxRuns
  /\ \A p \in issued : p.task # t
  /\ LET p == [gen |-> generation + 1, task |-> t]
     IN  /\ holder'  = p
         /\ running' = running \cup {p}
         /\ issued'  = issued \cup {p}
  /\ generation' = generation + 1
  /\ phase' = "Running"
  /\ stage' = "none"
  /\ UNCHANGED <<flagged, asked, confirmed>>

(* Faulty: progress that was under way hides the cancellation again. *)
UpdateProgress_Plain(p, s) ==
  /\ p \in running
  /\ stage' = IF Current(p) /\ phase \in Working THEN s ELSE stage
  /\ UNCHANGED <<generation, holder, phase, flagged, running, issued, asked, confirmed>>

(* update_progress: refused for a stale permit or a finished task *)
UpdateProgress(p, s) ==
  /\ p \in running
  /\ stage' = IF Current(p) /\ phase \in Working
              THEN IF phase = "Cancelling" THEN "Cancelling" ELSE s
              ELSE stage
  /\ UNCHANGED <<generation, holder, phase, flagged, running, issued, asked, confirmed>>

(* The part request_cancel and request_cancel_current share *)
Cancel ==
  IF phase = "Running"
  THEN /\ flagged' = flagged \cup {holder}
       /\ phase'   = "Cancelling"
       /\ stage'   = "Cancelling"
  ELSE UNCHANGED <<flagged, phase, stage>>

(* Faulty: the overlay's task id is not compared. *)
RequestCancel_AnyTask(p) ==
  /\ p \in issued
  /\ asked' = asked \cup {p}
  /\ Cancel
  /\ UNCHANGED <<generation, holder, running, issued, confirmed>>

(* request_cancel (by permit) and request_cancel_current (by task id): task
   ids are fresh, so both name the same task. *)
RequestCancel(p) ==
  /\ p \in issued
  /\ asked' = asked \cup {p}
  /\ IF Current(p) THEN Cancel ELSE UNCHANGED <<flagged, phase, stage>>
  /\ UNCHANGED <<generation, holder, running, issued, confirmed>>

(* finish_completed, finish_cancelled or finish_failed, the last thing
   execute() does *)
Finish(p, outcome) ==
  /\ p \in running
  /\ running' = running \ {p}
  /\ phase' = IF Current(p) /\ phase \in Working THEN outcome ELSE phase
  /\ UNCHANGED <<generation, holder, stage, flagged, issued, asked, confirmed>>

(* Faulty: a task being cancelled may be closed as well. *)
Acknowledge_Early(p) ==
  /\ p \in issued
  /\ confirmed' = confirmed \cup {p}
  /\ IF Current(p) /\ phase # "Running"
     THEN holder' = NoPermit /\ phase' = "Idle" /\ stage' = "none"
     ELSE UNCHANGED <<holder, phase, stage>>
  /\ UNCHANGED <<generation, flagged, running, issued, asked>>

(* Faulty: the id of the result on the screen is not compared. *)
Acknowledge_AnyTask(p) ==
  /\ p \in issued
  /\ confirmed' = confirmed \cup {p}
  /\ IF phase \in Terminal
     THEN holder' = NoPermit /\ phase' = "Idle" /\ stage' = "none"
     ELSE UNCHANGED <<holder, phase, stage>>
  /\ UNCHANGED <<generation, flagged, running, issued, asked>>

(* acknowledge_and_release, acknowledge_current *)
Acknowledge(p) ==
  /\ p \in issued
  /\ confirmed' = confirmed \cup {p}
  /\ IF Current(p) /\ phase \in Terminal
     THEN holder' = NoPermit /\ phase' = "Idle" /\ stage' = "none"
     ELSE UNCHANGED <<holder, phase, stage>>
  /\ UNCHANGED <<generation, flagged, running, issued, asked>>

-----------------------------------------------------------------------------
GateNext ==
  \/ \E t \in Tasks : Begin(t)
  \/ \E p \in issued : \/ \E s \in Stages : UpdateProgress(p, s)
                       \/ RequestCancel(p)
                       \/ \E outcome \in Terminal : Finish(p, outcome)
                       \/ Acknowledge(p)

GateSpec == GateInit /\ [][GateNext]_gateVars

-----------------------------------------------------------------------------
(* Properties *)

(* While an executor is at work the gate is held by it and not yet in a final
   state; so there is one executor at a time, and neither a second start() nor
   an early confirmation gets past it (gate.rs:86 "终态仍视为阻塞", :216). *)
OneExecutor ==
  \A p \in running : holder = p /\ phase \in Working

(* The flag an executor polls, the phase and the stage on the overlay tell one
   story: progress reported after the request does not hide it (gate.rs:160). *)
CancelVisible ==
  /\ phase = "Cancelling" => stage = "Cancelling"
  /\ phase \in Working => (phase = "Cancelling" <=> holder \in flagged)

(* A view left over from an earlier task does not cancel a later one
   (gate.rs:182 "防止旧界面误取消新任务"). *)
CancelsAsked == flagged \subseteq asked

(* Whatever stale views confirm, a task goes away only when the user closed the
   view of that very task (gate.rs:229). *)
ResultsConfirmed == issued \ {holder} \subseteq confirmed
=============================================================================
