---------------------------- MODULE TransferStore ----------------------------
(* The records of the SSH transfers: TransferStore and the operations of      *)
(* SshService that lock it (usecases/ssh_service.rs, transfer_ops.rs and      *)
(* helpers.rs).  The deque is the set `stored` with the position every record *)
(* was pushed at; a cancellation handle is in `handles` as long as the store  *)
(* keeps it, and in `flagged` once cancel() was called on it.  SshTransfers   *)
(* adds the executors.                                                        *)
EXTENDS Naturals, FiniteSets

CONSTANTS
  Jobs,          \* identifiers of transfers; each is used once (TransferId::new)
  MaxQueued,     \* MAX_QUEUED_TRANSFERS
  MaxHistory     \* MAX_TRANSFER_HISTORY

ASSUME TransferLimits == MaxQueued \in Nat /\ MaxHistory \in Nat
ASSUME FiniteJobs == IsFiniteSet(Jobs)

VARIABLES
  stored,        \* the records the store keeps
  age,           \* the position a record was pushed at, 0 before that
  status,        \* the status of each record; "gone" after a crash
  handles,       \* transfers whose cancellation handle the store keeps
  flagged        \* transfers that run and whose handle was cancelled

storeVars == <<stored, age, status, handles, flagged>>

Terminal == {"completed", "failed", "cancelled"}
Statuses == {"none", "waiting", "running", "gone"} \cup Terminal

StoreTypeOK ==
  /\ stored \subseteq Jobs
  /\ age \in [Jobs -> Nat]
  /\ status \in [Jobs -> Statuses]
  /\ handles \subseteq Jobs
  /\ flagged \subseteq Jobs

Finished(st) == {t \in stored : st[t] \in Terminal}
Active == {t \in stored : status[t] \notin Terminal}

StoreInit ==
  /\ stored = {}
  /\ age = [t \in Jobs |-> 0]
  /\ status = [t \in Jobs |-> "none"]
  /\ handles = {}
  /\ flagged = {}

(* Only the MaxHistory youngest of the finished records stay.                 *)
PruneHistory(st) ==
  {t \in stored : t \in Finished(st) =>
     Cardinality({u \in Finished(st) : age[u] >= age[t]}) <= MaxHistory}

(* The limit is tested before the history is pruned and the record pushed.    *)
Enqueue(t) ==
  /\ status[t] = "none"
  /\ Cardinality(Active) < MaxQueued
  /\ stored' = PruneHistory(status) \cup {t}
  /\ age' = [age EXCEPT ![t] = Cardinality({u \in Jobs : status[u] # "none"}) + 1]
  /\ status' = [status EXCEPT ![t] = "waiting"]
  /\ handles' = handles \cup {t}
  /\ UNCHANGED flagged

(* A finished transfer is put in the queue again, as a record of its own.     *)
Retry(t, u) ==
  /\ t \in stored
  /\ status[t] \in Terminal
  /\ Enqueue(u)

Begin(t) ==
  /\ t \in stored
  /\ status[t] = "waiting"
  /\ status' = [status EXCEPT ![t] = "running"]
  /\ UNCHANGED <<stored, age, handles, flagged>>

Outcome(ok, cancelled) ==
  IF cancelled THEN "cancelled" ELSE IF ok THEN "completed" ELSE "failed"

Finish_KeepsHandle(t, ok, cancelled) ==
  /\ status' = [status EXCEPT ![t] = IF t \in stored /\ @ \notin Terminal
                                      THEN Outcome(ok, cancelled) ELSE @]
  /\ handles' = IF cancelled THEN handles ELSE handles \ {t}
  /\ flagged' = flagged \ {t}
  /\ stored' = PruneHistory(status')
  /\ UNCHANGED age

(* finish_with_warnings leaves a terminal record alone; the handle goes and   *)
(* the history is pruned whatever the record says.                            *)
Finish(t, ok, cancelled) ==
  /\ status' = [status EXCEPT ![t] = IF t \in stored /\ @ \notin Terminal
                                      THEN Outcome(ok, cancelled) ELSE @]
  /\ handles' = handles \ {t}
  /\ flagged' = flagged \ {t}
  /\ stored' = PruneHistory(status')
  /\ UNCHANGED age

CancelAll_EndsRunning(ids) ==
  LET open == {t \in ids : t \in stored /\ status[t] \in {"waiting", "running"}}
  IN /\ status' = [t \in Jobs |-> IF t \in open THEN "cancelled" ELSE status[t]]
     /\ handles' = handles \ open
     /\ flagged' = flagged \cup (ids \cap handles)
     /\ stored' = PruneHistory(status')
     /\ UNCHANGED age

(* A waiting transfer ends at once; a running one is only asked to.           *)
CancelAll(ids) ==
  LET waiting == {t \in ids : t \in stored /\ status[t] = "waiting"}
  IN /\ status' = [t \in Jobs |-> IF t \in waiting THEN "cancelled" ELSE status[t]]
     /\ handles' = handles \ waiting
     /\ flagged' = flagged \cup ((ids \ waiting) \cap handles)
     /\ stored' = PruneHistory(status')
     /\ UNCHANGED age

CancelTransfer(t) ==
  /\ t \in handles
  /\ CancelAll({t})

ClearFinished ==
  /\ Finished(status) # {}
  /\ stored' = Active
  /\ UNCHANGED <<age, status, handles, flagged>>

(* The records live in memory only: the process ends and starts again.        *)
Restart ==
  /\ stored' = {}
  /\ status' = [t \in Jobs |-> IF t \in Active THEN "gone" ELSE status[t]]
  /\ handles' = {}
  /\ flagged' = {}
  /\ UNCHANGED age

StoreNext ==
  \/ \E t \in Jobs :
       \/ Enqueue(t)
       \/ \E u \in Jobs : Retry(u, t)
       \/ Begin(t)
       \/ status[t] = "running" /\ \E ok \in BOOLEAN : Finish(t, ok, t \in flagged)
       \/ status[t] = "running" /\ Finish(t, FALSE, FALSE)
       \/ CancelTransfer(t)
  \/ CancelAll(Active)
  \/ ClearFinished
  \/ Restart

StoreSpec == StoreInit /\ [][StoreNext]_storeVars

-----------------------------------------------------------------------------
(* Every transfer that is not over can be cancelled, and the store keeps no   *)
(* handle of one that is: enqueue, cancel_transfer, cancel_tasks and finish   *)
(* keep the deque and the map of handles in step.                             *)
HandlesMatch == handles = Active
=============================================================================
