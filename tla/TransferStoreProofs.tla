------------------------- MODULE TransferStoreProofs -------------------------
(* The store of transfer records, for any set of jobs and any limits.  That   *)
(* the handles are those of the transfers that are not over is inductive with *)
(* the types: pruning the history only ever takes finished records.  Every    *)
(* operation has a lemma, which SshTransfers uses for its own steps.          *)
EXTENDS TransferStore, FiniteSetTheorems, TLAPS

(* What is under way is kept.                                                 *)
Open(t) == status[t] \in {"waiting", "running"}
OpenIsStored == \A t \in Jobs : Open(t) => t \in stored

StoreInv == StoreTypeOK /\ HandlesMatch /\ OpenIsStored

(* PruneHistory takes records from the store, finished ones only.             *)
LEMMA PruneKeeps ==
  ASSUME NEW st
  PROVE  /\ PruneHistory(st) \subseteq stored
         /\ \A t \in stored : st[t] \notin Terminal => t \in PruneHistory(st)
  BY DEF PruneHistory, Finished

(* What an executor reports is terminal.                                      *)
LEMMA OutcomeTerminal ==
  ASSUME NEW ok \in BOOLEAN, NEW cancelled \in BOOLEAN
  PROVE  Outcome(ok, cancelled) \in Terminal
  BY DEF Outcome, Terminal

(* Every operation keeps the invariant: enqueue,                              *)
LEMMA EnqueueKeeps ==
  ASSUME StoreInv, NEW t \in Jobs, Enqueue(t)
  PROVE  StoreInv'
<1> DEFINE placed == {u \in Jobs : status[u] # "none"}
<1>1. Cardinality(placed) + 1 \in Nat
  BY FiniteJobs, FS_Subset, FS_CardinalityType
<1>2. /\ stored' = PruneHistory(status) \cup {t}
      /\ age' = [age EXCEPT ![t] = Cardinality(placed) + 1]
      /\ status' = [status EXCEPT ![t] = "waiting"]
      /\ handles' = handles \cup {t} /\ flagged' = flagged
      /\ status[t] = "none"
  BY DEF Enqueue
<1> HIDE DEF placed
<1>3. StoreTypeOK'
  BY <1>1, <1>2, PruneKeeps DEF StoreInv, StoreTypeOK, Statuses
<1>4. /\ \A u \in stored' : u = t \/ u \in stored
      /\ \A u \in stored : status[u] \notin Terminal => u \in stored'
      /\ \A u \in Jobs : u # t => status'[u] = status[u]
      /\ t \in stored' /\ status'[t] = "waiting"
  BY <1>2, PruneKeeps DEF StoreInv, StoreTypeOK
<1>5. HandlesMatch'
  BY <1>2, <1>4 DEF StoreInv, StoreTypeOK, HandlesMatch, Active, Terminal
<1>6. OpenIsStored'
  BY <1>4 DEF StoreInv, OpenIsStored, Open, Terminal
<1> QED
  BY <1>3, <1>5, <1>6 DEF StoreInv

(* begin,                                                                     *)
LEMMA BeginKeeps ==
  ASSUME StoreInv, NEW t \in Jobs, Begin(t)
  PROVE  StoreInv'
  BY DEF StoreInv, StoreTypeOK, HandlesMatch, OpenIsStored, Open, Begin, Active, Terminal, Statuses

(* finish,                                                                    *)
LEMMA FinishKeeps ==
  ASSUME StoreInv, NEW t \in Jobs, NEW ok \in BOOLEAN, NEW cancelled \in BOOLEAN, Finish(t, ok, cancelled)
  PROVE  StoreInv'
<1>1. /\ \A u \in Jobs : u # t => status'[u] = status[u]
      /\ status'[t] = IF t \in stored /\ status[t] \notin Terminal THEN Outcome(ok, cancelled) ELSE status[t]
      /\ status' \in [Jobs -> Statuses]
      /\ handles' = handles \ {t} /\ flagged' = flagged \ {t} /\ age' = age
  BY OutcomeTerminal DEF Finish, StoreInv, StoreTypeOK, Statuses
<1>2. /\ stored' \subseteq stored
      /\ \A u \in stored : status'[u] \notin Terminal => u \in stored'
  BY PruneKeeps DEF Finish
<1>3. StoreTypeOK'
  BY <1>1, <1>2 DEF StoreInv, StoreTypeOK
<1>4. t \notin stored \/ status'[t] \in Terminal
  BY <1>1, OutcomeTerminal
<1>5. HandlesMatch'
  BY <1>1, <1>2, <1>4 DEF StoreInv, StoreTypeOK, HandlesMatch, Active
<1>6. OpenIsStored'
  BY <1>1, <1>2, OutcomeTerminal DEF StoreInv, OpenIsStored, Open, Terminal
<1> QED
  BY <1>3, <1>5, <1>6 DEF StoreInv

(* cancel_tasks,                                                              *)
LEMMA CancelKeeps ==
  ASSUME StoreInv, NEW ids \in SUBSET Jobs, CancelAll(ids)
  PROVE  StoreInv'
<1> DEFINE waiting == {t \in ids : t \in stored /\ status[t] = "waiting"}
<1>1. /\ \A u \in Jobs : status'[u] = IF u \in waiting THEN "cancelled" ELSE status[u]
      /\ status' \in [Jobs -> Statuses]
      /\ handles' = handles \ waiting /\ flagged' \subseteq flagged \cup handles /\ age' = age
  BY DEF CancelAll, StoreInv, StoreTypeOK, Statuses, Terminal
<1>2. /\ stored' \subseteq stored
      /\ \A u \in stored : status'[u] \notin Terminal => u \in stored'
  BY PruneKeeps DEF CancelAll
<1>3. StoreTypeOK'
  BY <1>1, <1>2 DEF StoreInv, StoreTypeOK
<1>4. waiting \subseteq Active
  BY DEF Active, Terminal
<1> HIDE DEF waiting
<1>5. HandlesMatch'
  BY <1>1, <1>2, <1>4 DEF StoreInv, StoreTypeOK, HandlesMatch, Active, Terminal
<1>6. OpenIsStored'
  BY <1>1, <1>2 DEF StoreInv, OpenIsStored, Open, Terminal
<1> QED
  BY <1>3, <1>5, <1>6 DEF StoreInv

(* clear_finished_transfers takes nothing that is under way.                  *)
LEMMA ClearKeeps ==
  ASSUME StoreInv, ClearFinished
  PROVE  StoreInv'
  BY DEF StoreInv, StoreTypeOK, HandlesMatch, OpenIsStored, Open, ClearFinished, Active, Terminal

(* After the end of the process the store begins empty. *)
LEMMA RestartKeeps ==
  ASSUME StoreInv, Restart
  PROVE  StoreInv'
  BY DEF StoreInv, StoreTypeOK, HandlesMatch, OpenIsStored, Open, Restart, Active, Terminal, Statuses

(* enqueue, cancel_transfer, cancel_tasks and finish keep the deque and the   *)
(* map of handles in step: every transfer that is not over can be cancelled,  *)
(* and the store keeps no handle of one that is.                              *)
THEOREM StoreHandlesMatch == StoreSpec => []HandlesMatch
<1>1. StoreInit => StoreInv
  BY DEF StoreInit, StoreInv, StoreTypeOK, HandlesMatch, OpenIsStored, Open, Active, Statuses
<1>2. StoreInv /\ [StoreNext]_storeVars => StoreInv'
  <2> SUFFICES ASSUME StoreInv, [StoreNext]_storeVars PROVE StoreInv'
    OBVIOUS
  <2>1. ASSUME NEW t \in Jobs, Enqueue(t) \/ \E u \in Jobs : Retry(u, t) PROVE StoreInv'
    BY <2>1, EnqueueKeeps DEF Retry
  <2>2. ASSUME NEW t \in Jobs, NEW ok \in BOOLEAN, Finish(t, ok, t \in flagged) PROVE StoreInv'
    <3>1. (t \in flagged) \in BOOLEAN
      OBVIOUS
    <3> QED
      BY <2>2, <3>1, FinishKeeps
  <2>3. ASSUME NEW t \in Jobs, Finish(t, FALSE, FALSE) PROVE StoreInv'
    BY <2>3, FinishKeeps
  <2>4. ASSUME NEW t \in Jobs, CancelTransfer(t) PROVE StoreInv'
    BY <2>4, CancelKeeps DEF CancelTransfer
  <2>5. CASE CancelAll(Active)
    <3>1. Active \subseteq Jobs
      BY DEF StoreInv, StoreTypeOK, Active
    <3> QED
      BY <2>5, <3>1, CancelKeeps
  <2>6. CASE UNCHANGED storeVars
    BY <2>6 DEF storeVars, StoreInv, StoreTypeOK, HandlesMatch, OpenIsStored, Open, Active
  <2> QED
    BY <2>1, <2>2, <2>3, <2>4, <2>5, <2>6, BeginKeeps, ClearKeeps, RestartKeeps DEF StoreNext
<1>3. StoreInv => HandlesMatch
  BY DEF StoreInv
<1> QED
  BY <1>1, <1>2, <1>3, PTL DEF StoreSpec
=============================================================================
