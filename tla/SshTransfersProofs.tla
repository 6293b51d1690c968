------------------------- MODULE SshTransfersProofs --------------------------
(* Theorems of SshTransfers for any set of jobs, any limits and any number of *)
(* disturbances.  The invariant says, for every step an executor may be at,   *)
(* what it can rely on: from the check to the commit its sibling holds its    *)
(* whole content, only a job that may overwrite takes the target aside, its   *)
(* backup is not there before it does, and a result is ok only after its      *)
(* content has been at the target.  The engine is dealt with first, then the  *)
(* rest of the executors, and then the users, crashes and other programs,     *)
(* which move no executor's files.                                            *)
EXTENDS SshTransfers, TransferStoreProofs

(* The records: what is under way is kept, and the saves of the editor have   *)
(* none.                                                                      *)
RecordsOK ==
  /\ StoreInv
  /\ \A t \in Jobs : kind[t] = "save" => status[t] = "none" /\ t \notin stored

(* The connect lock and the shutdown *)
SessionOK ==
  /\ lock # NoJob => lockKnown
  /\ userPc \in {"locks", "drain", "drainLocked", "down"} => shuttingDown
  /\ userPc \in {"drain", "down"} => lock = NoJob
  /\ userPc = "down" => cache = NoJob
  /\ \A j \in Jobs : /\ pc[j] = "lock" => lockKnown
                     /\ pc[j] = "connecting" => lock = j

Early == {"preflight", "lock", "connecting", "look", "match", "create", "copy"}
Ready == {"check", "commit", "stash", "swap", "link", "replace"}
Looked == {"match", "create", "copy", "close", "check"}
Replacing == {"stash", "swap", "drop", "restore", "replace"}

(* What the step of an executor says of its files *)
FilesOK(j) ==
  /\ pc[j] \in Early \cup {"idle", "check"} => result[j] = "none"
  /\ pc[j] \in {"cleanup", "restore"} => result[j] \in {"error", "broken"}
  /\ pc[j] \in Ready \/ (pc[j] = "close" /\ result[j] = "none") => temp[j] = j
  /\ pc[j] = "drop" \/ result[j] = "ok" => j \in landed
  /\ result[j] = "ok" => pc[j] = "finish"
  /\ pc[j] \in Looked => (existed[j] => overwrite[j])
  /\ pc[j] \in Replacing \/ kind[j] = "save" => overwrite[j]
  /\ \/ pc[j] \in Early \cup {"close", "check", "stash"}
     \/ pc[j] = "idle" /\ (kind[j] = "save" \/ status[j] \in {"none", "waiting"})
     => backup[j] = Absent
  /\ backup[j] # "partial"

TransferInv ==
  /\ TypeOK /\ RecordsOK /\ RunningIsExecuted /\ SessionOK
  /\ TargetWhole /\ CompletedLanded
  /\ \A j \in Jobs : FilesOK(j)

(* The steps of an executor while the engine works on its files *)
EngineStep(j) ==
  \/ Look(j) \/ Match(j) \/ CreateRemote(j) \/ CreateLocal(j) \/ Copy(j) \/ Close(j) \/ Check(j)
  \/ CommitNew(j) \/ Stash(j) \/ Swap(j) \/ DropBackup(j) \/ Restore(j)
  \/ Link(j) \/ Replace(j) \/ Cleanup(j)
EngineSteps == Permitted \cup {"look"}
Results == {"none", "ok", "error", "broken"}

(* A step of the engine moves its own executor, within the engine or out of it. *)
LEMMA EngineTyped ==
  ASSUME TypeOK, NEW j \in Jobs, EngineStep(j)
  PROVE  /\ pc' \in [Jobs -> Steps] /\ result' \in [Jobs -> Results]
         /\ \A i \in Jobs \ {j} : pc'[i] = pc[i] /\ result'[i] = result[i]
         /\ pc[j] \in EngineSteps
         /\ pc'[j] \in EngineSteps \cup {"finish", "invalidate"}
<1> USE DEF Fail, Return, Ok, Goto, TypeOK, Steps, Results, EngineSteps, Permitted
<1>1. CASE Look(j) \/ Match(j)
  BY <1>1 DEF Look, Match, AskOrReturn
<1>2. CASE CreateRemote(j)
  BY <1>2 DEF CreateRemote
<1>3. CASE CreateLocal(j)
  BY <1>3 DEF CreateLocal, Request
<1>4. CASE Copy(j) \/ Close(j)
  BY <1>4 DEF Copy, Close, Request
<1>5. CASE Check(j)
  BY <1>5 DEF Check, Request
<1>6. CASE CommitNew(j)
  BY <1>6 DEF CommitNew, Request
<1>7. CASE Stash(j)
  BY <1>7 DEF Stash, Request
<1>8. CASE Swap(j)
  BY <1>8 DEF Swap, Request
<1>9. CASE DropBackup(j) \/ Restore(j)
  BY <1>9 DEF DropBackup, Restore
<1>10. CASE Link(j) \/ Replace(j)
  BY <1>10 DEF Link, Replace
<1>11. CASE Cleanup(j)
  BY <1>11 DEF Cleanup
<1> QED
  BY <1>1, <1>2, <1>3, <1>4, <1>5, <1>6, <1>7, <1>8, <1>9, <1>10, <1>11 DEF EngineStep

(* The files of the others and what was written before stay as they are.      *)
LEMMA EngineFiles ==
  ASSUME TypeOK, NEW j \in Jobs, EngineStep(j)
  PROVE  /\ target' \in [Sides -> Contents] /\ temp' \in [Jobs -> Contents] /\ backup' \in [Jobs -> Contents]
         /\ \A i \in Jobs \ {j} : temp'[i] = temp[i] /\ backup'[i] = backup[i]
         /\ landed' \in {landed, landed \cup {j}}
<1> USE DEF TypeOK, Contents, Sides, fileVars
<1>1. CASE Look(j) \/ Match(j) \/ Close(j) \/ Check(j)
  BY <1>1 DEF Look, Match, Close, Check
<1>2. CASE CreateRemote(j) \/ CreateLocal(j) \/ Copy(j)
  <2>1. UNCHANGED <<target, backup, landed>>
    BY <1>2 DEF CreateRemote, CreateLocal, Copy
  <2>2. \E c \in {"partial", j, temp[j]} : temp' = [temp EXCEPT ![j] = c]
    <3>1. temp = [temp EXCEPT ![j] = temp[j]]
      OBVIOUS
    <3> QED
      BY <1>2, <3>1 DEF CreateRemote, CreateLocal, Copy
  <2> QED
    BY <2>1, <2>2
<1>3. CASE CommitNew(j)
  BY <1>3 DEF CommitNew, Land
<1>4. CASE Stash(j)
  <2>1. UNCHANGED <<temp, landed>>
    BY <1>4 DEF Stash
  <2>2. CASE UNCHANGED <<target, backup>>
    BY <2>1, <2>2
  <2>3. CASE /\ backup' = [backup EXCEPT ![j] = target["remote"]]
             /\ target' = [target EXCEPT !["remote"] = Absent]
    BY <2>1, <2>3
  <2> QED
    BY <1>4, <2>2, <2>3 DEF Stash
<1>5. CASE Swap(j)
  BY <1>5 DEF Swap, Land
<1>6. CASE DropBackup(j) \/ Restore(j)
  BY <1>6 DEF DropBackup, Restore
<1>7. CASE Link(j) \/ Replace(j)
  BY <1>7 DEF Link, Replace, Land
<1>8. CASE Cleanup(j)
  BY <1>8 DEF Cleanup
<1> QED
  BY <1>1, <1>2, <1>3, <1>4, <1>5, <1>6, <1>7, <1>8 DEF EngineStep

(* The engine works on files: the store, the sessions and the world stay.     *)
LEMMA EngineRest ==
  ASSUME TypeOK, NEW j \in Jobs, EngineStep(j)
  PROVE  /\ UNCHANGED <<storeVars, sessionVars, envVars, expected>>
         /\ existed' \in [Jobs -> BOOLEAN] /\ \A i \in Jobs \ {j} : existed'[i] = existed[i]
         /\ existed' = existed \/ Look(j)
<1> USE DEF Engine, NoSession, TypeOK
<1>1. CASE Look(j)
  BY <1>1 DEF Look
<1>2. CASE Match(j) \/ CreateRemote(j) \/ CreateLocal(j) \/ Copy(j) \/ Close(j) \/ Check(j)
  BY <1>2 DEF Match, CreateRemote, CreateLocal, Copy, Close, Check
<1>3. CASE CommitNew(j) \/ Stash(j) \/ Swap(j) \/ DropBackup(j) \/ Restore(j) \/ Link(j) \/ Replace(j) \/ Cleanup(j)
  BY <1>3 DEF CommitNew, Stash, Swap, DropBackup, Restore, Link, Replace, Cleanup
<1> QED
  BY <1>1, <1>2, <1>3 DEF EngineStep

(* The steps that leave the records alone *)
LEMMA RecordsQuiet ==
  ASSUME RecordsOK, UNCHANGED <<storeVars, kind>>
  PROVE  RecordsOK'
<1>1. StoreInv'
  BY DEF RecordsOK, StoreInv, StoreTypeOK, HandlesMatch, OpenIsStored, Open, Active, storeVars
<1> QED
  BY <1>1 DEF RecordsOK, storeVars

(* An executor that goes on, and one that neither starts nor ends, runs its record. *)
LEMMA RunningQuiet ==
  ASSUME RunningIsExecuted, NEW j \in Jobs, UNCHANGED <<storeVars, kind>>,
         \A i \in Jobs \ {j} : pc'[i] = pc[i],
         kind[j] = "save" \/ (pc[j] # "idle" /\ pc'[j] # "idle")
  PROVE  RunningIsExecuted'
  BY DEF RunningIsExecuted, storeVars

(* An executor that reports its outcome has a record that runs, and ends it.  *)
LEMMA FinishRecords ==
  ASSUME TypeOK, RecordsOK, RunningIsExecuted, NEW j \in Jobs, kind[j] # "save", pc[j] # "idle", pc'[j] = "idle",
         \A i \in Jobs \ {j} : pc'[i] = pc[i], UNCHANGED kind,
         NEW ok \in BOOLEAN, NEW cancelled \in BOOLEAN, Finish(j, ok, cancelled)
  PROVE  RecordsOK' /\ RunningIsExecuted'
<1>1. StoreInv'
  BY FinishKeeps DEF RecordsOK
<1>2. status[j] = "running" /\ j \in stored
  BY DEF RunningIsExecuted, RecordsOK, StoreInv, OpenIsStored, Open
<1>3. /\ \A i \in Jobs : i # j => status'[i] = status[i]
      /\ status'[j] \in Terminal /\ stored' \subseteq stored
  BY <1>2, OutcomeTerminal, PruneKeeps DEF Finish, TypeOK, StoreTypeOK, Terminal
<1>4. RecordsOK'
  BY <1>1, <1>3 DEF RecordsOK
<1>5. RunningIsExecuted'
  BY <1>3 DEF RunningIsExecuted, Terminal
<1> QED
  BY <1>4, <1>5

(* A cancellation ends waiting records only, which nobody executes.           *)
LEMMA CancelRecords ==
  ASSUME TypeOK, RecordsOK, RunningIsExecuted, NEW ids \in SUBSET Jobs, CancelAll(ids), UNCHANGED <<pc, kind>>
  PROVE  RecordsOK' /\ RunningIsExecuted'
<1>1. StoreInv'
  BY CancelKeeps DEF RecordsOK
<1>2. /\ stored' \subseteq stored
      /\ \A i \in Jobs : status'[i] = status[i] \/ (i \in stored /\ status[i] = "waiting" /\ status'[i] = "cancelled")
  BY PruneKeeps DEF CancelAll
<1>3. RecordsOK'
  BY <1>1, <1>2 DEF RecordsOK
<1>4. RunningIsExecuted'
  BY <1>2 DEF RunningIsExecuted
<1> QED
  BY <1>3, <1>4

(* A record that is added waits, and nobody executes it yet.                  *)
LEMMA EnqueueRecords ==
  ASSUME TypeOK, RecordsOK, RunningIsExecuted, NEW t \in Jobs, kind[t] # "save", Enqueue(t), UNCHANGED <<pc, kind>>
  PROVE  RecordsOK' /\ RunningIsExecuted'
<1>1. StoreInv'
  BY EnqueueKeeps DEF RecordsOK
<1>2. /\ stored' \subseteq stored \cup {t}
      /\ status[t] = "none" /\ status'[t] = "waiting"
      /\ \A i \in Jobs : i # t => status'[i] = status[i]
  BY PruneKeeps DEF Enqueue, TypeOK, StoreTypeOK
<1>3. RecordsOK'
  BY <1>1, <1>2 DEF RecordsOK
<1>4. RunningIsExecuted'
  BY <1>2 DEF RunningIsExecuted
<1> QED
  BY <1>3, <1>4

(* Every step keeps the records in step with the executors.                   *)
LEMMA RecordsStep ==
  ASSUME TransferInv, [Next]_vars
  PROVE  RecordsOK' /\ RunningIsExecuted'
<1> USE DEF storeVars, fileVars, sessionVars, jobVars, envVars, Quiet
<1>0. TypeOK /\ RecordsOK /\ RunningIsExecuted
  BY DEF TransferInv
<1>1. ASSUME NEW j \in Jobs, EngineStep(j) PROVE RecordsOK' /\ RunningIsExecuted'
  <2>1. UNCHANGED <<storeVars, kind>>
    BY <1>0, <1>1, EngineRest
  <2>2. pc[j] # "idle" /\ pc'[j] # "idle" /\ \A i \in Jobs \ {j} : pc'[i] = pc[i]
    BY <1>0, <1>1, EngineTyped DEF EngineSteps, Permitted
  <2> QED
    BY <1>0, <2>1, <2>2, RecordsQuiet, RunningQuiet
<1>2. ASSUME NEW j \in Jobs, LockConnect(j) \/ Connected(j) \/ Invalidate(j) PROVE RecordsOK' /\ RunningIsExecuted'
  <2>1. UNCHANGED <<storeVars, kind>>
    BY <1>2 DEF LockConnect, Connected, Invalidate, NoFiles
  <2>2. pc[j] # "idle" /\ pc'[j] # "idle" /\ \A i \in Jobs \ {j} : pc'[i] = pc[i]
    BY <1>0, <1>2 DEF LockConnect, Connected, Invalidate, Ok, Fail, Goto, TypeOK
  <2> QED
    BY <1>0, <2>1, <2>2, RecordsQuiet, RunningQuiet
<1>3. ASSUME NEW j \in Jobs, Preflight(j) PROVE RecordsOK' /\ RunningIsExecuted'
  <2>1. pc[j] = "preflight" /\ UNCHANGED kind /\ \A i \in Jobs \ {j} : pc'[i] = pc[i]
    BY <1>0, <1>3 DEF Preflight, Ok, Fail, Goto, TypeOK
  <2>2. CASE UNCHANGED storeVars /\ pc'[j] # "idle"
    BY <1>0, <2>1, <2>2, RecordsQuiet, RunningQuiet
  <2>3. CASE kind[j] # "save" /\ Finish(j, FALSE, FALSE) /\ pc'[j] = "idle"
    BY <1>0, <2>1, <2>3, FinishRecords
  <2> QED
    BY <1>0, <1>3, <2>2, <2>3 DEF Preflight, Ok, Fail, Goto, TypeOK
<1>4. ASSUME NEW j \in Jobs, FinishTransfer(j) PROVE RecordsOK' /\ RunningIsExecuted'
  <2>1. pc[j] = "finish" /\ UNCHANGED kind /\ \A i \in Jobs \ {j} : pc'[i] = pc[i]
    BY <1>0, <1>4 DEF FinishTransfer, Goto, TypeOK
  <2>2. CASE kind[j] = "save"
    BY <1>0, <1>4, <2>1, <2>2, RecordsQuiet, RunningQuiet DEF FinishTransfer
  <2>3. CASE kind[j] # "save"
    <3>1. Finish(j, result[j] = "ok", j \in flagged) /\ pc'[j] = "idle"
      BY <1>0, <1>4, <2>3 DEF FinishTransfer, Goto, TypeOK
    <3>2. (result[j] = "ok") \in BOOLEAN /\ (j \in flagged) \in BOOLEAN
      OBVIOUS
    <3> QED
      BY <1>0, <2>1, <2>3, <3>1, <3>2, FinishRecords
  <2> QED
    BY <2>2, <2>3
<1>5. ASSUME NEW t \in Jobs, EnqueueTransfer(t) PROVE RecordsOK' /\ RunningIsExecuted'
  BY <1>0, <1>5, EnqueueRecords DEF EnqueueTransfer
<1>6. ASSUME NEW t \in Jobs, NEW u \in Jobs, RetryTransfer(t, u) PROVE RecordsOK' /\ RunningIsExecuted'
  <2>1. kind[u] # "save"
    BY <1>0, <1>6 DEF RetryTransfer, Retry, RecordsOK
  <2> QED
    BY <1>0, <1>6, <2>1, EnqueueRecords DEF RetryTransfer, Retry
<1>7. ASSUME NEW t \in Jobs, BeginTransfer(t) PROVE RecordsOK' /\ RunningIsExecuted'
  <2>1. StoreInv'
    BY <1>0, <1>7, BeginKeeps DEF BeginTransfer, RecordsOK
  <2>2. t \in handles /\ kind[t] # "save"
    BY <1>0, <1>7 DEF BeginTransfer, Begin, RecordsOK, StoreInv, HandlesMatch, Active, Terminal
  <2>3. /\ status' = [status EXCEPT ![t] = "running"] /\ pc' = [pc EXCEPT ![t] = "preflight"]
        /\ UNCHANGED <<kind, stored>>
    BY <1>7, <2>2 DEF BeginTransfer, Begin, Goto
  <2> QED
    BY <1>0, <2>1, <2>2, <2>3 DEF RecordsOK, RunningIsExecuted, TypeOK, StoreTypeOK
<1>8. ASSUME NEW j \in Jobs, StartSave(j) PROVE RecordsOK' /\ RunningIsExecuted'
  <2>1. UNCHANGED <<storeVars, kind>> /\ kind[j] = "save" /\ \A i \in Jobs \ {j} : pc'[i] = pc[i]
    BY <1>0, <1>8 DEF StartSave, Goto, TypeOK
  <2> QED
    BY <1>0, <2>1, RecordsQuiet, RunningQuiet
<1>9. ASSUME NEW t \in Jobs, Cancel(t) PROVE RecordsOK' /\ RunningIsExecuted'
  BY <1>0, <1>9, CancelRecords DEF Cancel, CancelTransfer
<1>10. CASE Clear
  <2>1. StoreInv'
    BY <1>0, <1>10, ClearKeeps DEF Clear, RecordsOK
  <2>2. UNCHANGED <<status, pc, kind>> /\ stored' \subseteq stored
    BY <1>10 DEF Clear, ClearFinished, Active
  <2> QED
    BY <1>0, <2>1, <2>2 DEF RecordsOK, RunningIsExecuted
<1>11. CASE Leave
  <2>1. Active \subseteq Jobs
    BY <1>0 DEF TypeOK, StoreTypeOK, Active
  <2> QED
    BY <1>0, <1>11, <2>1, CancelRecords DEF Leave, Alone
<1>12. CASE Crash
  <2>1. StoreInv'
    BY <1>0, <1>12, RestartKeeps DEF Crash, RecordsOK
  <2>2. /\ stored' = {} /\ \A i \in Jobs : status'[i] = IF i \in Active THEN "gone" ELSE status[i]
        /\ UNCHANGED kind
        /\ \A i \in Jobs : kind[i] # "save" => pc'[i] = "idle"
    BY <1>12 DEF Crash, Restart
  <2>3. \A i \in Jobs : status'[i] # "running"
    BY <1>0, <2>2 DEF RecordsOK, StoreInv, OpenIsStored, Open, Active, Terminal
  <2>4. \A i \in Jobs : kind[i] = "save" => i \notin Active
    BY <1>0 DEF RecordsOK, Active
  <2> QED
    BY <1>0, <2>1, <2>2, <2>3, <2>4 DEF RecordsOK, RunningIsExecuted
<1>13. CASE UNCHANGED <<storeVars, kind, pc>>
  BY <1>0, <1>13, RecordsQuiet DEF RunningIsExecuted
<1>14. CASE GraceOver \/ Disconnect \/ CollectLocks \/ Drain
  BY <1>13, <1>14 DEF GraceOver, Disconnect, CollectLocks, Drain, Alone
<1>15. CASE (\E s \in live : SessionBreaks(s)) \/ (\E side \in Sides : Other(side))
  BY <1>13, <1>15 DEF SessionBreaks, Other
<1>16. CASE UNCHANGED vars
  BY <1>13, <1>16 DEF vars
<1> QED
  BY <1>1, <1>2, <1>3, <1>4, <1>5, <1>6, <1>7, <1>8, <1>9, <1>10, <1>11, <1>12, <1>14, <1>15, <1>16
  DEF Next, Execute, EngineStep, User, World

(* Every step keeps the types.                                                *)
LEMMA TransferTypes ==
  ASSUME TransferInv, [Next]_vars
  PROVE  TypeOK'
<1> USE DEF fileVars, sessionVars, jobVars, envVars, Quiet
<1>0. TypeOK /\ StoreTypeOK'
  BY RecordsStep DEF TransferInv, RecordsOK, StoreInv
<1>1. ASSUME NEW j \in Jobs, EngineStep(j) PROVE TypeOK'
  <2>1. UNCHANGED <<sessionVars, envVars, expected>> /\ existed' \in [Jobs -> BOOLEAN]
    BY <1>0, <1>1, EngineRest
  <2>2. pc' \in [Jobs -> Steps] /\ result' \in [Jobs -> {"none", "ok", "error", "broken"}]
    BY <1>0, <1>1, EngineTyped DEF Results
  <2>3. /\ target' \in [Sides -> Contents] /\ temp' \in [Jobs -> Contents] /\ backup' \in [Jobs -> Contents]
        /\ landed' \subseteq Jobs
    BY <1>0, <1>1, EngineFiles DEF TypeOK
  <2> QED
    BY <1>0, <2>1, <2>2, <2>3 DEF TypeOK
<1>2. ASSUME NEW j \in Jobs, Preflight(j) PROVE TypeOK'
  <2>1. /\ pc' \in [Jobs -> Steps] /\ result' \in [Jobs -> {"none", "ok", "error", "broken"}]
        /\ lockKnown' \in BOOLEAN
    BY <1>0, <1>2 DEF Preflight, Ok, Fail, Goto, TypeOK, Steps
  <2> QED
    BY <1>0, <1>2, <2>1 DEF Preflight, TypeOK
<1>3. ASSUME NEW j \in Jobs, LockConnect(j) \/ Connected(j) \/ Invalidate(j) PROVE TypeOK'
  <2>1. pc' \in [Jobs -> Steps] /\ result' \in [Jobs -> {"none", "ok", "error", "broken"}]
    BY <1>0, <1>3 DEF LockConnect, Connected, Invalidate, Ok, Fail, Goto, TypeOK, Steps
  <2>2. cache' \in Jobs \cup {NoJob} /\ lock' \in Jobs \cup {NoJob} /\ lockKnown' \in BOOLEAN
    BY <1>0, <1>3 DEF LockConnect, Connected, Invalidate, CloseCached, TypeOK
  <2>3. conn' \in [Jobs -> Jobs \cup {NoJob}] /\ live' \subseteq Jobs
    BY <1>0, <1>3 DEF LockConnect, Connected, Invalidate, CloseCached, TypeOK
  <2> QED
    BY <1>0, <1>3, <2>1, <2>2, <2>3 DEF LockConnect, Connected, Invalidate, NoFiles, TypeOK
<1>4. ASSUME NEW j \in Jobs, FinishTransfer(j) PROVE TypeOK'
  <2>1. pc' \in [Jobs -> Steps]
    BY <1>0, <1>4 DEF FinishTransfer, Goto, TypeOK, Steps
  <2> QED
    BY <1>0, <1>4, <2>1 DEF FinishTransfer, TypeOK, Contents
<1>5. ASSUME NEW t \in Jobs, EnqueueTransfer(t) \/ (\E u \in Jobs : RetryTransfer(t, u)) \/ Cancel(t) PROVE TypeOK'
  BY <1>0, <1>5 DEF EnqueueTransfer, RetryTransfer, Cancel, TypeOK
<1>6. ASSUME NEW t \in Jobs, BeginTransfer(t) PROVE TypeOK'
  <2>1. pc' \in [Jobs -> Steps]
    BY <1>0, <1>6 DEF BeginTransfer, Goto, TypeOK, Steps
  <2> QED
    BY <1>0, <1>6, <2>1 DEF BeginTransfer, TypeOK
<1>7. ASSUME NEW j \in Jobs, StartSave(j) PROVE TypeOK'
  <2>1. pc' \in [Jobs -> Steps] /\ expected' \in [Jobs -> Contents]
    BY <1>0, <1>7 DEF StartSave, Goto, TypeOK, Steps, Sides
  <2> QED
    BY <1>0, <1>7, <2>1 DEF StartSave, TypeOK
<1>8. CASE Clear
  BY <1>0, <1>8 DEF Clear, TypeOK
<1>9. CASE Leave \/ GraceOver \/ Disconnect \/ CollectLocks \/ Drain
  <2>1. /\ userPc' \in {"idle", "leaving", "close", "stopping", "locks", "drain", "drainLocked", "down"}
        /\ shuttingDown' \in BOOLEAN
    BY <1>0, <1>9 DEF Leave, GraceOver, Disconnect, CollectLocks, Drain, TypeOK
  <2>2. trouble' \in 0..MaxTrouble
    BY <1>0, <1>9, JobsAreNew DEF Leave, Trouble, GraceOver, Disconnect, CollectLocks, Drain, TypeOK
  <2>3. cache' \in Jobs \cup {NoJob} /\ lockKnown' \in BOOLEAN /\ live' \subseteq Jobs /\ UNCHANGED <<lock, conn>>
    BY <1>0, <1>9 DEF Leave, GraceOver, Disconnect, CollectLocks, Drain, CloseCached, TypeOK
  <2> QED
    BY <1>0, <1>9, <2>1, <2>2, <2>3 DEF Leave, GraceOver, Disconnect, CollectLocks, Drain, Alone, TypeOK
<1>10. ASSUME NEW s \in live, SessionBreaks(s) PROVE TypeOK'
  BY <1>0, <1>10, JobsAreNew DEF SessionBreaks, Trouble, TypeOK
<1>11. ASSUME NEW side \in Sides, Other(side) PROVE TypeOK'
  <2>1. trouble' \in 0..MaxTrouble
    BY <1>0, <1>11, JobsAreNew DEF Other, Trouble, TypeOK
  <2>2. target' \in [Sides -> Contents]
    BY <1>0, <1>11 DEF Other, TypeOK, Contents
  <2> QED
    BY <1>0, <1>11, <2>1, <2>2 DEF Other, TypeOK
<1>12. CASE Crash
  <2>1. trouble' \in 0..MaxTrouble
    BY <1>0, <1>12, JobsAreNew DEF Crash, Trouble, TypeOK
  <2>2. pc' \in [Jobs -> Steps]
    BY <1>12 DEF Crash, Steps
  <2> QED
    BY <1>0, <1>12, <2>1, <2>2 DEF Crash, TypeOK, Contents
<1>13. CASE UNCHANGED vars
  BY <1>0, <1>13 DEF vars, TypeOK
<1> QED
  BY <1>1, <1>2, <1>3, <1>4, <1>5, <1>6, <1>7, <1>8, <1>9, <1>10, <1>11, <1>12, <1>13
  DEF Next, Execute, EngineStep, User, World

(* The connect lock is held by the executor that connects; after the flag is  *)
(* set nobody takes it, so that the shutdown that has seen it free, or has    *)
(* waited for it, closes the last session.                                    *)
LEMMA SessionStep ==
  ASSUME TransferInv, [Next]_vars
  PROVE  SessionOK'
<1> USE DEF fileVars, sessionVars, jobVars, envVars, Quiet, SessionOK
<1>0. TypeOK /\ SessionOK
  BY DEF TransferInv
<1>1. ASSUME NEW j \in Jobs, EngineStep(j) PROVE SessionOK'
  <2>1. UNCHANGED <<sessionVars, envVars>>
    BY <1>0, <1>1, EngineRest
  <2>2. pc'[j] \notin {"lock", "connecting"} /\ \A i \in Jobs \ {j} : pc'[i] = pc[i]
    BY <1>0, <1>1, EngineTyped DEF EngineSteps, Permitted
  <2> QED
    BY <1>0, <2>1, <2>2
<1>2. ASSUME NEW j \in Jobs, Preflight(j) PROVE SessionOK'
  <2>1. UNCHANGED <<cache, lock, shuttingDown, userPc>>
    BY <1>2 DEF Preflight
  <2>2. /\ \A i \in Jobs \ {j} : pc'[i] = pc[i]
        /\ pc'[j] # "connecting"
        /\ lockKnown' = lockKnown \/ lockKnown' = TRUE
        /\ pc'[j] = "lock" => ~ shuttingDown /\ lockKnown'
    BY <1>0, <1>2 DEF Preflight, Ok, Fail, Goto, TypeOK
  <2> QED
    BY <1>0, <2>1, <2>2
<1>3. ASSUME NEW j \in Jobs, LockConnect(j) PROVE SessionOK'
  <2>1. UNCHANGED <<cache, lockKnown, shuttingDown, userPc>> /\ pc[j] = "lock" /\ lock = NoJob
    BY <1>3 DEF LockConnect, NoFiles
  <2>2. /\ \A i \in Jobs \ {j} : pc'[i] = pc[i]
        /\ \/ pc'[j] \notin {"lock", "connecting"} /\ UNCHANGED lock
           \/ pc'[j] = "connecting" /\ lock' = j /\ ~ shuttingDown
    BY <1>0, <1>3 DEF LockConnect, Ok, Fail, Goto, TypeOK
  <2>3. \A i \in Jobs : pc[i] # "connecting"
    BY <1>0, <2>1, JobsAreNew
  <2> QED
    BY <1>0, <2>1, <2>2, <2>3
<1>4. ASSUME NEW j \in Jobs, Connected(j) PROVE SessionOK'
  <2>1. UNCHANGED <<lockKnown, shuttingDown, userPc>> /\ pc[j] = "connecting" /\ lock' = NoJob
    BY <1>4 DEF Connected, NoFiles
  <2>2. lock = j /\ lock # NoJob
    BY <1>0, <2>1, JobsAreNew
  <2>3. pc'[j] \notin {"lock", "connecting"} /\ \A i \in Jobs \ {j} : pc'[i] = pc[i]
    BY <1>0, <1>4 DEF Connected, Ok, Fail, Goto, TypeOK
  <2> QED
    BY <1>0, <2>1, <2>2, <2>3
<1>5. ASSUME NEW j \in Jobs, Invalidate(j) PROVE SessionOK'
  <2>1. UNCHANGED <<lock, shuttingDown, userPc>> /\ lockKnown' = TRUE /\ cache' = NoJob
    BY <1>5 DEF Invalidate, NoFiles, CloseCached
  <2>2. pc'[j] \notin {"lock", "connecting"} /\ \A i \in Jobs \ {j} : pc'[i] = pc[i]
    BY <1>0, <1>5 DEF Invalidate, Ok, Goto, TypeOK
  <2> QED
    BY <1>0, <2>1, <2>2
<1>6. ASSUME NEW j \in Jobs, FinishTransfer(j) PROVE SessionOK'
  <2>1. UNCHANGED <<cache, lock, lockKnown, shuttingDown, userPc>>
    BY <1>6 DEF FinishTransfer
  <2>2. pc'[j] \notin {"lock", "connecting"} /\ \A i \in Jobs \ {j} : pc'[i] = pc[i]
    BY <1>0, <1>6 DEF FinishTransfer, Goto, TypeOK
  <2> QED
    BY <1>0, <2>1, <2>2
<1>7. ASSUME NEW j \in Jobs, BeginTransfer(j) \/ StartSave(j) PROVE SessionOK'
  <2>1. UNCHANGED <<cache, lock, lockKnown, shuttingDown, userPc>>
    BY <1>7 DEF BeginTransfer, StartSave
  <2>2. pc' = pc \/ (pc'[j] \notin {"lock", "connecting"} /\ \A i \in Jobs \ {j} : pc'[i] = pc[i])
    BY <1>0, <1>7 DEF BeginTransfer, StartSave, Goto, TypeOK
  <2> QED
    BY <1>0, <2>1, <2>2
<1>8. CASE UNCHANGED <<cache, lock, lockKnown, shuttingDown, userPc, pc>>
  BY <1>0, <1>8
<1>9. ASSUME NEW t \in Jobs, EnqueueTransfer(t) \/ (\E u \in Jobs : RetryTransfer(t, u)) \/ Cancel(t) PROVE SessionOK'
  BY <1>8, <1>9 DEF EnqueueTransfer, RetryTransfer, Cancel
<1>10. CASE Clear \/ (\E s \in live : SessionBreaks(s)) \/ (\E side \in Sides : Other(side)) \/ UNCHANGED vars
  BY <1>8, <1>10 DEF Clear, SessionBreaks, Other, vars
<1>11. CASE Leave \/ GraceOver \/ CollectLocks
  BY <1>0, <1>11 DEF Leave, GraceOver, CollectLocks, Alone
<1>12. CASE Disconnect \/ Drain
  BY <1>0, <1>12 DEF Disconnect, Drain, CloseCached, Alone
<1>13. CASE Crash
  BY <1>13 DEF Crash
<1> QED
  BY <1>1, <1>2, <1>3, <1>4, <1>5, <1>6, <1>7, <1>9, <1>10, <1>11, <1>12, <1>13
  DEF Next, Execute, EngineStep, User, World

(* What the others do keeps the files of a job.                               *)
LEMMA FilesKept ==
  ASSUME NEW i \in Jobs, FilesOK(i),
         UNCHANGED <<pc[i], result[i], temp[i], existed[i], backup[i], kind, overwrite>>,
         landed \subseteq landed',
         status'[i] \in {"none", "waiting"} => status[i] \in {"none", "waiting"}
  PROVE  FilesOK(i)'
  BY DEF FilesOK

(* The engine: every step leaves the files of its job as the next one expects *)
(* them, and no target written in part.                                       *)
LEMMA EngineOK ==
  ASSUME TypeOK, TargetWhole, NEW j \in Jobs, FilesOK(j), EngineStep(j)
  PROVE  FilesOK(j)' /\ TargetWhole'
<1> USE DEF TypeOK, fileVars, Early, Ready, Looked, Replacing
<1>0. UNCHANGED <<kind, overwrite>> /\ (existed' = existed \/ Look(j))
  BY EngineRest DEF envVars
<1>a. Absent # "partial" /\ j # "partial" /\ Side(j) \in Sides
  BY JobsAreNew DEF Side, Sides
<1>1. CASE Look(j)
  <2>1. UNCHANGED <<target, temp, backup, landed>> /\ pc[j] = "look"
    BY <1>1 DEF Look
  <2>2. \/ pc'[j] \in {"finish", "invalidate"} /\ result'[j] \in {"error", "broken"}
        \/ /\ pc'[j] \in {"match", "create"} /\ result'[j] = result[j]
           /\ target[Side(j)] = Absent \/ overwrite[j]
           /\ existed'[j] = (kind[j] = "save" \/ target[Side(j)] # Absent)
    BY <1>1 DEF Look, AskOrReturn, Return, Fail, Ok, Goto
  <2> QED
    BY <1>0, <2>1, <2>2 DEF FilesOK, TargetWhole
<1>2. CASE Match(j)
  <2>1. UNCHANGED <<target, temp, backup, landed, existed>> /\ pc[j] = "match"
    BY <1>2 DEF Match, Engine
  <2>2. \/ pc'[j] \in {"finish", "invalidate"} /\ result'[j] \in {"error", "broken"}
        \/ pc'[j] = "create" /\ result'[j] = result[j]
    BY <1>2 DEF Match, AskOrReturn, Return, Fail, Ok, Goto
  <2> QED
    BY <1>0, <2>1, <2>2 DEF FilesOK, TargetWhole
<1>3. CASE CreateRemote(j) \/ CreateLocal(j)
  <2>1. UNCHANGED <<target, backup, landed, existed>> /\ pc[j] = "create"
    BY <1>3 DEF CreateRemote, CreateLocal, Engine
  <2>2. \/ pc'[j] \in {"finish", "invalidate", "cleanup"} /\ result'[j] \in {"error", "broken"}
        \/ pc'[j] = "copy" /\ result'[j] = result[j]
    <3>1. CASE CreateRemote(j)
      BY <3>1 DEF CreateRemote, Return, Fail, Ok, Goto
    <3>2. CASE CreateLocal(j)
      BY <3>2 DEF CreateLocal, Request, Return, Fail, Ok, Goto
    <3> QED
      BY <1>3, <3>1, <3>2
  <2> QED
    BY <1>0, <2>1, <2>2 DEF FilesOK, TargetWhole
<1>4. CASE Copy(j)
  <2>1. UNCHANGED <<target, backup, landed, existed>> /\ pc[j] = "copy"
    BY <1>4 DEF Copy, Engine
  <2>2. /\ pc'[j] = "close"
        /\ \/ result'[j] \in {"error", "broken"}
           \/ result'[j] = result[j] /\ temp'[j] = j
    BY <1>4 DEF Copy, Request, Fail, Ok, Goto
  <2> QED
    BY <1>0, <2>1, <2>2 DEF FilesOK, TargetWhole
<1>5. CASE Close(j)
  <2>1. UNCHANGED <<target, temp, backup, landed, existed>> /\ pc[j] = "close"
    BY <1>5 DEF Close, Engine
  <2>2. \/ pc'[j] = "check" /\ result[j] = "none" /\ result'[j] = "none"
        \/ pc'[j] = "cleanup" /\ result[j] # "none" /\ result'[j] = result[j]
        \/ pc'[j] = "cleanup" /\ result'[j] \in {"error", "broken"}
    BY <1>5 DEF Close, Fail, Ok, Goto
  <2> QED
    BY <1>0, <2>1, <2>2 DEF FilesOK, TargetWhole
<1>6. CASE Check(j)
  <2>1. UNCHANGED <<target, temp, backup, landed, existed>> /\ pc[j] = "check"
    BY <1>6 DEF Check, Engine
  <2>2. \/ pc'[j] = "cleanup" /\ result'[j] \in {"error", "broken"}
        \/ /\ result'[j] = result[j]
           /\ \/ pc'[j] = "stash" /\ (kind[j] = "save" \/ existed[j])
              \/ pc'[j] = "commit"
              \/ pc'[j] = "replace" /\ overwrite[j]
              \/ pc'[j] = "link"
    BY <1>6 DEF Check, Request, Fail, Ok, Goto
  <2> QED
    BY <1>0, <2>1, <2>2 DEF FilesOK, TargetWhole
<1>7. CASE CommitNew(j)
  <2>1. UNCHANGED <<backup, existed>> /\ pc[j] = "commit"
    BY <1>7 DEF CommitNew, Engine
  <2>2. \/ /\ pc'[j] = "finish" /\ result'[j] = "ok" /\ landed' = landed \cup {j}
        \/ /\ pc'[j] = "cleanup" /\ result'[j] \in {"error", "broken"}
    BY <1>7 DEF CommitNew, Land, Request, Return, Fail, Goto
  <2>3. target' = target \/ target' = [target EXCEPT !["remote"] = temp[j]]
    BY <1>7 DEF CommitNew, Land
  <2>4. temp[j] = j
    BY <2>1 DEF FilesOK
  <2> QED
    BY <1>0, <1>a, <2>1, <2>2, <2>3, <2>4 DEF FilesOK, TargetWhole
<1>8. CASE Stash(j)
  <2>1. UNCHANGED <<temp, landed, existed>> /\ pc[j] = "stash"
    BY <1>8 DEF Stash, Engine
  <2>2. \/ pc'[j] = "swap" /\ result'[j] = result[j]
        \/ pc'[j] \in {"cleanup", "restore"} /\ result'[j] \in {"error", "broken"}
    BY <1>8 DEF Stash, Request, Fail, Ok, Goto
  <2>3. \/ UNCHANGED <<target, backup>>
        \/ backup' = [backup EXCEPT ![j] = target["remote"]] /\ target' = [target EXCEPT !["remote"] = Absent]
    BY <1>8 DEF Stash
  <2>4. backup'[j] # "partial" /\ TargetWhole'
    BY <1>a, <2>3 DEF FilesOK, TargetWhole, Sides
  <2> QED
    BY <1>0, <2>1, <2>2, <2>4 DEF FilesOK
<1>9. CASE Swap(j)
  <2>1. UNCHANGED <<backup, existed>> /\ pc[j] = "swap"
    BY <1>9 DEF Swap, Engine
  <2>2. \/ pc'[j] = "drop" /\ result'[j] = result[j] /\ landed' = landed \cup {j}
        \/ pc'[j] = "restore" /\ result'[j] \in {"error", "broken"}
    BY <1>9 DEF Swap, Land, Request, Fail, Ok, Goto
  <2>3. target' = target \/ target' = [target EXCEPT !["remote"] = temp[j]]
    BY <1>9 DEF Swap, Land
  <2>4. temp[j] = j
    BY <2>1 DEF FilesOK
  <2>5. landed \subseteq landed'
    BY <1>9 DEF Swap, Land
  <2> QED
    BY <1>0, <1>a, <2>1, <2>2, <2>3, <2>4, <2>5 DEF FilesOK, TargetWhole
<1>10. CASE DropBackup(j)
  <2>1. UNCHANGED <<target, temp, landed, existed>> /\ pc[j] = "drop"
    BY <1>10 DEF DropBackup, Engine
  <2>2. pc'[j] = "finish" /\ result'[j] = "ok" /\ backup'[j] \in {backup[j], Absent}
    BY <1>10 DEF DropBackup, Return, Fail, Goto
  <2> QED
    BY <1>0, <1>a, <2>1, <2>2 DEF FilesOK, TargetWhole
<1>11. CASE Restore(j)
  <2>1. UNCHANGED <<temp, landed, existed>> /\ pc[j] = "restore"
    BY <1>11 DEF Restore, Engine
  <2>2. pc'[j] = "cleanup" /\ result'[j] \in {result[j], "error"}
    BY <1>11 DEF Restore, Fail, Ok, Goto
  <2>3. /\ backup'[j] \in {backup[j], Absent}
        /\ target' = target \/ target' = [target EXCEPT !["remote"] = backup[j]]
    BY <1>11 DEF Restore
  <2> QED
    BY <1>0, <1>a, <2>1, <2>2, <2>3 DEF FilesOK, TargetWhole
<1>12. CASE Link(j) \/ Replace(j)
  <2>1. UNCHANGED <<backup, existed>> /\ pc[j] \in {"link", "replace"}
    BY <1>12 DEF Link, Replace, Engine
  <2>2. \/ /\ pc'[j] = "finish" /\ result'[j] = "ok" /\ landed' = landed \cup {j}
        \/ /\ pc'[j] = "cleanup" /\ result'[j] \in {"error", "broken"}
    BY <1>12 DEF Link, Replace, Land, Return, Fail, Goto
  <2>3. target' = target \/ target' = [target EXCEPT !["local"] = temp[j]]
    BY <1>12 DEF Link, Replace, Land
  <2>4. temp[j] = j
    BY <2>1 DEF FilesOK
  <2> QED
    BY <1>0, <1>a, <2>1, <2>2, <2>3, <2>4 DEF FilesOK, TargetWhole
<1>13. CASE Cleanup(j)
  <2>1. UNCHANGED <<target, backup, landed, existed>> /\ pc[j] = "cleanup"
    BY <1>13 DEF Cleanup, Engine
  <2>2. pc'[j] \in {"finish", "invalidate"} /\ result'[j] = result[j]
    BY <1>13 DEF Cleanup, Return, Fail, Goto
  <2> QED
    BY <1>0, <2>1, <2>2 DEF FilesOK, TargetWhole
<1> QED
  BY <1>1, <1>2, <1>3, <1>4, <1>5, <1>6, <1>7, <1>8, <1>9, <1>10, <1>11, <1>12, <1>13 DEF EngineStep

(* Outside the engine an executor only moves; it takes a job up whose backup  *)
(* is not there, and it ends with nothing reported.                           *)
LEMMA ExecutorOK ==
  ASSUME TransferInv, NEW j \in Jobs,
         Preflight(j) \/ LockConnect(j) \/ Connected(j) \/ Invalidate(j) \/ FinishTransfer(j)
           \/ BeginTransfer(j) \/ StartSave(j)
  PROVE  FilesOK(j)'
<1> USE DEF fileVars, jobVars, envVars, sessionVars, Quiet, Early, Ready, Looked, Replacing
<1>0. TypeOK /\ FilesOK(j) /\ RunningIsExecuted /\ RecordsOK
  BY DEF TransferInv
<1>a. UNCHANGED <<landed, backup, temp, kind, overwrite>>
  BY DEF Preflight, LockConnect, Connected, Invalidate, FinishTransfer, BeginTransfer, StartSave, NoFiles
<1>b. kind[j] # "save" /\ pc[j] # "idle" => status[j] = "running" /\ j \in stored
  BY <1>0 DEF RunningIsExecuted, RecordsOK, StoreInv, OpenIsStored, Open
<1>1. CASE Preflight(j)
  <2>1. pc[j] = "preflight" /\ UNCHANGED existed
    BY <1>1 DEF Preflight
  <2>2. \/ pc'[j] = "finish" /\ result'[j] = "broken"
        \/ pc'[j] = "lock" /\ result'[j] = result[j] /\ UNCHANGED status
        \/ pc'[j] = "saved" /\ result'[j] = result[j] /\ UNCHANGED status
        \/ pc'[j] = "idle" /\ result'[j] = result[j] /\ kind[j] # "save" /\ Finish(j, FALSE, FALSE)
    BY <1>0, <1>1 DEF Preflight, Ok, Fail, Goto, TypeOK, storeVars
  <2>3. kind[j] # "save" /\ Finish(j, FALSE, FALSE) => status'[j] \in Terminal
    BY <1>0, <1>b, <2>1, OutcomeTerminal DEF Finish, TypeOK, StoreTypeOK, Terminal
  <2> QED
    BY <1>0, <1>a, <2>1, <2>2, <2>3 DEF FilesOK, Terminal
<1>2. CASE LockConnect(j) \/ Connected(j)
  <2>1. pc[j] \in {"lock", "connecting"} /\ UNCHANGED <<existed, status>>
    BY <1>2 DEF LockConnect, Connected, NoFiles, storeVars
  <2>2. \/ pc'[j] = "finish" /\ result'[j] = "broken"
        \/ pc'[j] \in {"connecting", "look"} /\ result'[j] = result[j]
    BY <1>0, <1>2 DEF LockConnect, Connected, Ok, Fail, Goto, TypeOK
  <2> QED
    BY <1>0, <1>a, <2>1, <2>2 DEF FilesOK
<1>3. CASE Invalidate(j)
  BY <1>0, <1>a, <1>3 DEF Invalidate, NoFiles, storeVars, Ok, Goto, FilesOK, TypeOK
<1>4. CASE FinishTransfer(j)
  <2>1. pc[j] = "finish" /\ existed'[j] = TRUE /\ result'[j] = "none"
    BY <1>0, <1>4 DEF FinishTransfer, TypeOK
  <2>2. \/ pc'[j] = "saved"
        \/ pc'[j] = "idle" /\ kind[j] # "save" /\ Finish(j, result[j] = "ok", j \in flagged)
    BY <1>0, <1>4 DEF FinishTransfer, Goto, TypeOK
  <2>3. kind[j] # "save" /\ Finish(j, result[j] = "ok", j \in flagged) => status'[j] \in Terminal
    <3>1. Outcome(result[j] = "ok", j \in flagged) \in Terminal
      BY DEF Outcome, Terminal
    <3> QED
      BY <1>0, <1>b, <2>1, <3>1 DEF Finish, TypeOK, StoreTypeOK, Terminal
  <2> QED
    BY <1>0, <1>a, <2>1, <2>2, <2>3 DEF FilesOK, Terminal
<1>5. CASE BeginTransfer(j)
  <2>1. /\ status[j] = "waiting" /\ status'[j] = "running" /\ UNCHANGED <<existed, result>>
        /\ pc'[j] \in {pc[j], "preflight"}
    BY <1>0, <1>5 DEF BeginTransfer, Begin, Goto, TypeOK, StoreTypeOK
  <2>2. kind[j] # "save" /\ pc[j] = "idle"
    BY <1>0, <2>1 DEF RecordsOK, RunningIsExecuted
  <2> QED
    BY <1>0, <1>a, <2>1, <2>2 DEF FilesOK
<1>6. CASE StartSave(j)
  <2>1. kind[j] = "save" /\ pc[j] = "idle" /\ pc'[j] = "preflight" /\ UNCHANGED <<existed, result>>
    BY <1>0, <1>6 DEF StartSave, Goto, TypeOK
  <2> QED
    BY <1>0, <1>a, <2>1 DEF FilesOK
<1> QED
  BY <1>1, <1>2, <1>3, <1>4, <1>5, <1>6

(* The store and the outcomes: what is waiting was not begun, and completed   *)
(* is what an executor reports that has put its content in place.             *)
LEMMA StatusStep ==
  ASSUME TransferInv, [Next]_vars
  PROVE  \A t \in Jobs :
           /\ status'[t] \in {"none", "waiting"} => status[t] \in {"none", "waiting"}
           /\ status'[t] = "completed" => status[t] = "completed" \/ t \in landed
<1> USE DEF storeVars, fileVars, sessionVars, jobVars, envVars, Quiet
<1> DEFINE Goal == \A t \in Jobs :
           /\ status'[t] \in {"none", "waiting"} => status[t] \in {"none", "waiting"}
           /\ status'[t] = "completed" => status[t] = "completed" \/ t \in landed
<1>0. TypeOK /\ RecordsOK /\ RunningIsExecuted
  BY DEF TransferInv
<1>1. CASE UNCHANGED status
  BY <1>1
<1>2. ASSUME NEW j \in Jobs, Preflight(j) PROVE Goal
  <2>1. UNCHANGED status \/ (Finish(j, FALSE, FALSE) /\ kind[j] # "save" /\ pc[j] = "preflight")
    BY <1>2 DEF Preflight
  <2>2. CASE Finish(j, FALSE, FALSE) /\ kind[j] # "save" /\ pc[j] = "preflight"
    <3>1. status[j] = "running"
      BY <1>0, <2>2 DEF RunningIsExecuted
    <3> QED
      BY <1>0, <2>2, <3>1 DEF Finish, Outcome, TypeOK, StoreTypeOK, Terminal
  <2> QED
    BY <1>1, <2>1, <2>2
<1>3. ASSUME NEW j \in Jobs, FinishTransfer(j) PROVE Goal
  <2>1. UNCHANGED status \/ (Finish(j, result[j] = "ok", j \in flagged) /\ kind[j] # "save" /\ pc[j] = "finish")
    BY <1>3 DEF FinishTransfer
  <2>2. CASE Finish(j, result[j] = "ok", j \in flagged) /\ kind[j] # "save" /\ pc[j] = "finish"
    <3>1. status[j] = "running"
      BY <1>0, <2>2 DEF RunningIsExecuted
    <3>2. result[j] = "ok" => j \in landed
      BY DEF TransferInv, FilesOK
    <3> QED
      BY <1>0, <2>2, <3>1, <3>2 DEF Finish, Outcome, TypeOK, StoreTypeOK, Terminal
  <2> QED
    BY <1>1, <2>1, <2>2
<1>4. ASSUME NEW j \in Jobs, EngineStep(j) PROVE Goal
  BY <1>0, <1>4, EngineRest
<1>5. ASSUME NEW j \in Jobs, LockConnect(j) \/ Connected(j) \/ Invalidate(j) \/ StartSave(j) PROVE Goal
  BY <1>5 DEF LockConnect, Connected, Invalidate, StartSave, NoFiles
<1>6. ASSUME NEW t \in Jobs, BeginTransfer(t) PROVE Goal
  BY <1>0, <1>6 DEF BeginTransfer, Begin, TypeOK, StoreTypeOK
<1>7. ASSUME NEW t \in Jobs, Enqueue(t) PROVE Goal
  BY <1>0, <1>7 DEF Enqueue, TypeOK, StoreTypeOK
<1>8. ASSUME NEW ids, CancelAll(ids) PROVE Goal
  BY <1>0, <1>8 DEF CancelAll, TypeOK, StoreTypeOK
<1>9. CASE Crash
  BY <1>0, <1>9 DEF Crash, Restart, TypeOK, StoreTypeOK
<1>10. CASE Clear \/ GraceOver \/ Disconnect \/ CollectLocks \/ Drain
  BY <1>10 DEF Clear, ClearFinished, GraceOver, Disconnect, CollectLocks, Drain
<1>11. CASE (\E s \in live : SessionBreaks(s)) \/ (\E side \in Sides : Other(side)) \/ UNCHANGED vars
  BY <1>11 DEF SessionBreaks, Other, vars
<1> QED
  BY <1>2, <1>3, <1>4, <1>5, <1>6, <1>7, <1>8, <1>9, <1>10, <1>11
  DEF Next, Execute, EngineStep, User, World, EnqueueTransfer, RetryTransfer, Retry, Cancel, CancelTransfer, Leave

(* What is done to a job by a step that is not of its executor *)
LEMMA FilesStep ==
  ASSUME TransferInv, [Next]_vars
  PROVE  TargetWhole' /\ CompletedLanded' /\ \A i \in Jobs : FilesOK(i)'
<1> USE DEF storeVars, fileVars, sessionVars, jobVars, envVars, Quiet
<1>0. TypeOK /\ RecordsOK /\ RunningIsExecuted /\ TargetWhole /\ CompletedLanded /\ \A i \in Jobs : FilesOK(i)
  BY DEF TransferInv
<1>a. \A t \in Jobs :
           /\ status'[t] \in {"none", "waiting"} => status[t] \in {"none", "waiting"}
           /\ status'[t] = "completed" => status[t] = "completed" \/ t \in landed
  BY StatusStep
<1>b. landed \subseteq landed' => CompletedLanded'
  BY <1>0, <1>a DEF CompletedLanded
<1>1. ASSUME NEW j \in Jobs, EngineStep(j)
      PROVE  TargetWhole' /\ CompletedLanded' /\ \A i \in Jobs : FilesOK(i)'
  <2>1. /\ landed \subseteq landed' /\ UNCHANGED <<kind, overwrite>>
        /\ \A i \in Jobs \ {j} : UNCHANGED <<pc[i], result[i], temp[i], existed[i], backup[i]>>
    BY <1>0, <1>1, EngineTyped, EngineFiles, EngineRest
  <2>2. ASSUME NEW i \in Jobs \ {j} PROVE FilesOK(i)'
    BY <1>0, <1>a, <2>1, FilesKept
  <2> QED
    BY <1>0, <1>1, <1>b, <2>1, <2>2, EngineOK
<1>2. ASSUME NEW j \in Jobs,
             Preflight(j) \/ LockConnect(j) \/ Connected(j) \/ Invalidate(j) \/ FinishTransfer(j)
               \/ BeginTransfer(j) \/ StartSave(j)
      PROVE  TargetWhole' /\ CompletedLanded' /\ \A i \in Jobs : FilesOK(i)'
  <2>1. UNCHANGED <<target, landed, backup, temp, kind, overwrite>>
    BY <1>2 DEF Preflight, LockConnect, Connected, Invalidate, FinishTransfer, BeginTransfer, StartSave, NoFiles
  <2>2. \A i \in Jobs \ {j} : UNCHANGED <<pc[i], result[i], existed[i]>>
    <3>1. CASE Preflight(j)
      BY <1>0, <3>1 DEF Preflight, Ok, Fail, Goto, TypeOK
    <3>2. CASE LockConnect(j) \/ Connected(j) \/ Invalidate(j)
      BY <1>0, <3>2 DEF LockConnect, Connected, Invalidate, NoFiles, Ok, Fail, Goto, TypeOK
    <3>3. CASE FinishTransfer(j) \/ StartSave(j)
      BY <1>0, <3>3 DEF FinishTransfer, StartSave, Goto, TypeOK
    <3>4. CASE BeginTransfer(j)
      BY <1>0, <3>4 DEF BeginTransfer, Goto, TypeOK
    <3> QED
      BY <1>2, <3>1, <3>2, <3>3, <3>4
  <2>3. ASSUME NEW i \in Jobs \ {j} PROVE FilesOK(i)'
    BY <1>0, <1>a, <2>1, <2>2, FilesKept
  <2> QED
    BY <1>0, <1>2, <1>b, <2>1, <2>3, ExecutorOK DEF TargetWhole
<1>3. CASE UNCHANGED <<target, landed, backup, temp, kind, overwrite, pc, result, existed>>
  <2>1. ASSUME NEW i \in Jobs PROVE FilesOK(i)'
    BY <1>0, <1>3, <1>a, FilesKept
  <2> QED
    BY <1>0, <1>3, <1>b, <2>1 DEF TargetWhole
<1>4. ASSUME NEW side \in Sides, Other(side)
      PROVE  TargetWhole' /\ CompletedLanded' /\ \A i \in Jobs : FilesOK(i)'
  <2>1. UNCHANGED <<landed, backup, temp, kind, overwrite, pc, result, existed>>
    BY <1>4 DEF Other
  <2>2. ASSUME NEW i \in Jobs PROVE FilesOK(i)'
    BY <1>0, <1>a, <2>1, FilesKept
  <2>3. TargetWhole'
    BY <1>0, <1>4, JobsAreNew DEF Other, TargetWhole, TypeOK
  <2> QED
    BY <1>b, <2>1, <2>2, <2>3
<1>5. CASE Crash
  <2>1. /\ UNCHANGED <<target, landed, backup, temp, kind, overwrite>>
        /\ \A i \in Jobs : /\ result'[i] = "none" /\ existed'[i] = TRUE
                           /\ pc'[i] = IF kind[i] = "save" /\ pc[i] # "idle" THEN "saved" ELSE "idle"
    BY <1>5 DEF Crash
  <2>2. \A i \in Jobs : status'[i] \in {"none", "waiting"} => status[i] = "none"
    BY <1>0, <1>5 DEF Crash, Restart, Active, Terminal, RecordsOK, StoreInv, OpenIsStored, Open
  <2>3. \A i \in Jobs : kind[i] # "save" /\ status[i] = "none" => pc[i] = "idle"
    BY <1>0 DEF RunningIsExecuted
  <2>4. ASSUME NEW i \in Jobs PROVE FilesOK(i)'
    BY <1>0, <2>1, <2>2, <2>3 DEF FilesOK, Early, Ready, Looked, Replacing
  <2> QED
    BY <1>0, <1>b, <2>1, <2>4 DEF TargetWhole
<1>6. ASSUME NEW t \in Jobs, EnqueueTransfer(t) \/ (\E u \in Jobs : RetryTransfer(t, u)) \/ Cancel(t)
      PROVE  TargetWhole' /\ CompletedLanded' /\ \A i \in Jobs : FilesOK(i)'
  BY <1>3, <1>6 DEF EnqueueTransfer, RetryTransfer, Cancel
<1>7. CASE Clear \/ Leave \/ GraceOver \/ Disconnect \/ CollectLocks \/ Drain
  BY <1>3, <1>7 DEF Clear, Leave, GraceOver, Disconnect, CollectLocks, Drain, Alone
<1>8. CASE (\E s \in live : SessionBreaks(s)) \/ UNCHANGED vars
  BY <1>3, <1>8 DEF SessionBreaks, vars
<1> QED
  BY <1>1, <1>2, <1>4, <1>5, <1>6, <1>7, <1>8 DEF Next, Execute, EngineStep, User, World

(* TransferInv is inductive.                                                  *)
THEOREM TransferInvariant == Spec => []TransferInv
<1>1. Init => TransferInv
  <2> SUFFICES ASSUME Init PROVE TransferInv
    OBVIOUS
  <2>0. Absent \notin {"orig", "foreign", "partial"} /\ MaxTrouble \in Nat
    BY JobsAreNew
  <2>1. StoreInv
    BY DEF Init, StoreInit, StoreInv, StoreTypeOK, HandlesMatch, OpenIsStored, Open, Active, Statuses
  <2>2. TypeOK
    <3>1. kind \in [Jobs -> {"upload", "download", "save"}]
      BY JobsAreNew DEF Init
    <3>2. target \in [Sides -> Contents]
      BY DEF Init, Contents
    <3>3. pc \in [Jobs -> Steps] /\ expected \in [Jobs -> Contents]
      BY DEF Init, Contents, Steps
    <3>4. temp \in [Jobs -> Contents] /\ backup \in [Jobs -> Contents] /\ result \in [Jobs -> {"none", "ok", "error", "broken"}]
      BY DEF Init, Contents
    <3>5. overwrite \in [Jobs -> BOOLEAN] /\ existed \in [Jobs -> BOOLEAN] /\ conn \in [Jobs -> Jobs \cup {NoJob}]
      BY DEF Init
    <3>6. trouble \in 0..MaxTrouble
      BY <2>0 DEF Init
    <3>7. /\ cache \in Jobs \cup {NoJob} /\ lock \in Jobs \cup {NoJob} /\ lockKnown \in BOOLEAN
          /\ live \subseteq Jobs /\ landed \subseteq Jobs
          /\ shuttingDown \in BOOLEAN
          /\ userPc \in {"idle", "leaving", "close", "stopping", "locks", "drain", "drainLocked", "down"}
      BY DEF Init
    <3> QED
      BY <2>1, <3>1, <3>2, <3>3, <3>4, <3>5, <3>6, <3>7 DEF TypeOK, StoreInv
  <2>3. RecordsOK /\ RunningIsExecuted /\ CompletedLanded
    BY <2>1 DEF Init, StoreInit, RecordsOK, RunningIsExecuted, CompletedLanded
  <2>4. SessionOK
    BY DEF Init, SessionOK
  <2>5. TargetWhole
    BY <2>0 DEF Init, TargetWhole
  <2>6. ASSUME NEW j \in Jobs PROVE FilesOK(j)
    BY <2>0 DEF Init, FilesOK, Early, Ready, Looked, Replacing
  <2> QED
    BY <2>2, <2>3, <2>4, <2>5, <2>6 DEF TransferInv
<1>2. TransferInv /\ [Next]_vars => TransferInv'
  BY TransferTypes, RecordsStep, SessionStep, FilesStep DEF TransferInv
<1> QED
  BY <1>1, <1>2, PTL DEF Spec

(* The variables keep their types.                                            *)
THEOREM TransferTypeOK == Spec => []TypeOK
<1>1. TransferInv => TypeOK
  BY DEF TransferInv
<1> QED
  BY <1>1, TransferInvariant, PTL

(* With its executors, too: every transfer that is not over can be cancelled, *)
(* and the store keeps no handle of one that is (enqueue, cancel_transfer,    *)
(* cancel_tasks and finish).                                                  *)
THEOREM HandlesFollowRecords == Spec => []HandlesMatch
<1>1. TransferInv => HandlesMatch
  BY DEF TransferInv, RecordsOK, StoreInv
<1> QED
  BY <1>1, TransferInvariant, PTL

(* cancel_transfer and begin race for a waiting record and one of them wins:  *)
(* a record is running exactly as long as an executor works on it.            *)
THEOREM OneExecutorPerRecord == Spec => []RunningIsExecuted
<1>1. TransferInv => RunningIsExecuted
  BY DEF TransferInv
<1> QED
  BY <1>1, TransferInvariant, PTL

(* finish says completed only for a transfer whose content has been at its    *)
(* target, whatever answers were lost on the way.                             *)
THEOREM CompletedIsInPlace == Spec => []CompletedLanded
<1>1. TransferInv => CompletedLanded
  BY DEF TransferInv
<1> QED
  BY <1>1, TransferInvariant, PTL

(* No target is a file that was written in part, whatever stops the job that  *)
(* writes: the engine commits siblings it has written and closed.             *)
THEOREM NoTargetInPart == Spec => []TargetWhole
<1>1. TransferInv => TargetWhole
  BY DEF TransferInv
<1> QED
  BY <1>1, TransferInvariant, PTL

(* After the shutdown there is no session of the profile and nobody that makes *)
(* one: get_or_connect looks at the flag again under the connect lock.        *)
THEOREM ShutdownClosesLast == Spec => []NoSessionAfterShutdown
<1>1. TransferInv => NoSessionAfterShutdown
  BY DEF TransferInv, SessionOK, NoSessionAfterShutdown
<1> QED
  BY <1>1, TransferInvariant, PTL

(* Only the engine touches a target or a backup while an executor moves.      *)
LEMMA OnlyEngineWrites ==
  ASSUME Next, pc' # pc
  PROVE  (\E j \in Jobs : EngineStep(j)) \/ UNCHANGED <<target, backup>>
<1> USE DEF fileVars, jobVars, Quiet, Alone
<1>1. ASSUME NEW j \in Jobs, BeginTransfer(j) \/ StartSave(j) \/ Preflight(j) \/ LockConnect(j)
                               \/ Connected(j) \/ Invalidate(j) \/ FinishTransfer(j)
      PROVE  UNCHANGED <<target, backup>>
  BY <1>1 DEF BeginTransfer, StartSave, Preflight, LockConnect, Connected, Invalidate, FinishTransfer, NoFiles
<1>2. Crash => UNCHANGED <<target, backup>>
  BY DEF Crash
<1>3. ASSUME NEW t \in Jobs, EnqueueTransfer(t) \/ (\E u \in Jobs : RetryTransfer(t, u)) \/ Cancel(t) PROVE FALSE
  BY <1>3 DEF EnqueueTransfer, RetryTransfer, Cancel
<1>4. ~ (Clear \/ Leave \/ GraceOver \/ Disconnect \/ CollectLocks \/ Drain)
  BY DEF Clear, Leave, GraceOver, Disconnect, CollectLocks, Drain
<1>5. ~ ((\E s \in live : SessionBreaks(s)) \/ (\E side \in Sides : Other(side)))
  BY DEF SessionBreaks, Other
<1> QED
  BY <1>1, <1>2, <1>3, <1>4, <1>5 DEF Next, Execute, EngineStep, User, World

(* What the engine does to the two targets and to the backup of its job       *)
LEMMA EngineWrites ==
  ASSUME TransferInv, NEW j \in Jobs, EngineStep(j)
  PROVE  \/ UNCHANGED <<target, backup>>
         \/ target["remote"] = Absent /\ UNCHANGED backup
              /\ \E c : target' = [target EXCEPT !["remote"] = c]
         \/ /\ backup[j] = Absent /\ overwrite[j]
            /\ backup' = [backup EXCEPT ![j] = target["remote"]]
            /\ target' = [target EXCEPT !["remote"] = Absent]
         \/ /\ pc[j] = "drop" /\ pc'[j] = "finish" /\ overwrite[j] /\ j \in landed
            /\ UNCHANGED target
         \/ /\ target["remote"] = Absent
            /\ target' = [target EXCEPT !["remote"] = backup[j]]
            /\ backup' = [backup EXCEPT ![j] = Absent]
         \/ /\ target["local"] = Absent \/ overwrite[j]
            /\ UNCHANGED backup /\ \E c : target' = [target EXCEPT !["local"] = c]
<1> USE DEF fileVars
<1>0. TypeOK /\ FilesOK(j)
  BY DEF TransferInv
<1>1. CASE Look(j) \/ Match(j) \/ CreateRemote(j) \/ CreateLocal(j) \/ Copy(j) \/ Close(j) \/ Check(j) \/ Cleanup(j)
  BY <1>1 DEF Look, Match, CreateRemote, CreateLocal, Copy, Close, Check, Cleanup
<1>2. CASE CommitNew(j) \/ Swap(j)
  <2>1. UNCHANGED backup
    BY <1>2 DEF CommitNew, Swap
  <2>2. UNCHANGED target \/ (target["remote"] = Absent /\ target' = [target EXCEPT !["remote"] = temp[j]])
    BY <1>2 DEF CommitNew, Swap, Land, Request
  <2> QED
    BY <2>1, <2>2
<1>3. CASE Stash(j)
  <2>1. backup[j] = Absent /\ overwrite[j]
    BY <1>0, <1>3 DEF Stash, FilesOK, Early, Replacing
  <2> QED
    BY <1>3, <2>1 DEF Stash
<1>4. CASE DropBackup(j)
  <2>1. pc[j] = "drop" /\ UNCHANGED target /\ pc'[j] = "finish"
    BY <1>0, <1>4 DEF DropBackup, Return, Fail, Goto, TypeOK
  <2> QED
    BY <1>0, <2>1 DEF FilesOK, Replacing
<1>5. CASE Restore(j)
  BY <1>5 DEF Restore
<1>6. CASE Link(j) \/ Replace(j)
  <2>1. UNCHANGED backup
    BY <1>6 DEF Link, Replace
  <2>2. Replace(j) => overwrite[j]
    BY <1>0 DEF Replace, FilesOK, Replacing
  <2>3. UNCHANGED target \/ ((target["local"] = Absent \/ overwrite[j])
                               /\ target' = [target EXCEPT !["local"] = temp[j]])
    BY <1>6, <2>2 DEF Link, Replace, Land
  <2> QED
    BY <2>1, <2>3
<1> QED
  BY <1>1, <1>2, <1>3, <1>4, <1>5, <1>6 DEF EngineStep

(* What was whole at the remote target stays there or in a backup until a job *)
(* that may overwrite has put its own content in place (commit_remote_upload  *)
(* and its rollback).                                                         *)
THEOREM NothingIsLost == Spec => NothingLost
<1>1. ASSUME TransferInv, [Next]_vars
      PROVE  [\A c \in Jobs \cup {"orig", "foreign"} :
                Held(c) /\ ~Held(c)' /\ pc' # pc =>
                  \E j \in landed : overwrite[j] /\ pc[j] = "drop" /\ pc'[j] # "drop"]_vars
  <2> SUFFICES ASSUME NEW c \in Jobs \cup {"orig", "foreign"}, Held(c), ~Held(c)', pc' # pc
               PROVE  \E j \in landed : overwrite[j] /\ pc[j] = "drop" /\ pc'[j] # "drop"
    OBVIOUS
  <2>1. c # Absent /\ TypeOK
    BY JobsAreNew, <1>1 DEF TransferInv
  <2>2. ~ UNCHANGED <<target, backup>>
    BY DEF Held
  <2>3. PICK j \in Jobs : EngineStep(j)
    BY <1>1, <2>2, OnlyEngineWrites DEF vars, jobVars
  <2>4. CASE pc[j] = "drop" /\ pc'[j] = "finish" /\ overwrite[j] /\ j \in landed
    BY <2>4
  <2>5. CASE \E d : target' = [target EXCEPT !["remote"] = d] /\ target["remote"] = Absent /\ UNCHANGED backup
    BY <2>1, <2>5 DEF Held
  <2>6. CASE UNCHANGED backup /\ \E d : target' = [target EXCEPT !["local"] = d]
    BY <2>1, <2>6 DEF Held, TypeOK
  <2>7. CASE /\ backup[j] = Absent
             /\ backup' = [backup EXCEPT ![j] = target["remote"]]
             /\ target' = [target EXCEPT !["remote"] = Absent]
    BY <2>1, <2>7 DEF Held, TypeOK
  <2>8. CASE /\ target["remote"] = Absent
             /\ target' = [target EXCEPT !["remote"] = backup[j]]
             /\ backup' = [backup EXCEPT ![j] = Absent]
    BY <2>1, <2>8 DEF Held, TypeOK, Sides
  <2> QED
    BY <1>1, <2>2, <2>3, <2>4, <2>5, <2>6, <2>7, <2>8, EngineWrites
<1> QED
  BY <1>1, TransferInvariant, PTL DEF Spec, NothingLost

(* With OverwritePolicy::Refuse no file is taken from its place, also one that *)
(* has come since the target was looked at.                                   *)
THEOREM RefuseTakesNothing == Spec => RefuseKeeps
<1>1. ASSUME TransferInv, [Next]_vars
      PROVE  [\A j \in Jobs, side \in Sides :
                pc'[j] # pc[j] /\ ~overwrite[j] /\ target[side] # Absent =>
                  target'[side] = target[side]]_vars
  <2> SUFFICES ASSUME NEW i \in Jobs, NEW side \in Sides, pc'[i] # pc[i], ~overwrite[i], target[side] # Absent
               PROVE  target'[side] = target[side]
    OBVIOUS
  <2>1. TypeOK
    BY <1>1 DEF TransferInv
  <2>2. CASE \E j \in Jobs : EngineStep(j)
    <3>1. PICK j \in Jobs : EngineStep(j)
      BY <2>2
    <3>2. j = i
      BY <2>1, <3>1, EngineTyped
    <3>3. EngineStep(i)
      BY <3>1, <3>2
    <3>4. \/ UNCHANGED target
          \/ target["remote"] = Absent /\ \E c : target' = [target EXCEPT !["remote"] = c]
          \/ target["local"] = Absent /\ \E c : target' = [target EXCEPT !["local"] = c]
      BY <1>1, <3>3, EngineWrites
    <3> QED
      BY <2>1, <3>4 DEF TypeOK
  <2> QED
    BY <1>1, <2>2, OnlyEngineWrites DEF vars, jobVars
<1> QED
  BY <1>1, TransferInvariant, PTL DEF Spec, RefuseKeeps

(* With its executors, the store is the one that TransferStore describes: an  *)
(* outcome is reported only for a record that is running.                     *)
THEOREM TransfersUseTheStore == Spec => StoreSpec
<1>1. Init => StoreInit
  BY DEF Init
<1>2. ASSUME TransferInv, [Next]_vars
      PROVE  [StoreNext]_storeVars
  <2> USE DEF fileVars, sessionVars, jobVars, envVars, Quiet, Alone
  <2>0. TypeOK /\ RunningIsExecuted
    BY <1>2 DEF TransferInv
  <2>1. ASSUME NEW j \in Jobs, EngineStep(j) PROVE UNCHANGED storeVars
    BY <2>0, <2>1, EngineRest
  <2>2. ASSUME NEW j \in Jobs, Preflight(j) PROVE [StoreNext]_storeVars
    <3>1. UNCHANGED storeVars \/ (Finish(j, FALSE, FALSE) /\ kind[j] # "save" /\ pc[j] = "preflight")
      BY <2>2 DEF Preflight
    <3> QED
      BY <2>0, <3>1 DEF RunningIsExecuted, StoreNext
  <2>3. ASSUME NEW j \in Jobs, FinishTransfer(j) PROVE [StoreNext]_storeVars
    <3>1. UNCHANGED storeVars \/ (Finish(j, result[j] = "ok", j \in flagged) /\ kind[j] # "save" /\ pc[j] = "finish")
      BY <2>3 DEF FinishTransfer
    <3>2. (result[j] = "ok") \in BOOLEAN
      OBVIOUS
    <3>3. CASE Finish(j, result[j] = "ok", j \in flagged) /\ kind[j] # "save" /\ pc[j] = "finish"
      <4>1. status[j] = "running"
        BY <2>0, <3>3 DEF RunningIsExecuted
      <4>2. \E ok \in BOOLEAN : Finish(j, ok, j \in flagged)
        BY <3>2, <3>3
      <4> QED
        BY <4>1, <4>2 DEF StoreNext
    <3> QED
      BY <3>1, <3>3
  <2>4. ASSUME NEW j \in Jobs, LockConnect(j) \/ Connected(j) \/ Invalidate(j) \/ StartSave(j) PROVE UNCHANGED storeVars
    BY <2>4 DEF LockConnect, Connected, Invalidate, StartSave, NoFiles
  <2>5. ASSUME NEW t \in Jobs, EnqueueTransfer(t) \/ BeginTransfer(t) \/ Cancel(t) \/ (\E u \in Jobs : RetryTransfer(u, t))
        PROVE  StoreNext
    BY <2>5 DEF EnqueueTransfer, BeginTransfer, Cancel, RetryTransfer, StoreNext
  <2>6. CASE Clear \/ Leave \/ Crash
    BY <2>6 DEF Clear, Leave, Crash, StoreNext
  <2>7. GraceOver \/ Disconnect \/ CollectLocks \/ Drain => UNCHANGED storeVars
    BY DEF GraceOver, Disconnect, CollectLocks, Drain
  <2>8. (\E s \in live : SessionBreaks(s)) \/ (\E side \in Sides : Other(side)) \/ UNCHANGED vars => UNCHANGED storeVars
    BY DEF SessionBreaks, Other, vars
  <2> QED
    BY <1>2, <2>1, <2>2, <2>3, <2>4, <2>5, <2>6, <2>7, <2>8 DEF Next, Execute, EngineStep, User, World
<1> QED
  BY <1>1, <1>2, TransferInvariant, PTL DEF Spec, StoreSpec
=============================================================================
