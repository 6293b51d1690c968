---------------------------- MODULE SshTransfers -----------------------------
(* Uploads, downloads and saves of the remote editor for one SSH profile: the *)
(* executor of SshService::execute_transfer, the SFTP transfer engine and its *)
(* commits (transfer.rs, transfer/ and sftp_ops.rs of ramag-infra-ssh), the   *)
(* session cache (session/connection.rs), and the disconnect and the shutdown *)
(* that cancel transfers and close the session.  All jobs write to one remote *)
(* file or to one local file.  A request on a session is answered, refused,   *)
(* or loses its answer with or without taking effect; a session may break;    *)
(* another program may replace or delete either file; the process may end at  *)
(* any step.                                                                  *)
(*                                                                            *)
(* A content is "orig", "foreign", the job whose whole content it is, or      *)
(* "partial".  The remote server renames as OpenSSH does: not onto a file     *)
(* that exists.  Texts, progress, paths and capability probes are left out.   *)
EXTENDS TransferStore

CONSTANTS
  MaxPermits,    \* MAX_CONCURRENT_TRANSFERS
  MaxTrouble,    \* bound: sessions that break, disconnects and shutdowns, crashes,
                 \* and writes of other programs, taken together
  KindChoices,   \* what the jobs may be
  Absent,        \* no file at a path
  NoJob          \* nobody holds the lock; no session

ASSUME JobsAreNew ==
  /\ MaxPermits \in Nat \ {0} /\ MaxTrouble \in Nat
  /\ Absent \notin Jobs \cup {"orig", "foreign", "partial"}
  /\ NoJob \notin Jobs
  /\ KindChoices \subseteq [Jobs -> {"upload", "download", "save"}]
  /\ Jobs \cap {"orig", "foreign", "partial"} = {}

VARIABLES
  kind, overwrite,            \* what each job is and its OverwritePolicy
  pc, result,                 \* the step of each executor and what it returns
  existed,                    \* upload: the target was there at lstat
  expected,                   \* save: the content the editor has read
  target, temp, backup,       \* the two target files and each job's siblings
  cache, lock, lockKnown,     \* SessionCache of the profile
  conn, live,                 \* the session a job uses; those that still work
  shuttingDown, userPc,       \* the flag; the disconnect or shutdown under way
  landed,                     \* jobs whose content has been at their target
  trouble                     \* how much went wrong so far

fileVars == <<target, temp, backup, landed>>
sessionVars == <<cache, lock, lockKnown, conn, live>>
jobVars == <<pc, result, existed, expected>>
envVars == <<kind, overwrite, shuttingDown, userPc, trouble>>
vars == <<storeVars, fileVars, sessionVars, jobVars, envVars>>

Contents == Jobs \cup {"orig", "foreign", "partial", Absent}
Sides == {"remote", "local"}
Steps == {"idle", "preflight", "lock", "connecting", "look", "match", "create",
          "copy", "close", "check", "commit", "stash", "swap", "drop", "link",
          "replace", "restore", "cleanup", "invalidate", "finish", "saved"}

(* An executor holds a permit while its engine call has begun and not returned. *)
Permitted == {"match", "create", "copy", "close", "check", "commit", "stash", "swap",
              "drop", "link", "replace", "restore", "cleanup"}
Side(j) == IF kind[j] = "download" THEN "local" ELSE "remote"
Stopped(j) == kind[j] # "save" /\ j \in flagged
Reached(j) == conn[j] \in live

TypeOK ==
  /\ StoreTypeOK
  /\ kind \in [Jobs -> {"upload", "download", "save"}]
  /\ overwrite \in [Jobs -> BOOLEAN]
  /\ pc \in [Jobs -> Steps]
  /\ result \in [Jobs -> {"none", "ok", "error", "broken"}]
  /\ existed \in [Jobs -> BOOLEAN]
  /\ expected \in [Jobs -> Contents]
  /\ target \in [Sides -> Contents]
  /\ temp \in [Jobs -> Contents] /\ backup \in [Jobs -> Contents]
  /\ cache \in Jobs \cup {NoJob} /\ lock \in Jobs \cup {NoJob}
  /\ lockKnown \in BOOLEAN
  /\ conn \in [Jobs -> Jobs \cup {NoJob}] /\ live \subseteq Jobs
  /\ shuttingDown \in BOOLEAN
  /\ userPc \in {"idle", "leaving", "close", "stopping", "locks", "drain",
                 "drainLocked", "down"}
  /\ landed \subseteq Jobs
  /\ trouble \in 0..MaxTrouble

Init ==
  /\ StoreInit
  /\ kind \in KindChoices
  /\ overwrite \in [Jobs -> BOOLEAN]
  /\ \A j \in Jobs : kind[j] = "save" => overwrite[j]
  /\ pc = [j \in Jobs |-> "idle"]
  /\ result = [j \in Jobs |-> "none"]
  /\ existed = [j \in Jobs |-> TRUE]
  /\ expected = [j \in Jobs |-> Absent]
  /\ \E c \in {"orig", Absent} : target = [side \in Sides |-> c]
  /\ temp = [j \in Jobs |-> Absent] /\ backup = [j \in Jobs |-> Absent]
  /\ cache = NoJob /\ lock = NoJob /\ lockKnown = FALSE
  /\ conn = [j \in Jobs |-> NoJob] /\ live = {}
  /\ shuttingDown = FALSE /\ userPc = "idle"
  /\ landed = {} /\ trouble = 0

Goto(j, step) == pc' = [pc EXCEPT ![j] = step]
Fail(j, step, r) == Goto(j, step) /\ result' = [result EXCEPT ![j] = r]
Ok(j, step) == Goto(j, step) /\ UNCHANGED result
(* The engine has returned; with a lost connection the driver drops the       *)
(* profile's session (invalidate_broken).                                     *)
Return(j, r) == Fail(j, IF r = "broken" THEN "invalidate" ELSE "finish", r)

-----------------------------------------------------------------------------
(* Jobs start.                                                                *)

Quiet == UNCHANGED <<fileVars, sessionVars, envVars>>

EnqueueTransfer(t) ==
  /\ kind[t] # "save"
  /\ Enqueue(t)
  /\ Quiet /\ UNCHANGED jobVars

RetryTransfer(t, u) ==
  /\ kind[u] = kind[t]
  /\ Retry(t, u)
  /\ Quiet /\ UNCHANGED jobVars

(* Without a handle begin() fails after it has marked the record.             *)
BeginTransfer(t) ==
  /\ Begin(t)
  /\ IF t \in handles THEN Goto(t, "preflight") ELSE UNCHANGED pc
  /\ Quiet /\ UNCHANGED <<result, existed, expected>>

(* The editor saves what it changed in the content it has read.               *)
StartSave(j) ==
  /\ kind[j] = "save" /\ pc[j] = "idle"
  /\ target["remote"] \notin {Absent, "partial"}
  /\ expected' = [expected EXCEPT ![j] = target["remote"]]
  /\ Goto(j, "preflight")
  /\ Quiet /\ UNCHANGED <<storeVars, result, existed>>

Preflight_NoFinish(j) ==
  /\ pc[j] = "preflight"
  /\ \/ Goto(j, IF kind[j] = "save" THEN "saved" ELSE "idle") /\ UNCHANGED <<result, lockKnown>>
     \/ /\ IF shuttingDown THEN Fail(j, "finish", "broken") ELSE Ok(j, "lock")
        /\ lockKnown' = (lockKnown \/ ~shuttingDown)
  /\ UNCHANGED <<storeVars, fileVars, cache, lock, conn, live, existed, expected, envVars>>

(* Profile, capabilities and paths are looked up, any of which may fail; then *)
(* the driver asks for a session, unless the cache is shut down.              *)
Preflight(j) ==
  /\ pc[j] = "preflight"
  /\ \/ /\ Goto(j, IF kind[j] = "save" THEN "saved" ELSE "idle")
        /\ IF kind[j] = "save" THEN UNCHANGED storeVars ELSE Finish(j, FALSE, FALSE)
        /\ UNCHANGED <<result, lockKnown>>
     \/ /\ IF shuttingDown THEN Fail(j, "finish", "broken") ELSE Ok(j, "lock")
        /\ lockKnown' = (lockKnown \/ ~shuttingDown)
        /\ UNCHANGED storeVars
  /\ UNCHANGED <<fileVars, cache, lock, conn, live, existed, expected, envVars>>

-----------------------------------------------------------------------------
(* The session cache.                                                         *)

NoFiles == UNCHANGED <<storeVars, fileVars, existed, expected, envVars>>

LockConnect_NoSecondLook(j) ==
  /\ pc[j] = "lock" /\ lock = NoJob
  /\ \/ /\ cache # NoJob
        /\ conn' = [conn EXCEPT ![j] = cache]
        /\ Ok(j, "look") /\ UNCHANGED lock
     \/ /\ cache = NoJob
        /\ lock' = j /\ Ok(j, "connecting") /\ UNCHANGED conn
  /\ NoFiles /\ UNCHANGED <<cache, lockKnown, live>>

(* Under the connect lock: the flag again, then the cached session, which is  *)
(* used as it is, broken or not.                                              *)
LockConnect(j) ==
  /\ pc[j] = "lock" /\ lock = NoJob
  /\ \/ /\ shuttingDown
        /\ Fail(j, "finish", "broken") /\ UNCHANGED <<lock, conn>>
     \/ /\ ~shuttingDown /\ cache # NoJob
        /\ conn' = [conn EXCEPT ![j] = cache]
        /\ Ok(j, "look") /\ UNCHANGED lock
     \/ /\ ~shuttingDown /\ cache = NoJob
        /\ lock' = j /\ Ok(j, "connecting") /\ UNCHANGED conn
  /\ NoFiles /\ UNCHANGED <<cache, lockKnown, live>>

Connected(j) ==
  /\ pc[j] = "connecting"
  /\ lock' = NoJob
  /\ \/ /\ cache' = j /\ live' = live \cup {j}
        /\ conn' = [conn EXCEPT ![j] = j] /\ Ok(j, "look")
     \/ Fail(j, "finish", "broken") /\ UNCHANGED <<cache, conn, live>>
  /\ NoFiles /\ UNCHANGED lockKnown

CloseCached ==
  /\ cache' = NoJob
  /\ live' = live \ {cache}

(* Whatever session is cached now is closed, also one made since.             *)
Invalidate(j) ==
  /\ pc[j] = "invalidate" /\ lock = NoJob
  /\ CloseCached /\ lockKnown' = TRUE
  /\ Ok(j, "finish")
  /\ NoFiles /\ UNCHANGED <<lock, conn>>

Trouble == trouble < MaxTrouble /\ trouble' = trouble + 1

SessionBreaks(s) ==
  /\ Trouble
  /\ live' = live \ {s}
  /\ UNCHANGED <<storeVars, fileVars, jobVars, cache, lock, lockKnown, conn,
                 kind, overwrite, shuttingDown, userPc>>

-----------------------------------------------------------------------------
(* The engine.  A request may take effect and lose its answer; a timeout, a   *)
(* broken session and a refusal of the server have none.                      *)
Request(j, done, possible, next, bad) ==
  IF done
  THEN Reached(j) /\ possible /\ (Ok(j, next) \/ Fail(j, bad, "broken"))
  ELSE \E r \in {"error", "broken"} : (r = "error" => Reached(j)) /\ Fail(j, bad, r)

(* The same where the engine returns on an error.                             *)
AskOrReturn(j, possible, next) ==
  \/ Reached(j) /\ possible /\ Ok(j, next)
  \/ Reached(j) /\ Return(j, "error")
  \/ Return(j, "broken")

NoSession == UNCHANGED <<storeVars, sessionVars, envVars>>
Engine == NoSession /\ UNCHANGED <<existed, expected>>

PermitFree == Cardinality({i \in Jobs : pc[i] \in Permitted}) < MaxPermits

(* A permit first.  Refuse gives up where the target exists; a save needs it  *)
(* to exist, the others a local file that can be read.                        *)
Look(j) ==
  /\ pc[j] = "look"
  /\ \/ /\ Stopped(j) \/ (kind[j] # "save" /\ PermitFree)
        /\ Return(j, "error") /\ UNCHANGED existed
     \/ /\ PermitFree
        /\ AskOrReturn(j, target[Side(j)] = Absent \/ overwrite[j],
                       IF kind[j] = "save" THEN "match" ELSE "create")
        /\ existed' = [existed EXCEPT ![j] = (kind[j] = "save" \/ target[Side(j)] # Absent)]
  /\ NoSession /\ UNCHANGED <<fileVars, expected>>

Match(j) ==
  /\ pc[j] = "match"
  /\ AskOrReturn(j, target["remote"] = expected[j], "create")
  /\ Engine /\ UNCHANGED fileVars

(* The remote sibling.  An open that is given up, or whose answer is lost,    *)
(* may have made it, and nothing removes it.                                  *)
CreateRemote(j) ==
  /\ pc[j] = "create" /\ kind[j] # "download"
  /\ \E done \in BOOLEAN :
       /\ done => Reached(j)
       /\ \/ done /\ Ok(j, "copy")
          \/ Return(j, "broken")
          \/ Reached(j) /\ (~done \/ Stopped(j)) /\ Return(j, "error")
       /\ temp' = [temp EXCEPT ![j] = IF done THEN "partial" ELSE @]
  /\ Engine /\ UNCHANGED <<target, backup, landed>>

(* The local sibling, and then the remote source is opened and its attributes *)
(* are read; a cancellation there returns at once and leaves the sibling.     *)
CreateLocal(j) ==
  /\ pc[j] = "create" /\ kind[j] = "download"
  /\ \/ Return(j, "error") /\ UNCHANGED temp
     \/ /\ \/ Reached(j) /\ Ok(j, "copy")
           \/ Request(j, FALSE, TRUE, "copy", "cleanup")
           \/ Stopped(j) /\ Return(j, "error")
        /\ temp' = [temp EXCEPT ![j] = "partial"]
  /\ Engine /\ UNCHANGED <<target, backup, landed>>

(* All chunks, and fsync; or an error, a changed size or a cancellation.      *)
Copy(j) ==
  /\ pc[j] = "copy"
  /\ \/ /\ Reached(j) /\ Ok(j, "close")
        /\ temp' = [temp EXCEPT ![j] = j]
     \/ Request(j, FALSE, TRUE, "close", "close") /\ UNCHANGED temp
     \/ Fail(j, "close", "error") /\ UNCHANGED temp
  /\ Engine /\ UNCHANGED <<target, backup, landed>>

Close_ForgetsError(j) ==
  /\ pc[j] = "close"
  /\ \/ Reached(j) /\ Ok(j, "check")
     \/ Fail(j, "cleanup", "broken")
     \/ Reached(j) /\ Fail(j, "cleanup", IF result[j] = "none" THEN "error" ELSE result[j])
  /\ Engine /\ UNCHANGED fileVars

(* A lost connection counts for more than the error before it.                *)
Close(j) ==
  /\ pc[j] = "close"
  /\ \/ Reached(j) /\ Ok(j, IF result[j] = "none" THEN "check" ELSE "cleanup")
     \/ Fail(j, "cleanup", "broken")
     \/ Reached(j) /\ Fail(j, "cleanup", IF result[j] = "none" THEN "error" ELSE result[j])
  /\ Engine /\ UNCHANGED fileVars

Check_AlwaysReplaces(j) ==
  /\ pc[j] = "check"
  /\ \/ kind[j] = "upload" /\ ~Stopped(j) /\ Ok(j, IF existed[j] THEN "stash" ELSE "commit")
     \/ kind[j] = "download" /\ ~Stopped(j) /\ Ok(j, "replace")
     \/ Stopped(j) /\ Fail(j, "cleanup", "error")
  /\ Engine /\ UNCHANGED fileVars

(* The last look before the commit: at the cancellation, or, for a save, at   *)
(* the content once more.  A download also flushes its file here.             *)
Check(j) ==
  /\ pc[j] = "check"
  /\ \/ /\ kind[j] = "save"
        /\ \/ Reached(j) /\ target["remote"] = expected[j] /\ Ok(j, "stash")
           \/ Request(j, FALSE, TRUE, "stash", "cleanup")
     \/ /\ kind[j] = "upload" /\ ~Stopped(j)
        /\ Ok(j, IF existed[j] THEN "stash" ELSE "commit")
     \/ /\ kind[j] = "download" /\ ~Stopped(j)
        /\ Ok(j, IF overwrite[j] THEN "replace" ELSE "link")
     \/ kind[j] = "download" /\ Fail(j, "cleanup", "error")
     \/ Stopped(j) /\ Fail(j, "cleanup", "error")
  /\ Engine /\ UNCHANGED fileVars

-----------------------------------------------------------------------------
(* The commits.                                                               *)

Land(j, side) ==
  /\ target' = [target EXCEPT ![side] = temp[j]]
  /\ landed' = landed \cup {j}

(* There was no target: rename the sibling onto it.                           *)
CommitNew(j) ==
  /\ pc[j] = "commit"
  /\ \/ /\ Reached(j) /\ target["remote"] = Absent
        /\ Return(j, "ok") \/ Fail(j, "cleanup", "broken")
        /\ Land(j, "remote") /\ temp' = [temp EXCEPT ![j] = Absent]
        /\ UNCHANGED backup
     \/ Request(j, FALSE, TRUE, "finish", "cleanup") /\ UNCHANGED fileVars
  /\ Engine

(* The target steps aside and is looked at again; a rename without an answer  *)
(* is taken for one that did nothing.                                         *)
Stash(j) ==
  /\ pc[j] = "stash"
  /\ \/ /\ Request(j, TRUE, target["remote"] # Absent, "swap", "cleanup")
           \/ (target["remote"] # Absent /\ Reached(j)
                 /\ Request(j, FALSE, TRUE, "swap", "restore"))
        /\ backup' = [backup EXCEPT ![j] = target["remote"]]
        /\ target' = [target EXCEPT !["remote"] = Absent]
     \/ Request(j, FALSE, TRUE, "swap", "cleanup") /\ UNCHANGED <<target, backup>>
  /\ Engine /\ UNCHANGED <<temp, landed>>

Swap(j) ==
  /\ pc[j] = "swap"
  /\ \E done \in BOOLEAN :
       /\ Request(j, done, target["remote"] = Absent, "drop", "restore")
       /\ IF done
          THEN Land(j, "remote") /\ temp' = [temp EXCEPT ![j] = Absent]
          ELSE UNCHANGED <<target, temp, landed>>
  /\ Engine /\ UNCHANGED backup

(* A backup that stays is only a warning.                                     *)
DropBackup(j) ==
  /\ pc[j] = "drop"
  /\ \E done \in BOOLEAN :
       /\ done => Reached(j)
       /\ backup' = [backup EXCEPT ![j] = IF done THEN Absent ELSE @]
  /\ Return(j, "ok")
  /\ Engine /\ UNCHANGED <<target, temp, landed>>

Restore_DropsBackup(j) ==
  /\ pc[j] = "restore"
  /\ \/ /\ Reached(j) /\ target["remote"] = Absent
        /\ Ok(j, "cleanup")
        /\ target' = [target EXCEPT !["remote"] = backup[j]]
     \/ Reached(j) /\ Fail(j, "cleanup", "error") /\ UNCHANGED target
  /\ backup' = [backup EXCEPT ![j] = Absent]
  /\ Engine /\ UNCHANGED <<temp, landed>>

(* Roll back.  A rollback that fails hides that the connection was lost.      *)
Restore(j) ==
  /\ pc[j] = "restore"
  /\ \/ /\ Reached(j) /\ target["remote"] = Absent
        /\ Ok(j, "cleanup") \/ Fail(j, "cleanup", "error")
        /\ target' = [target EXCEPT !["remote"] = backup[j]]
        /\ backup' = [backup EXCEPT ![j] = Absent]
     \/ Fail(j, "cleanup", "error") /\ UNCHANGED <<target, backup>>
  /\ Engine /\ UNCHANGED <<temp, landed>>

(* A download with Refuse links its file to the target, which fails where one *)
(* exists, and removes the sibling; with Overwrite it renames it.             *)
Link(j) ==
  /\ pc[j] = "link"
  /\ \/ /\ target["local"] = Absent /\ Land(j, "local")
        /\ \/ Return(j, "ok") /\ temp' = [temp EXCEPT ![j] = Absent]
           \/ Fail(j, "cleanup", "error") /\ UNCHANGED temp
     \/ Fail(j, "cleanup", "error") /\ UNCHANGED <<target, temp, landed>>
  /\ Engine /\ UNCHANGED backup

Replace(j) ==
  /\ pc[j] = "replace"
  /\ \/ /\ Land(j, "local") /\ temp' = [temp EXCEPT ![j] = Absent]
        /\ Return(j, "ok")
     \/ Fail(j, "cleanup", "error") /\ UNCHANGED <<target, temp, landed>>
  /\ Engine /\ UNCHANGED backup

(* Removing the sibling is tried once and its failure only logged.            *)
Cleanup(j) ==
  /\ pc[j] = "cleanup"
  /\ \E done \in BOOLEAN :
       /\ done /\ kind[j] # "download" => Reached(j)
       /\ temp' = [temp EXCEPT ![j] = IF done THEN Absent ELSE @]
  /\ Return(j, result[j])
  /\ Engine /\ UNCHANGED <<target, backup, landed>>

FinishTransfer_ErrorsPass(j) ==
  /\ pc[j] = "finish"
  /\ IF kind[j] = "save" THEN Goto(j, "saved") /\ UNCHANGED storeVars
     ELSE Goto(j, "idle") /\ Finish(j, result[j] # "broken", j \in flagged)
  /\ result' = [result EXCEPT ![j] = "none"]
  /\ existed' = [existed EXCEPT ![j] = TRUE]
  /\ expected' = [expected EXCEPT ![j] = Absent]
  /\ conn' = [conn EXCEPT ![j] = NoJob]
  /\ UNCHANGED <<fileVars, cache, lock, lockKnown, live, envVars>>

FinishTransfer(j) ==
  /\ pc[j] = "finish"
  /\ IF kind[j] = "save" THEN Goto(j, "saved") /\ UNCHANGED storeVars
     ELSE Goto(j, "idle") /\ Finish(j, result[j] = "ok", j \in flagged)
  /\ result' = [result EXCEPT ![j] = "none"]
  /\ existed' = [existed EXCEPT ![j] = TRUE]
  /\ expected' = [expected EXCEPT ![j] = Absent]
  /\ conn' = [conn EXCEPT ![j] = NoJob]
  /\ UNCHANGED <<fileVars, cache, lock, lockKnown, live, envVars>>

-----------------------------------------------------------------------------
(* The user and the rest of the world.                                        *)

Cancel(t) ==
  /\ CancelTransfer(t)
  /\ Quiet /\ UNCHANGED jobVars

Clear ==
  /\ ClearFinished
  /\ Quiet /\ UNCHANGED jobVars

Alone == UNCHANGED <<fileVars, jobVars, kind, overwrite>>

(* disconnect, save_profile and delete_profile cancel the transfers, wait for *)
(* five seconds at most and close the session.  shutdown does so for all      *)
(* profiles and keeps the cache closed.                                       *)
Leave ==
  /\ userPc = "idle" /\ Trouble
  /\ userPc' \in {"leaving", "stopping"}
  /\ CancelAll(Active)
  /\ Alone /\ UNCHANGED <<sessionVars, shuttingDown>>

GraceOver ==
  /\ userPc \in {"leaving", "stopping"}
  /\ userPc' = IF userPc = "leaving" THEN "close" ELSE "locks"
  /\ shuttingDown' = (userPc = "stopping")
  /\ Alone /\ UNCHANGED <<storeVars, sessionVars, trouble>>

Disconnect ==
  /\ userPc = "close" /\ lock = NoJob
  /\ CloseCached /\ lockKnown' = TRUE
  /\ userPc' = "idle"
  /\ Alone /\ UNCHANGED <<storeVars, lock, conn, shuttingDown, trouble>>

(* Only the connect locks that exist now are waited for.                      *)
CollectLocks ==
  /\ userPc = "locks"
  /\ userPc' = IF lockKnown THEN "drainLocked" ELSE "drain"
  /\ Alone /\ UNCHANGED <<storeVars, sessionVars, shuttingDown, trouble>>

Drain ==
  /\ userPc = "drain" \/ (userPc = "drainLocked" /\ lock = NoJob)
  /\ CloseCached /\ userPc' = "down"
  /\ Alone /\ UNCHANGED <<storeVars, lock, lockKnown, conn, shuttingDown, trouble>>

Other(side) ==
  /\ Trouble
  /\ \E j \in Jobs : Side(j) = side
  /\ \E c \in {"foreign", Absent} : target' = [target EXCEPT ![side] = c]
  /\ UNCHANGED <<storeVars, temp, backup, landed, sessionVars, jobVars, kind,
                 overwrite, shuttingDown, userPc>>

Crash ==
  /\ Trouble
  /\ Restart
  /\ pc' = [j \in Jobs |-> IF kind[j] = "save" /\ pc[j] # "idle" THEN "saved" ELSE "idle"]
  /\ result' = [j \in Jobs |-> "none"]
  /\ existed' = [j \in Jobs |-> TRUE] /\ expected' = [j \in Jobs |-> Absent]
  /\ cache' = NoJob /\ lock' = NoJob /\ lockKnown' = FALSE
  /\ conn' = [j \in Jobs |-> NoJob] /\ live' = {}
  /\ shuttingDown' = FALSE /\ userPc' = "idle"
  /\ UNCHANGED <<fileVars, kind, overwrite>>

Execute(j) ==
  \/ Preflight(j) \/ LockConnect(j) \/ Connected(j) \/ Look(j) \/ Match(j)
  \/ CreateRemote(j) \/ CreateLocal(j) \/ Copy(j) \/ Close(j) \/ Check(j)
  \/ CommitNew(j) \/ Stash(j) \/ Swap(j) \/ DropBackup(j) \/ Restore(j)
  \/ Link(j) \/ Replace(j) \/ Cleanup(j) \/ Invalidate(j) \/ FinishTransfer(j)

User ==
  \/ \E t \in Jobs : EnqueueTransfer(t) \/ StartSave(t) \/ Cancel(t)
                     \/ \E u \in Jobs : RetryTransfer(t, u)
  \/ Clear \/ Leave \/ GraceOver \/ Disconnect \/ CollectLocks \/ Drain

World == Crash \/ (\E s \in live : SessionBreaks(s)) \/ \E side \in Sides : Other(side)

Next == (\E j \in Jobs : BeginTransfer(j) \/ Execute(j)) \/ User \/ World

Spec == Init /\ [][Next]_vars

(* Requests end after 20 seconds at the latest, connecting after 15; the view *)
(* executes what it has put in the queue.                                     *)
FairSpec == Spec /\ \A j \in Jobs : WF_vars(BeginTransfer(j) \/ Execute(j))

-----------------------------------------------------------------------------
Held(c) == target["remote"] = c \/ \E j \in Jobs : backup[j] = c

(* A target is never a file that was written in part, whatever stops the job  *)
(* that writes (transfer.rs writes to a sibling and commits it afterwards).   *)
TargetWhole == \A side \in Sides : target[side] # "partial"

(* A record says completed only for what has been at its target.              *)
CompletedLanded ==
  \A t \in Jobs : status[t] = "completed" => t \in landed

(* A record is running as long as an executor works on it, and no executor    *)
(* works on a cancelled or finished one: cancel_transfer and begin race for   *)
(* the waiting record.                                                        *)
RunningIsExecuted ==
  \A t \in Jobs : kind[t] # "save" => (status[t] = "running" <=> pc[t] # "idle")

(* Once the shutdown is through, there is no session of the profile and no    *)
(* request that will still make one (get_or_connect looks at the flag again   *)
(* under the connect lock).                                                   *)
NoSessionAfterShutdown == userPc = "down" => cache = NoJob /\ lock = NoJob

(* Whatever was whole at the remote target stays there or in a backup, until  *)
(* a job that may overwrite has put its own content at the target.            *)
NothingLost ==
  [][\A c \in Jobs \cup {"orig", "foreign"} :
       Held(c) /\ ~Held(c)' /\ pc' # pc =>
         \E j \in landed : overwrite[j] /\ pc[j] = "drop" /\ pc'[j] # "drop"]_vars

(* A transfer with OverwritePolicy::Refuse never takes a file from its place, *)
(* also when the file appears after the check for it.                         *)
RefuseKeeps ==
  [][\A j \in Jobs, side \in Sides :
       pc'[j] # pc[j] /\ ~overwrite[j] /\ target[side] # Absent =>
         target'[side] = target[side]]_vars

(* Every transfer in the queue comes to an end.                               *)
EveryTransferEnds ==
  \A t \in Jobs : status[t] \in {"waiting", "running"}
                    ~> status[t] \notin {"waiting", "running"}

(* Where the driver returned Ok, the record says completed                    *)
(* (SshTransferOutcome: the caller still takes the transfer for a success).   *)
OkIsCompleted ==
  [][\A t \in Jobs :
       status[t] = "running" /\ status'[t] \in Terminal /\ result[t] = "ok"
         => status'[t] = "completed"]_vars
=============================================================================
