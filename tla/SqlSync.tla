------------------------------ MODULE SqlSync ------------------------------
(***************************************************************************)
(* A data synchronisation between two MySQL or two PostgreSQL namespaces:  *)
(* preflight, start and execute of DataSyncService (data_sync/service.rs)  *)
(* and run_sql_sync (data_sync/sql_sync.rs and sql_sync/io.rs), with the   *)
(* gate of SyncGate around them.                                           *)
(*                                                                         *)
(* Every await is a database call, and between two of them other clients   *)
(* of both databases, and the user, may act: one action per call.  A row   *)
(* is its record identity; what counts is whether the target's row was     *)
(* there before or was copied.                                             *)
(***************************************************************************)
EXTENDS SyncGate, Sequences, FiniteSetsExt

CONSTANTS
  Engines,      \* "mysql", "postgres" or both
  NumTables,    \* tables of the plan, in the plan's order
  MaxKey,       \* record identities are 1..MaxKey
  BatchSize,    \* rows of one keyset page (TRANSFER_BATCH_ITEMS)
  Clash,        \* <<t, k>>: row k of t has a second unique value that a foreign
                \* row of the target table holds too
  MaxOthers     \* bound of the model: steps of other database clients

ASSUME SqlConstants ==
  /\ Engines \subseteq {"mysql", "postgres"}
  /\ NumTables \in Nat \ {0} /\ MaxKey \in Nat \ {0} /\ BatchSize \in Nat \ {0}
  /\ MaxOthers \in Nat

Tables == 1..NumTables
Keys   == 1..MaxKey

VARIABLES
  engine,    \* engine of both databases (validate_connections wants one kind)
  source,    \* source[t]: keys of the source table
  exists,    \* target tables that exist
  linked,    \* target tables that have all their indexes and foreign keys
  target,    \* target[t][k]: "none", a "foreign" row or a "copied" one
  sequence,  \* sequence[t]: value of the sequence behind a postgres key column
  prepared,  \* the dialog's PreparedDataSync: target tables that existed, or NoPlan
  plan,      \* the same, of the task that is executing
  pc,        \* where run_sql_sync stands
  at,        \* the table being treated
  lastKey,   \* keyset position in it
  rows,      \* identities or rows of the page being treated
  deferred,  \* cancellation_deferred
  outcome,   \* the result execute() will report
  kept,      \* history: kept[t], source rows that were there all the time since the start
  others     \* steps other clients took

dataVars == <<engine, source, exists, linked, target, sequence>>
execVars == <<plan, pc, at, lastKey, rows, deferred, outcome>>
vars     == <<gateVars, dataVars, prepared, execVars, kept, others>>

NoPlan == {0}

Busy == {"connections", "verify", "create", "table", "scan", "compare", "fetch",
         "insert", "confirm", "final"}

SyncTypeOK ==
  /\ GateTypeOK
  /\ engine   \in Engines
  /\ source   \in [Tables -> SUBSET Keys]
  /\ exists   \in SUBSET Tables
  /\ linked   \in SUBSET exists
  /\ target   \in [Tables -> [Keys -> {"none", "foreign", "copied"}]]
  /\ sequence \in [Tables -> 0..MaxKey]
  /\ prepared \in (SUBSET Tables) \cup {NoPlan}
  /\ plan     \in (SUBSET Tables) \cup {NoPlan}
  /\ pc       \in {"idle", "ending"} \cup Busy
  /\ at       \in 1..NumTables + 1
  /\ lastKey  \in 0..MaxKey
  /\ rows     \in SUBSET Keys
  /\ deferred \in BOOLEAN
  /\ outcome  \in {"none"} \cup Terminal
  /\ kept     \in [Tables -> SUBSET Keys]
  /\ others   \in 0..MaxOthers

Present(t) == {k \in Keys : target[t][k] # "none"}

(* Every row a foreign client put there has its key below the sequence. *)
SyncInit ==
  /\ GateInit
  /\ engine   \in Engines
  /\ source   \in [Tables -> SUBSET Keys]
  /\ exists   \in SUBSET Tables
  /\ linked   = exists
  /\ target   \in [Tables -> [Keys -> {"none", "foreign"}]]
  /\ \A t \in Tables \ exists : Present(t) = {}
  /\ sequence = [t \in Tables |-> Max(Present(t) \cup {0})]
  /\ prepared = NoPlan
  /\ plan     = NoPlan
  /\ pc       = "idle"
  /\ at       = 1
  /\ lastKey  = 0
  /\ rows     = {}
  /\ deferred = FALSE
  /\ outcome  = "none"
  /\ kept     = source
  /\ others   = 0

-----------------------------------------------------------------------------
(* creates_structure, for tables (the namespace is taken to exist) *)
CreatesStructure == plan # Tables
HonorCancel      == ~CreatesStructure

(* Rows the target refuses for another unique value *)
Clashing(t, ks) ==
  {k \in ks : <<t, k>> \in Clash /\ \E j \in Keys : target[t][j] = "foreign"}

(* Report a stage to the gate and go on *)
Go(p, next, s) == pc' = next /\ UpdateProgress(p, s)

(* Leave run_sql_sync with a result *)
Stop(result) == pc' = "ending" /\ outcome' = result

(* The next n rows behind lastKey, in the order of their identities *)
Page(t, n) ==
  LET behind == {k \in source[t] : k > lastKey}
  IN  {k \in behind : Cardinality({j \in behind : j <= k}) <= n}

(* Faulty: a row seen missing a moment ago may be written as it is. *)
Written_Upsert(t, ks) ==
  [target EXCEPT ![t] = [k \in Keys |-> IF k \in ks \ Clashing(t, ks) THEN "copied" ELSE @[k]]]

(* INSERT .. ON CONFLICT DO NOTHING / ON DUPLICATE KEY UPDATE id = id *)
Written(t, ks) ==
  LET free == (ks \ Present(t)) \ Clashing(t, ks)
  IN  [target EXCEPT ![t] = [k \in Keys |-> IF k \in free THEN "copied" ELSE @[k]]]

-----------------------------------------------------------------------------
(* preflight, start *)

(* The dialog holds the plan of its latest preflight, which may have been made
   while a task was running.  Its reads of the target count as one: a table
   that appears between them makes CREATE TABLE fail, as a later one does. *)
Preflight ==
  /\ prepared' = exists
  /\ UNCHANGED <<gateVars, dataVars, execVars, kept, others>>

Start(t) ==
  /\ prepared # NoPlan
  /\ Begin(t)
  /\ plan'     = prepared
  /\ prepared' = NoPlan
  /\ pc' = "connections" /\ at' = 1 /\ lastKey' = 0 /\ rows' = {}
  /\ deferred' = FALSE /\ outcome' = "none"
  /\ kept'     = source
  /\ UNCHANGED <<dataVars, others>>

(* Another task holds the gate.  (The dialog derives the confirmation start()
   asks for from the plan itself, so it always fits.) *)
StartRefused ==
  /\ prepared # NoPlan
  /\ phase # "Idle"
  /\ prepared' = NoPlan
  /\ UNCHANGED <<gateVars, dataVars, execVars, kept, others>>

-----------------------------------------------------------------------------
(* execute *)

(* verify_connection_snapshots succeeds *)
VerifyConnections(p) ==
  /\ pc = "connections"
  /\ pc' = "verify"
  /\ UNCHANGED <<gateVars, dataVars, prepared, plan, at, lastKey, rows, deferred,
                 outcome, kept, others>>

(* The target has changed since the preflight, a cancellation came before
   anything was written, or the work begins. *)
VerifyTarget(p) ==
  /\ pc = "verify"
  /\ \/ exists # plan /\ Stop("Failed") /\ UNCHANGED gateVars
     \/ /\ exists = plan
        /\ IF p \in flagged
           THEN Stop("Cancelled")
           ELSE pc' = "create" /\ UNCHANGED outcome
        /\ UpdateProgress(p, "Verifying")
  /\ UNCHANGED <<dataVars, prepared, plan, at, lastKey, rows, deferred, kept, others>>

(* CREATE TABLE for the next table the plan has to create; it fails when
   somebody else was faster.  Afterwards the tables are treated in order. *)
CreateTable(p) ==
  /\ pc = "create"
  /\ LET todo == {t \in Tables \ plan : t >= at}
     IN  \/ /\ todo = {}
            /\ pc' = "table" /\ at' = 1
            /\ UNCHANGED <<gateVars, exists, outcome>>
         \/ \E t \in todo :
            /\ \A u \in todo : t <= u
            /\ UpdateProgress(p, "Creating")
            /\ IF t \in exists
               THEN Stop("Failed") /\ UNCHANGED <<exists, at>>
               ELSE /\ exists' = exists \cup {t} /\ at' = t + 1
                    /\ UNCHANGED <<pc, outcome>>
  /\ UNCHANGED <<engine, source, linked, target, sequence, prepared, plan, lastKey, rows,
                 deferred, kept, others>>

(* Faulty: a cancellation ends the loop whatever was created. *)
NextTable_CancelsAlways(p) ==
  /\ pc = "table"
  /\ IF at > NumTables
     THEN Go(p, "final", "Finalizing") /\ at' = 1 /\ UNCHANGED <<outcome, deferred>>
     ELSE IF p \in flagged
     THEN Stop("Cancelled") /\ UNCHANGED <<gateVars, at, deferred>>
     ELSE /\ pc' = "scan"
          /\ UNCHANGED <<gateVars, deferred, at, outcome>>
  /\ lastKey' = 0 /\ rows' = {}
  /\ UNCHANGED <<dataVars, prepared, plan, kept, others>>

(* The head of the loop over the tables *)
NextTable(p) ==
  /\ pc = "table"
  /\ IF at > NumTables
     THEN Go(p, "final", "Finalizing") /\ at' = 1 /\ UNCHANGED <<outcome, deferred>>
     ELSE IF p \in flagged /\ HonorCancel
     THEN Stop("Cancelled") /\ UNCHANGED <<gateVars, at, deferred>>
     ELSE /\ deferred' = (deferred \/ p \in flagged)
          /\ pc' = "scan"
          /\ UNCHANGED <<gateVars, at, outcome>>
  /\ lastKey' = 0 /\ rows' = {}
  /\ UNCHANGED <<dataVars, prepared, plan, kept, others>>

(* One page of identities (existing table) or whole rows (new table).  Its byte
   limit may cut a page short, but not to nothing: that is an error. *)
ScanPage(p) ==
  /\ pc = "scan"
  /\ IF HonorCancel /\ p \in flagged
     THEN Stop("Cancelled") /\ UNCHANGED <<gateVars, at, lastKey, rows>>
     ELSE IF Page(at, BatchSize) = {}
     THEN /\ Go(p, "table", "Scanning") /\ at' = at + 1
          /\ UNCHANGED <<outcome, lastKey, rows>>
     ELSE /\ Go(p, IF at \in plan THEN "compare" ELSE "insert", "Scanning")
          /\ \E n \in 1..BatchSize : rows' = Page(at, n) /\ lastKey' = Max(Page(at, n))
          /\ UNCHANGED <<outcome, at>>
  /\ UNCHANGED <<dataVars, prepared, plan, deferred, kept, others>>

(* existing_identity_keys: which of the page's identities the target has *)
CompareKeys(p) ==
  /\ pc = "compare"
  /\ LET missing == rows \ Present(at)
     IN  IF missing = {}
         THEN Go(p, "scan", "Scanning") /\ rows' = {} /\ UNCHANGED outcome
         ELSE IF HonorCancel /\ p \in flagged
         THEN Stop("Cancelled") /\ UNCHANGED <<gateVars, rows>>
         ELSE pc' = "fetch" /\ rows' = missing /\ UNCHANGED <<gateVars, outcome>>
  /\ UNCHANGED <<dataVars, prepared, plan, at, lastKey, deferred, kept, others>>

(* fetch_source_rows: rows deleted meanwhile are left out with a warning *)
FetchRows(p) ==
  /\ pc = "fetch"
  /\ rows' = rows \cap source[at]
  /\ pc' = IF rows' = {} THEN "scan" ELSE "insert"
  /\ UNCHANGED <<gateVars, dataVars, prepared, plan, at, lastKey, deferred, outcome,
                 kept, others>>

(* flush_insert.  On the second unique value of a row PostgreSQL rejects the
   statement, MySQL drops the row. *)
InsertRows(p) ==
  /\ pc = "insert"
  /\ LET rejected == engine = "postgres" /\ Clashing(at, rows \ Present(at)) # {}
     IN  /\ target' = IF rejected THEN target ELSE Written(at, rows)
         /\ UpdateProgress(p, "Writing")
         /\ IF rejected
            THEN Stop("Failed") /\ UNCHANGED rows
            ELSE /\ UNCHANGED outcome
                 /\ IF engine = "mysql"
                    THEN pc' = "confirm" /\ UNCHANGED rows
                    ELSE pc' = "scan" /\ rows' = {}
  /\ UNCHANGED <<engine, source, exists, linked, sequence, prepared, plan, at, lastKey,
                 deferred, kept, others>>

(* The statement reached the server, its reply did not reach us. *)
InsertReplyLost(p) ==
  /\ pc = "insert"
  /\ ~(engine = "postgres" /\ Clashing(at, rows \ Present(at)) # {})
  /\ target' = Written(at, rows)
  /\ UpdateProgress(p, "Writing")
  /\ Stop("Failed")
  /\ UNCHANGED <<engine, source, exists, linked, sequence, prepared, plan, at, lastKey, rows,
                 deferred, kept, others>>

(* Faulty: MySQL's row count is believed. *)
ConfirmInserted_Skipped(p) ==
  /\ pc = "confirm"
  /\ Go(p, "scan", "Writing") /\ rows' = {} /\ UNCHANGED outcome
  /\ UNCHANGED <<dataVars, prepared, plan, at, lastKey, deferred, kept, others>>

(* mysql_missing_identities_after_insert *)
ConfirmInserted(p) ==
  /\ pc = "confirm"
  /\ IF rows \subseteq Present(at)
     THEN Go(p, "scan", "Writing") /\ rows' = {} /\ UNCHANGED outcome
     ELSE Stop("Failed") /\ UpdateProgress(p, "Writing") /\ UNCHANGED rows
  /\ UNCHANGED <<dataVars, prepared, plan, at, lastKey, deferred, kept, others>>

(* Faulty: the sequences of tables that existed are left alone. *)
FinalizeTable_NewOnly(p) ==
  /\ pc = "final"
  /\ IF at > NumTables
     THEN /\ Stop(IF deferred THEN "Cancelled" ELSE "Completed")
          /\ UpdateProgress(p, IF deferred THEN "Cancelling" ELSE "Finalizing")
          /\ UNCHANGED <<linked, sequence, at>>
     ELSE /\ linked'   = IF at \in plan THEN linked ELSE linked \cup {at}
          /\ sequence' = IF at \in plan THEN sequence
                         ELSE [sequence EXCEPT ![at] = Max(Present(at) \cup {@})]
          /\ at' = at + 1
          /\ UNCHANGED <<gateVars, pc, outcome>>
  /\ UNCHANGED <<engine, source, exists, target, prepared, plan, lastKey, rows, deferred,
                 kept, others>>

(* final_statements: indexes and foreign keys of a table that was created, and
   for PostgreSQL the sequences of every table; then the result. *)
FinalizeTable(p) ==
  /\ pc = "final"
  /\ IF at > NumTables
     THEN /\ Stop(IF deferred THEN "Cancelled" ELSE "Completed")
          /\ UpdateProgress(p, IF deferred THEN "Cancelling" ELSE "Finalizing")
          /\ UNCHANGED <<linked, sequence, at>>
     ELSE /\ linked'   = IF at \in plan THEN linked ELSE linked \cup {at}
          /\ sequence' = IF engine = "postgres"
                         THEN [sequence EXCEPT ![at] = Max(Present(at) \cup {@})]
                         ELSE sequence
          /\ at' = at + 1
          /\ UNCHANGED <<gateVars, pc, outcome>>
  /\ UNCHANGED <<engine, source, exists, target, prepared, plan, lastKey, rows, deferred,
                 kept, others>>

(* Any of the awaited calls may return an error. *)
CallFails(p) ==
  /\ pc \in Busy \ {"table"}
  /\ Stop("Failed")
  /\ UNCHANGED <<gateVars, dataVars, prepared, plan, at, lastKey, rows, deferred,
                 kept, others>>

(* Faulty: an error leaves execute() without a word to the gate. *)
EndExecution_ErrorReturns(p) ==
  /\ pc = "ending"
  /\ outcome # "Failed"
  /\ Finish(p, outcome)
  /\ pc' = "idle" /\ rows' = {}
  /\ UNCHANGED <<dataVars, prepared, plan, at, lastKey, deferred, outcome, kept, others>>

EndExecution(p) ==
  /\ pc = "ending"
  /\ Finish(p, outcome)
  /\ pc' = "idle" /\ rows' = {}
  /\ UNCHANGED <<dataVars, prepared, plan, at, lastKey, deferred, outcome, kept, others>>

-----------------------------------------------------------------------------
(* The user at the overlay, and other clients of the two databases *)

UserStep ==
  /\ \E p \in issued : RequestCancel(p) \/ Acknowledge(p)
  /\ UNCHANGED <<dataVars, prepared, execVars, kept, others>>

Other == others < MaxOthers /\ others' = others + 1

SourceInsert(t, k) ==
  /\ Other
  /\ source' = [source EXCEPT ![t] = @ \cup {k}]
  /\ UNCHANGED <<gateVars, engine, exists, linked, target, sequence, prepared, execVars, kept>>

SourceDelete(t, k) ==
  /\ Other
  /\ source' = [source EXCEPT ![t] = @ \ {k}]
  /\ kept'   = [kept EXCEPT ![t] = @ \ {k}]
  /\ UNCHANGED <<gateVars, engine, exists, linked, target, sequence, prepared, execVars>>

(* A row inserted through the sequence, if it has come that far *)
TargetInsert(t, k) ==
  /\ Other
  /\ t \in exists /\ target[t][k] = "none"
  /\ target'   = [target EXCEPT ![t][k] = "foreign"]
  /\ sequence' = [sequence EXCEPT ![t] = Max({@, k})]
  /\ UNCHANGED <<gateVars, engine, source, exists, linked, prepared, execVars, kept>>

TargetCreate(t) ==
  /\ Other
  /\ t \notin exists
  /\ exists' = exists \cup {t}
  /\ linked' = linked \cup {t}
  /\ UNCHANGED <<gateVars, engine, source, target, sequence, prepared, execVars, kept>>

-----------------------------------------------------------------------------
Execute(p) ==
  \/ VerifyConnections(p) \/ VerifyTarget(p) \/ CreateTable(p) \/ NextTable(p)
  \/ ScanPage(p) \/ CompareKeys(p) \/ FetchRows(p) \/ InsertRows(p)
  \/ InsertReplyLost(p) \/ ConfirmInserted(p) \/ FinalizeTable(p) \/ CallFails(p)
  \/ EndExecution(p)

OtherClients ==
  \/ \E t \in Tables, k \in Keys : SourceInsert(t, k) \/ SourceDelete(t, k) \/ TargetInsert(t, k)
  \/ \E t \in Tables : TargetCreate(t)

SyncNext ==
  \/ Preflight \/ StartRefused
  \/ \E t \in Tasks : Start(t)
  \/ \E p \in running : Execute(p)
  \/ UserStep
  \/ OtherClients

SyncSpec == SyncInit /\ [][SyncNext]_vars

(* A database call returns, with a result or an error, and execute() goes on.
   Neither the user nor anybody else has to do anything. *)
FairSyncSpec == SyncSpec /\ WF_vars(\E p \in running : Execute(p))

-----------------------------------------------------------------------------
(* Properties *)

(* A completed synchronisation lost nothing: every row that was in a source
   table from start to end is in the target, whatever was inserted and
   deleted around it and whatever MySQL kept to itself (sql_sync.rs, keyset
   pages; io.rs:211). *)
CompletedIsComplete ==
  phase = "Completed" => \A t \in Tables : kept[t] \subseteq Present(t)

(* Rows the target had are never written, also when they appeared between the
   comparison and the insert (io.rs:226 "目标已有数据未被覆盖"). *)
NothingOverwritten ==
  [][\A t \in Tables, k \in Keys : target[t][k] = "foreign" => target'[t][k] = "foreign"]_vars

(* A cancelled synchronisation leaves no table of its own without its indexes
   and foreign keys (sql_sync.rs:99). *)
CancelledIsWhole == phase = "Cancelled" => exists \ plan \subseteq linked

(* After a completed PostgreSQL synchronisation the sequences are ahead of
   every copied key, those of earlier tasks that failed halfway included
   (sql_preflight/ddl.rs, setval of new and of existing tables). *)
SequencesAhead ==
  phase = "Completed" /\ engine = "postgres" =>
     \A t \in Tables, k \in Keys : target[t][k] = "copied" => k <= sequence[t]

(* Seen from outside a synchronisation is a copy in the sense of DataCopy: it
   adds missing rows only, it reports success only of a copy that is complete,
   and a page, a comparison or a statement that is under way shows in nothing
   else (sql_sync.rs, io.rs, service.rs execute). *)
Copy == INSTANCE DataCopy WITH
  owed   <- kept,
  status <- IF phase = "Idle" THEN "none"
            ELSE IF phase \in Working THEN "copying"
            ELSE IF phase = "Completed" THEN "complete" ELSE "incomplete"

ImplementsCopy == Copy!Spec

(* Every task that began reaches a final state (service.rs:419 "本方法保证任何
   结果都进入终态"), and only then can it be acknowledged. *)
EveryTaskEnds == phase \in Working ~> phase \in Terminal

=============================================================================
