--------------------------- MODULE SqlSyncProofs ----------------------------
(***************************************************************************)
(* What holds of SqlSync for any tables, rows, page size and number of     *)
(* tasks.                                                                  *)
(*   - It uses the gate only in the ways SyncGate describes, so what       *)
(*     SyncGateProofs proves of the gate holds of a synchronisation.       *)
(*   - A cancelled synchronisation leaves its tables whole (WholeInv).     *)
(*   - A completed one lost no row, wrote no row of anybody else and left  *)
(*     the sequences ahead (CopyInv).                                      *)
(*   - Seen from outside it is a copy as DataCopy describes it.            *)
(***************************************************************************)
EXTENDS SqlSync, SyncGateProofs, FiniteSetTheorems, WellFoundedInduction

(* The executor leaves with a result, and only permits that were handed out
   are at work. *)
UseInv ==
  /\ GateInv
  /\ pc = "ending" => outcome \in Terminal

(* While the final statements run, the tables before `at` have theirs; and
   whoever leaves with "Cancelled" leaves every created table finished. *)
WholeInv ==
  /\ exists \subseteq Tables
  /\ pc = "final" => /\ at \in Nat
                     /\ \A t \in exists \ plan : t < at => t \in linked
  /\ pc = "ending" /\ outcome = "Cancelled" => exists \ plan \subseteq linked
  /\ CancelledIsWhole

-----------------------------------------------------------------------------
(* What one step of the executor does to the gate: nothing, a report, or the
   end. *)
LEMMA ExecuteGate ==
  ASSUME NEW p \in running, Execute(p), pc = "ending" => outcome \in Terminal
  PROVE  \/ UNCHANGED gateVars
         \/ \E s \in Stages : UpdateProgress(p, s)
         \/ \E o \in Terminal : Finish(p, o)
<1> USE DEF Go, Stop, Stages
<1>1. CASE VerifyConnections(p)
  BY <1>1 DEF VerifyConnections
<1>2. CASE VerifyTarget(p)
  BY <1>2 DEF VerifyTarget
<1>3. CASE CreateTable(p)
  BY <1>3 DEF CreateTable
<1>4. CASE NextTable(p)
  BY <1>4 DEF NextTable
<1>5. CASE ScanPage(p)
  BY <1>5 DEF ScanPage
<1>6. CASE CompareKeys(p)
  BY <1>6 DEF CompareKeys
<1>7. CASE FetchRows(p)
  BY <1>7 DEF FetchRows
<1>8. CASE InsertRows(p)
  BY <1>8 DEF InsertRows
<1>9. CASE InsertReplyLost(p)
  BY <1>9 DEF InsertReplyLost
<1>10. CASE ConfirmInserted(p)
  BY <1>10 DEF ConfirmInserted
<1>11. CASE FinalizeTable(p)
  BY <1>11 DEF FinalizeTable
<1>12. CASE CallFails(p)
  BY <1>12 DEF CallFails
<1>13. CASE EndExecution(p)
  BY <1>13 DEF EndExecution
<1> QED
  BY <1>1, <1>2, <1>3, <1>4, <1>5, <1>6, <1>7, <1>8, <1>9, <1>10, <1>11, <1>12,
     <1>13 DEF Execute

(* Every step of the synchronisation is a step of the gate, or none. *)
LEMMA GateStep ==
  ASSUME UseInv, [SyncNext]_vars
  PROVE  [GateNext]_gateVars
<1>1. CASE \E p \in running : Execute(p)
  <2> PICK p \in running : Execute(p)
    BY <1>1
  <2>1. p \in issued
    BY DEF UseInv, GateInv, PermitsIssued
  <2> QED
    BY <2>1, ExecuteGate DEF UseInv, GateNext
<1>2. CASE \E t \in Tasks : Start(t)
  BY <1>2 DEF Start, GateNext
<1>3. CASE UserStep
  BY <1>3 DEF UserStep, GateNext
<1>4. CASE Preflight \/ StartRefused \/ OtherClients \/ UNCHANGED vars
  BY <1>4 DEF Preflight, StartRefused, OtherClients, SourceInsert, SourceDelete,
     TargetInsert, TargetCreate, vars
<1> QED
  BY <1>1, <1>2, <1>3, <1>4 DEF SyncNext

(* One gate step preserves the gate's invariant. *)
LEMMA GateInvStep ==
  ASSUME GateInv, [GateNext]_gateVars
  PROVE  GateInv'
<1>1. CASE \E t \in Tasks : Begin(t)
  BY <1>1, BeginStep
<1>2. CASE \E p \in issued : \/ \E s \in Stages : UpdateProgress(p, s)
                             \/ RequestCancel(p)
                             \/ \E outcom \in Terminal : Finish(p, outcom)
                             \/ Acknowledge(p)
  BY <1>2, TaskStep
<1>3. CASE UNCHANGED gateVars
  BY <1>3 DEF GateInv, GateTypeOK, PermitsIssued, OneExecutor, CancelVisible,
     CancelsAsked, ResultsConfirmed, gateVars
<1> QED
  BY <1>1, <1>2, <1>3 DEF GateNext

(* The result is set whenever the executor is about to leave. *)
LEMMA ResultStep ==
  ASSUME UseInv, [SyncNext]_vars
  PROVE  (pc = "ending" => outcome \in Terminal)'
<1> USE DEF Go, Stop, Terminal
<1>1. CASE \E p \in running : Execute(p)
  <2> PICK p \in running : Execute(p)
    BY <1>1
  <2>1. CASE VerifyConnections(p) \/ VerifyTarget(p) \/ CreateTable(p) \/ NextTable(p)
    BY <2>1 DEF VerifyConnections, VerifyTarget, CreateTable, NextTable
  <2>2. CASE ScanPage(p) \/ CompareKeys(p) \/ FetchRows(p)
    BY <2>2 DEF ScanPage, CompareKeys, FetchRows
  <2>3. CASE InsertRows(p) \/ InsertReplyLost(p) \/ ConfirmInserted(p)
    BY <2>3 DEF InsertRows, InsertReplyLost, ConfirmInserted
  <2>4. CASE FinalizeTable(p) \/ CallFails(p) \/ EndExecution(p)
    BY <2>4 DEF FinalizeTable, CallFails, EndExecution, UseInv
  <2> QED
    BY <2>1, <2>2, <2>3, <2>4 DEF Execute
<1>2. CASE \E t \in Tasks : Start(t)
  BY <1>2 DEF Start
<1>3. CASE Preflight \/ StartRefused \/ UserStep \/ OtherClients \/ UNCHANGED vars
  BY <1>3 DEF Preflight, StartRefused, UserStep, OtherClients, SourceInsert,
     SourceDelete, TargetInsert, TargetCreate, vars, execVars, UseInv
<1> QED
  BY <1>1, <1>2, <1>3 DEF SyncNext

(* A synchronisation uses the gate as SyncGate describes it: start() begins,
   the executor reports and finishes with its own permit, the overlay cancels
   and acknowledges (service.rs start, execute). *)
THEOREM UsesGate == SyncSpec => []UseInv /\ GateSpec
<1>1. SyncInit => UseInv /\ GateInit
  BY GateInit_GateInv DEF SyncInit, UseInv
<1>2. UseInv /\ [SyncNext]_vars => UseInv' /\ [GateNext]_gateVars
  BY GateStep, ResultStep, GateInvStep DEF UseInv
<1> QED
  BY <1>1, <1>2, PTL DEF SyncSpec, GateSpec

(* So one synchronisation runs at a time, whatever the dialogs, the overlay
   and the databases do (gate.rs begin, acknowledge_current). *)
THEOREM OneSynchronisation == SyncSpec => []OneExecutor
BY UsesGate, Exclusive, PTL

-----------------------------------------------------------------------------
(* The executor keeps WholeInv, action by action. *)
LEMMA ExecuteWhole ==
  ASSUME UseInv, WholeInv, NEW p \in running, Execute(p)
  PROVE  WholeInv'
<1> USE DEF Go, Stop, WholeInv, CancelledIsWhole
<1>0. phase # "Cancelled" /\ p = holder /\ phase \in Working
  BY DEF UseInv, GateInv, OneExecutor, Working
<1>1. CASE VerifyConnections(p)
  BY <1>1 DEF VerifyConnections, gateVars, dataVars
<1>2. CASE VerifyTarget(p)
  BY <1>0, <1>2 DEF VerifyTarget, UpdateProgress, gateVars, dataVars
<1>3. CASE CreateTable(p)
  <2>1. phase' = phase /\ pc' # "final" /\ (pc' = "ending" => outcome' = "Failed")
    BY <1>3 DEF CreateTable, UpdateProgress, gateVars
  <2>2. exists' \subseteq Tables
    BY <1>3 DEF CreateTable
  <2> QED
    BY <1>0, <2>1, <2>2
<1>4. CASE NextTable(p)
  <2>1. /\ phase' = phase /\ UNCHANGED <<exists, plan, linked>>
    BY <1>4 DEF NextTable, UpdateProgress, gateVars, dataVars
  <2>2. pc' = "final" => at' = 1 /\ \A t \in Tables : ~(t < 1)
    BY <1>4 DEF NextTable, Tables
  <2>3. pc' = "ending" => exists \ plan = {}
    BY <1>4 DEF NextTable, HonorCancel, CreatesStructure
  <2> QED
    BY <1>0, <2>1, <2>2, <2>3
<1>5. CASE ScanPage(p)
  <2>1. /\ phase' = phase /\ UNCHANGED <<exists, plan, linked>> /\ pc' # "final"
    BY <1>5 DEF ScanPage, UpdateProgress, gateVars, dataVars
  <2>2. pc' = "ending" => exists \ plan = {}
    BY <1>5 DEF ScanPage, HonorCancel, CreatesStructure
  <2> QED
    BY <1>0, <2>1, <2>2
<1>6. CASE CompareKeys(p)
  <2>1. /\ phase' = phase /\ UNCHANGED <<exists, plan, linked>> /\ pc' # "final"
    BY <1>6 DEF CompareKeys, UpdateProgress, gateVars, dataVars
  <2>2. pc' = "ending" => exists \ plan = {}
    BY <1>6 DEF CompareKeys, HonorCancel, CreatesStructure
  <2> QED
    BY <1>0, <2>1, <2>2
<1>7. CASE FetchRows(p) \/ InsertRows(p) \/ InsertReplyLost(p) \/ ConfirmInserted(p) \/ CallFails(p)
  <2>1. /\ phase' = phase /\ UNCHANGED <<exists, plan, linked>> /\ pc' # "final"
        /\ pc' = "ending" => outcome' = "Failed"
    BY <1>7 DEF FetchRows, InsertRows, InsertReplyLost, ConfirmInserted, CallFails,
       UpdateProgress, gateVars, dataVars
  <2> QED
    BY <1>0, <2>1
<1>8. CASE FinalizeTable(p)
  <2>1. phase' = phase /\ UNCHANGED <<exists, plan>> /\ pc = "final"
    BY <1>8 DEF FinalizeTable, UpdateProgress, gateVars
  <2>2. CASE at > NumTables
    <3>1. linked' = linked /\ at' = at /\ pc' = "ending"
      BY <1>8, <2>2 DEF FinalizeTable
    <3>2. \A t \in exists \ plan : t < at
      BY <2>1, <2>2, SqlConstants DEF Tables
    <3> QED
      BY <1>0, <2>1, <3>1, <3>2
  <2>3. CASE ~(at > NumTables)
    <3>1. /\ linked' = IF at \in plan THEN linked ELSE linked \cup {at}
          /\ at' = at + 1 /\ pc' = "final"
      BY <1>8, <2>1, <2>3 DEF FinalizeTable
    <3>2. \A t \in exists \ plan : t < at + 1 => t \in linked'
      <4> SUFFICES ASSUME NEW t \in exists \ plan, t < at + 1 PROVE t \in linked'
        OBVIOUS
      <4>1. t < at \/ t = at
        BY <2>1 DEF Tables
      <4> QED
        BY <4>1, <2>1, <3>1
    <3> QED
      BY <1>0, <2>1, <3>1, <3>2
  <2> QED
    BY <2>2, <2>3
<1>9. CASE EndExecution(p)
  <2>1. pc = "ending" /\ pc' = "idle" /\ UNCHANGED <<exists, plan, linked>> /\ phase' = outcome
    BY <1>0, <1>9 DEF EndExecution, Finish, Current, Working, dataVars
  <2> QED
    BY <2>1
<1> QED
  BY <1>1, <1>2, <1>3, <1>4, <1>5, <1>6, <1>7, <1>8, <1>9 DEF Execute

(* A cancelled synchronisation leaves no table it created without its indexes
   and foreign keys, however the cancellation fell (sql_sync.rs:90-133). *)
THEOREM CancelledWhole == SyncSpec => []CancelledIsWhole
<1>1. SyncInit => WholeInv
  BY DEF SyncInit, WholeInv, CancelledIsWhole, GateInit
<1>2. UseInv /\ WholeInv /\ [SyncNext]_vars => WholeInv'
  <2> SUFFICES ASSUME UseInv, WholeInv, [SyncNext]_vars PROVE WholeInv'
    OBVIOUS
  <2>1. CASE \E p \in running : Execute(p)
    BY <2>1, ExecuteWhole
  <2>2. CASE \E t \in Tasks : Start(t)
    BY <2>2 DEF Start, Begin, WholeInv, CancelledIsWhole, dataVars
  <2>3. CASE UserStep
    <3>1. /\ UNCHANGED <<exists, plan, linked, pc, at, outcome>>
          /\ phase' = "Cancelled" => phase = "Cancelled"
      BY <2>3 DEF UserStep, RequestCancel, Cancel, Acknowledge, dataVars, execVars
    <3> QED
      BY <3>1 DEF WholeInv, CancelledIsWhole
  <2>4. CASE Preflight \/ StartRefused \/ UNCHANGED vars
    BY <2>4 DEF Preflight, StartRefused, WholeInv, CancelledIsWhole, vars, dataVars,
       execVars, gateVars
  <2>5. CASE \E t \in Tables, k \in Keys : SourceInsert(t, k) \/ SourceDelete(t, k) \/ TargetInsert(t, k)
    BY <2>5 DEF SourceInsert, SourceDelete, TargetInsert, WholeInv, CancelledIsWhole,
       execVars, gateVars
  <2>6. CASE \E t \in Tables : TargetCreate(t)
    <3> PICK t \in Tables : TargetCreate(t)
      BY <2>6
    <3>1. /\ exists' = exists \cup {t} /\ linked' = linked \cup {t}
          /\ UNCHANGED <<phase, plan, pc, at, outcome>>
      BY DEF TargetCreate, execVars, gateVars
    <3> QED
      BY <3>1 DEF WholeInv, CancelledIsWhole
  <2> QED
    BY <2>1, <2>2, <2>3, <2>4, <2>5, <2>6 DEF SyncNext, OtherClients
<1>3. WholeInv => CancelledIsWhole
  BY DEF WholeInv
<1> QED
  BY <1>1, <1>2, <1>3, UsesGate, PTL DEF SyncSpec
-----------------------------------------------------------------------------
(* A non-empty set has a member with none before it in a well-founded order. *)
LEMMA Minimal ==
  ASSUME NEW R, NEW S, IsWellFoundedOn(R, Nat), S \subseteq Nat, S # {}
  PROVE  \E m \in S : \A y \in S : ~ (<<y, m>> \in R)
BY WFMin

(* An order of the naturals that holds < finds the least number. *)
LEMMA LeastByRelation ==
  ASSUME NEW R, IsWellFoundedOn(R, Nat), \A x, y \in Nat : x < y => <<x, y>> \in R,
         NEW S, S \subseteq Nat, S # {}
  PROVE  \E m \in S : \A y \in S : m <= y
<1>1. PICK m \in S : \A y \in S : ~ (<<y, m>> \in R)
  BY Minimal
<1>2. ASSUME NEW y \in S PROVE m <= y
  <2>1. m \in Nat /\ y \in Nat
    OBVIOUS
  <2>2. ~ (y < m)
    BY <1>1, <2>1
  <2> QED
    BY <2>1, <2>2
<1> QED
  BY <1>2

(* A set of naturals has a least element: what Page and its order rest on. *)
LEMMA LeastElement ==
  ASSUME NEW S, S \subseteq Nat, S # {}
  PROVE  \E m \in S : \A y \in S : m <= y
<1>1. IsWellFoundedOn(OpToRel(<, Nat), Nat)
  BY NatLessThanWellFounded
<1>2. \A x, y \in Nat : x < y => <<x, y>> \in OpToRel(<, Nat)
  BY DEF OpToRel
<1> QED
  BY <1>1, <1>2, LeastByRelation

(* A bounded set of naturals has a greatest element, and Max chooses it. *)
LEMMA MaxOfBounded ==
  ASSUME NEW n \in Nat, NEW S, S \subseteq 0..n, S # {}
  PROVE  Max(S) \in S /\ \A y \in S : y <= Max(S)
<1> DEFINE Bounds == {b \in Nat : \A y \in S : y <= b}
<1>1. n \in Bounds
  OBVIOUS
<1>2. PICK m \in Bounds : \A b \in Bounds : m <= b
  <2> HIDE DEF Bounds
  <2>1. Bounds \subseteq Nat
    BY DEF Bounds
  <2> QED
    BY <1>1, <2>1, LeastElement
<1>3. m \in S
  <2> SUFFICES ASSUME m \notin S PROVE FALSE
    OBVIOUS
  <2>1. \A y \in S : y < m
    BY <1>2
  <2>2. PICK z \in S : TRUE
    OBVIOUS
  <2>3. m - 1 \in Nat
    BY <2>1, <2>2
  <2>4. m - 1 \in Bounds
    BY <2>1, <2>3
  <2> QED
    BY <1>2, <2>4
<1>4. m \in S /\ \A y \in S : m >= y
  BY <1>2, <1>3
<1>5. Max(S) \in S /\ \A y \in S : Max(S) >= y
  BY <1>4 DEF Max
<1> QED
  BY <1>5

-----------------------------------------------------------------------------
(* While a table is being treated *)
InTable == {"scan", "compare", "fetch", "insert", "confirm"}

(* run_sql_sync is done with all tables, or reported so. *)
AllTreated ==
  \/ pc = "final"
  \/ pc = "ending" /\ outcome = "Completed"
  \/ phase = "Completed"

(* The executor treats tables of the plan, and a page at a time. *)
TreatedOK ==
  /\ SyncTypeOK
  /\ pc \in InTable => at <= NumTables
  /\ pc = "scan" => rows = {}

(* CREATE TABLE goes through the plan in order; when the tables are treated all
   of them exist. *)
StructureOK ==
  /\ pc \in {"connections", "verify"} => at = 1
  /\ pc = "create" => plan \subseteq exists /\ \A t \in Tables : t < at => t \in exists
  /\ pc \in InTable \cup {"table", "final"} => Tables \subseteq exists

(* Tables before `at` have every row that stayed in the source. *)
EarlierKept ==
  pc \in InTable \cup {"table"} =>
     \A t \in Tables : t < at => kept[t] \subseteq Present(t)

(* In the table being treated every such row up to the keyset position is in
   the target or in the page at hand. *)
CurrentKept ==
  pc \in InTable => \A k \in kept[at] : k <= lastKey => k \in Present(at) \cup rows

AllKept == AllTreated => \A t \in Tables : kept[t] \subseteq Present(t)

(* A row counted as kept is in the source still. *)
KeptInSource == \A t \in Tables : kept[t] \subseteq source[t]

(* The postgres sequences the final statements have reached are ahead. *)
FinalAhead ==
  engine = "postgres" => \A t \in Tables, k \in Keys :
     /\ target[t][k] = "copied"
     /\ \/ pc = "final" /\ t < at
        \/ pc = "ending" /\ outcome = "Completed"
        \/ phase = "Completed"
     => k <= sequence[t]

CopyInv == TreatedOK /\ StructureOK /\ EarlierKept /\ CurrentKept /\ AllKept /\ KeptInSource /\ FinalAhead

-----------------------------------------------------------------------------
(* A page is a stretch of the source's identities that begins right behind the
   keyset position: it is empty only when nothing is left there, and it leaves
   out nothing up to its own greatest identity (io.rs, ORDER BY .. LIMIT). *)
LEMMA PageStretch ==
  ASSUME SyncTypeOK, NEW t \in Tables, NEW n \in Nat \ {0}
  PROVE  /\ Page(t, n) \subseteq source[t]
         /\ \A k \in source[t] : k > lastKey => Page(t, n) # {}
         /\ Page(t, n) # {} =>
              /\ Max(Page(t, n)) \in Keys
              /\ \A k \in source[t] : k > lastKey /\ k <= Max(Page(t, n)) => k \in Page(t, n)
<1> DEFINE behind == {k \in source[t] : k > lastKey}
           upTo(k) == {j \in behind : j <= k}
           page == Page(t, n)
<1>1. source[t] \subseteq 1..MaxKey /\ MaxKey \in Nat /\ lastKey \in Nat
  BY SqlConstants DEF SyncTypeOK, Keys
<1>2. behind \subseteq 1..MaxKey /\ \A k : upTo(k) \subseteq 1..MaxKey
  BY <1>1
<1>3. page = {k \in behind : Cardinality(upTo(k)) <= n}
  BY DEF Page
<1>4. ASSUME NEW S, S \subseteq 1..MaxKey
      PROVE  IsFiniteSet(S) /\ Cardinality(S) \in Nat
  <2>1. IsFiniteSet(1..MaxKey)
    BY <1>1, FS_Interval
  <2> QED
    BY <1>4, <2>1, FS_Subset, FS_CardinalityType
<1>5. ASSUME NEW k \in source[t], k > lastKey PROVE page # {}
  <2>1. behind # {} /\ behind \subseteq Nat
    BY <1>2, <1>5
  <2>2. PICK m \in behind : \A y \in behind : m <= y
    <3> HIDE DEF behind
    <3> QED BY <2>1, LeastElement
  <2>3. upTo(m) = {m}
    BY <1>2, <2>2
  <2>4. Cardinality(upTo(m)) = 1
    BY <2>3, FS_Singleton
  <2> QED
    BY <1>3, <2>2, <2>4
<1>6. ASSUME page # {}
      PROVE  /\ Max(page) \in Keys
             /\ \A k \in source[t] : k > lastKey /\ k <= Max(page) => k \in page
  <2>1. page \subseteq 0..MaxKey
    BY <1>2, <1>3
  <2>2. Max(page) \in page
    <3> HIDE DEF page
    <3> QED BY <1>1, <1>6, <2>1, MaxOfBounded
  <2>3. Max(page) \in behind /\ Cardinality(upTo(Max(page))) <= n
    BY <1>3, <2>2
  <2>4. ASSUME NEW k \in source[t], k > lastKey, k <= Max(page) PROVE k \in page
    <3>1. upTo(k) \subseteq upTo(Max(page))
      BY <1>1, <1>2, <2>3, <2>4
    <3>2. /\ Cardinality(upTo(k)) \in Nat /\ Cardinality(upTo(Max(page))) \in Nat
          /\ IsFiniteSet(upTo(Max(page)))
      BY <1>2, <1>4
    <3>3. Cardinality(upTo(k)) <= Cardinality(upTo(Max(page)))
      <4> HIDE DEF upTo
      <4> QED BY <3>1, <3>2, FS_Subset
    <3>4. Cardinality(upTo(k)) <= n
      BY <2>3, <3>2, <3>3
    <3> QED
      BY <1>3, <2>4, <3>4
  <2> QED
    BY <1>1, <2>3, <2>4 DEF Keys
<1> QED
  BY <1>3, <1>5, <1>6

-----------------------------------------------------------------------------
(* Present(t) speaks of the keys of the plan. *)
LEMMA PresentKeys == \A t : Present(t) \subseteq Keys
BY DEF Present

(* What an INSERT makes of the target: missing rows of the page that clash with
   nothing are copied, all others are as they were. *)
LEMMA WrittenRows ==
  ASSUME SyncTypeOK, NEW t \in Tables, NEW ks
  PROVE  /\ Written(t, ks) \in [Tables -> [Keys -> {"none", "foreign", "copied"}]]
         /\ \A u \in Tables, k \in Keys : Written(t, ks)[u][k] =
              IF u = t /\ k \in (ks \ Present(t)) \ Clashing(t, ks)
              THEN "copied" ELSE target[u][k]
<1> DEFINE free == (ks \ Present(t)) \ Clashing(t, ks)
           row  == [k \in Keys |-> IF k \in free THEN "copied" ELSE target[t][k]]
<1>1. Written(t, ks) = [target EXCEPT ![t] = row]
  BY DEF Written
<1>2. target \in [Tables -> [Keys -> {"none", "foreign", "copied"}]]
  BY DEF SyncTypeOK
<1>3. target[t] \in [Keys -> {"none", "foreign", "copied"}]
  BY <1>2
<1>4. /\ row \in [Keys -> {"none", "foreign", "copied"}]
      /\ \A k \in Keys : row[k] = IF k \in free THEN "copied" ELSE target[t][k]
  <2> HIDE DEF free
  <2> QED BY <1>3
<1> HIDE DEF row, free
<1>5. /\ Written(t, ks) \in [Tables -> [Keys -> {"none", "foreign", "copied"}]]
      /\ Written(t, ks)[t] = row
      /\ \A u \in Tables \ {t} : Written(t, ks)[u] = target[u]
  BY <1>1, <1>2, <1>4
<1>6. \A u \in Tables, k \in Keys : Written(t, ks)[u][k] =
        IF u = t /\ k \in free THEN "copied" ELSE target[u][k]
  BY <1>4, <1>5
<1> QED
  BY <1>5, <1>6 DEF free

(* A sequence that is set to the greatest of its value and some keys stays in
   range and passes none of them. *)
LEMMA SequenceMax ==
  ASSUME NEW s \in 0..MaxKey, NEW ks, ks \subseteq Keys
  PROVE  /\ Max(ks \cup {s}) \in 0..MaxKey
         /\ s <= Max(ks \cup {s})
         /\ \A k \in ks : k <= Max(ks \cup {s})
<1>1. ks \cup {s} \subseteq 0..MaxKey /\ ks \cup {s} # {} /\ MaxKey \in Nat
  BY SqlConstants DEF Keys
<1>2. /\ Max(ks \cup {s}) \in ks \cup {s}
      /\ \A y \in ks \cup {s} : y <= Max(ks \cup {s})
  BY <1>1, MaxOfBounded
<1> QED
  BY <1>1, <1>2

(* The executor's actions, apart from what each does to the gate *)
LEMMA ExecuteCases ==
  ASSUME NEW p, Execute(p)
  PROVE  \/ VerifyConnections(p) \/ VerifyTarget(p) \/ CreateTable(p) \/ NextTable(p)
         \/ ScanPage(p) \/ CompareKeys(p) \/ FetchRows(p) \/ InsertRows(p)
         \/ InsertReplyLost(p) \/ ConfirmInserted(p) \/ FinalizeTable(p) \/ CallFails(p)
         \/ EndExecution(p)
BY DEF Execute

(* Apart from the two inserts, the executor leaves the target's rows alone; it
   never writes the source, its history or another client's turn. *)
LEMMA ExecuteFrame ==
  ASSUME NEW p, Execute(p)
  PROVE  /\ UNCHANGED <<engine, source, kept, others, prepared, plan>>
         /\ ~(InsertRows(p) \/ InsertReplyLost(p)) => UNCHANGED target
         /\ ~FinalizeTable(p) => UNCHANGED sequence
         /\ ~FinalizeTable(p) => UNCHANGED linked
         /\ ~CreateTable(p) => UNCHANGED exists
<1>1. CASE VerifyConnections(p) \/ VerifyTarget(p) \/ NextTable(p) \/ CallFails(p)
  BY <1>1 DEF VerifyConnections, VerifyTarget, NextTable, CallFails, dataVars
<1>2. CASE CreateTable(p)
  BY <1>2 DEF CreateTable
<1>3. CASE ScanPage(p) \/ CompareKeys(p) \/ FetchRows(p)
  BY <1>3 DEF ScanPage, CompareKeys, FetchRows, dataVars
<1>4. CASE InsertRows(p) \/ InsertReplyLost(p)
  BY <1>4 DEF InsertRows, InsertReplyLost
<1>5. CASE ConfirmInserted(p) \/ EndExecution(p)
  BY <1>5 DEF ConfirmInserted, EndExecution, dataVars
<1>6. CASE FinalizeTable(p)
  BY <1>6 DEF FinalizeTable
<1> QED
  BY <1>1, <1>2, <1>3, <1>4, <1>5, <1>6, ExecuteCases

(* The steps of everybody else leave the executor where it stands. *)
LEMMA OthersFrame ==
  ASSUME Preflight \/ StartRefused \/ UserStep \/ OtherClients \/ UNCHANGED vars
  PROVE  UNCHANGED execVars /\ UNCHANGED engine
BY DEF Preflight, StartRefused, UserStep, OtherClients, SourceInsert, SourceDelete,
   TargetInsert, TargetCreate, vars, dataVars

-----------------------------------------------------------------------------
(* Every row of the target stays, a foreign one stays foreign, and only an
   INSERT of the executor copies a row. *)
LEMMA TargetStep ==
  ASSUME TreatedOK, [SyncNext]_vars
  PROVE  /\ target' \in [Tables -> [Keys -> {"none", "foreign", "copied"}]]
         /\ \A t \in Tables, k \in Keys :
              /\ target[t][k] = "foreign" => target'[t][k] = "foreign"
              /\ target[t][k] = "copied" => target'[t][k] = "copied"
              /\ target'[t][k] = "copied" => target[t][k] = "copied" \/ pc = "insert"
<1>0. target \in [Tables -> [Keys -> {"none", "foreign", "copied"}]]
  BY DEF TreatedOK, SyncTypeOK
<1>1. CASE target' = target
  BY <1>0, <1>1
<1>2. CASE \E p \in running : Execute(p)
  <2> PICK p \in running : Execute(p)
    BY <1>2
  <2>1. CASE target' = Written(at, rows) /\ pc = "insert"
    <3>1. at \in Tables
      BY <2>1, SqlConstants DEF TreatedOK, InTable, SyncTypeOK, Tables
    <3> QED
      BY <2>1, <3>1, WrittenRows DEF TreatedOK, Present
  <2>2. CASE target' = target
    BY <1>1, <2>2
  <2>3. InsertRows(p) \/ InsertReplyLost(p) =>
          pc = "insert" /\ (target' = target \/ target' = Written(at, rows))
    BY DEF InsertRows, InsertReplyLost
  <2> QED
    BY <2>1, <2>2, <2>3, ExecuteFrame
<1>3. CASE \E t \in Tables, k \in Keys : TargetInsert(t, k)
  <2> PICK t \in Tables, k \in Keys : TargetInsert(t, k)
    BY <1>3
  <2>1. target[t][k] = "none" /\ target' = [target EXCEPT ![t][k] = "foreign"]
    BY DEF TargetInsert
  <2> QED
    BY <1>0, <2>1
<1>4. CASE Preflight \/ StartRefused \/ UserStep \/ UNCHANGED vars
  BY <1>1, <1>4 DEF Preflight, StartRefused, UserStep, vars, dataVars
<1>5. CASE \E t \in Tasks : Start(t)
  BY <1>1, <1>5 DEF Start, dataVars
<1>6. CASE \/ \E t \in Tables, k \in Keys : SourceInsert(t, k) \/ SourceDelete(t, k)
           \/ \E t \in Tables : TargetCreate(t)
  BY <1>1, <1>6 DEF SourceInsert, SourceDelete, TargetCreate
<1> QED
  BY <1>2, <1>3, <1>4, <1>5, <1>6 DEF SyncNext, OtherClients

(* Nobody but the executor copies rows. *)
LEMMA OthersCopyNothing ==
  ASSUME TreatedOK, [SyncNext]_vars, ~ \E p \in running : Execute(p),
         NEW t \in Tables, NEW k \in Keys, target'[t][k] = "copied"
  PROVE  target[t][k] = "copied"
<1>0. target \in [Tables -> [Keys -> {"none", "foreign", "copied"}]]
  BY DEF TreatedOK, SyncTypeOK
<1>1. CASE target' = target
  BY <1>1
<1>2. CASE \E u \in Tables, j \in Keys : target' = [target EXCEPT ![u][j] = "foreign"]
  BY <1>0, <1>2
<1>3. CASE Preflight \/ StartRefused \/ UserStep \/ UNCHANGED vars \/ \E u \in Tasks : Start(u)
  BY <1>1, <1>3 DEF Preflight, StartRefused, UserStep, Start, vars, dataVars
<1>4. CASE OtherClients
  BY <1>1, <1>2, <1>4 DEF OtherClients, SourceInsert, SourceDelete, TargetInsert, TargetCreate
<1> QED
  BY <1>3, <1>4 DEF SyncNext

(* So what the target has, it keeps. *)
LEMMA PresentGrows ==
  ASSUME TreatedOK, [SyncNext]_vars, NEW t \in Tables
  PROVE  Present(t) \subseteq Present(t)'
<1>1. target \in [Tables -> [Keys -> {"none", "foreign", "copied"}]]
  BY DEF TreatedOK, SyncTypeOK
<1>2. ASSUME NEW k \in Keys, target[t][k] # "none" PROVE target'[t][k] # "none"
  BY <1>1, <1>2, TargetStep
<1> QED
  BY <1>2 DEF Present

(* The sequences of the target: in range, never set back, and past every row
   another client adds; the final statements set the table's past all its rows. *)
LEMMA SequenceStep ==
  ASSUME TreatedOK, [SyncNext]_vars
  PROVE  /\ sequence' \in [Tables -> 0..MaxKey]
         /\ \A t \in Tables : sequence[t] <= sequence'[t]
         /\ pc = "final" /\ pc' = "final" /\ engine = "postgres" /\ at' # at =>
              \A k \in Present(at) : k <= sequence'[at]
<1> USE DEF TreatedOK, SyncTypeOK
<1>0. sequence \in [Tables -> 0..MaxKey] /\ MaxKey \in Nat
  BY SqlConstants
<1>1. CASE sequence' = sequence /\ (pc # "final" \/ pc' # "final" \/ at' = at)
  BY <1>0, <1>1
<1>2. ASSUME NEW p \in running, Execute(p), ~FinalizeTable(p)
      PROVE  (sequence' = sequence /\ pc # "final") \/ at' = at
  BY <1>2, ExecuteCases, ExecuteFrame DEF VerifyConnections, VerifyTarget, CreateTable,
     NextTable, ScanPage, CompareKeys, FetchRows, InsertRows, InsertReplyLost,
     ConfirmInserted, CallFails, EndExecution
<1>3. CASE \E p \in running : FinalizeTable(p)
  <2> PICK p \in running : FinalizeTable(p)
    BY <1>3
  <2>1. CASE at > NumTables
    BY <1>0, <2>1, SqlConstants DEF FinalizeTable
  <2>2. CASE ~(at > NumTables)
    <3>1. at \in Tables
      BY <2>2, SqlConstants DEF Tables
    <3>2. sequence' = IF engine = "postgres"
                      THEN [sequence EXCEPT ![at] = Max(Present(at) \cup {sequence[at]})]
                      ELSE sequence
      BY <2>2 DEF FinalizeTable
    <3>3. sequence[at] \in 0..MaxKey /\ Present(at) \subseteq Keys
      BY <1>0, <3>1, PresentKeys
    <3>4. /\ Max(Present(at) \cup {sequence[at]}) \in 0..MaxKey
          /\ sequence[at] <= Max(Present(at) \cup {sequence[at]})
          /\ \A k \in Present(at) : k <= Max(Present(at) \cup {sequence[at]})
      BY <3>3, SequenceMax
    <3> DEFINE m == Max(Present(at) \cup {sequence[at]})
    <3> HIDE DEF m
    <3>5. CASE engine = "postgres"
      <4>1. sequence' = [sequence EXCEPT ![at] = m]
        BY <3>2, <3>5 DEF m
      <4>2. m \in 0..MaxKey /\ sequence[at] <= m /\ \A k \in Present(at) : k <= m
        BY <3>4 DEF m
      <4>3. /\ sequence' \in [Tables -> 0..MaxKey]
            /\ sequence'[at] = m
            /\ \A t \in Tables \ {at} : sequence'[t] = sequence[t]
        BY <1>0, <3>1, <4>1, <4>2
      <4>4. \A t \in Tables : sequence[t] <= sequence'[t]
        BY <1>0, <4>2, <4>3
      <4> QED
        BY <4>2, <4>3, <4>4
    <3>6. CASE engine # "postgres"
      BY <1>0, <3>2, <3>6
    <3> QED
      BY <3>5, <3>6
  <2> QED
    BY <2>1, <2>2, SqlConstants
<1>4. CASE \E t \in Tables, k \in Keys : TargetInsert(t, k)
  <2> PICK t \in Tables, k \in Keys : TargetInsert(t, k)
    BY <1>4
  <2>1. /\ sequence' = [sequence EXCEPT ![t] = Max({sequence[t], k})]
        /\ UNCHANGED execVars
    BY DEF TargetInsert
  <2>2. {sequence[t], k} = {k} \cup {sequence[t]} /\ sequence[t] \in 0..MaxKey
    BY <1>0
  <2>3. /\ Max({sequence[t], k}) \in 0..MaxKey
        /\ sequence[t] <= Max({sequence[t], k})
    BY <2>2, SequenceMax
  <2> DEFINE m == Max({sequence[t], k})
  <2> HIDE DEF m
  <2>4. sequence' = [sequence EXCEPT ![t] = m] /\ m \in 0..MaxKey /\ sequence[t] <= m
    BY <2>1, <2>3 DEF m
  <2>5. /\ sequence' \in [Tables -> 0..MaxKey]
        /\ \A u \in Tables : sequence[u] <= sequence'[u]
    BY <1>0, <2>4
  <2> QED
    BY <2>1, <2>5 DEF execVars
<1>5. CASE Preflight \/ StartRefused \/ UserStep \/ UNCHANGED vars
  BY <1>1, <1>5 DEF Preflight, StartRefused, UserStep, vars, dataVars, execVars
<1>6. CASE \E t \in Tasks : Start(t)
  <2>1. sequence' = sequence /\ pc' # "final"
    BY <1>6 DEF Start, dataVars
  <2> QED
    BY <1>1, <2>1
<1>7. CASE \/ \E t \in Tables, k \in Keys : SourceInsert(t, k) \/ SourceDelete(t, k)
           \/ \E t \in Tables : TargetCreate(t)
  BY <1>1, <1>7 DEF SourceInsert, SourceDelete, TargetCreate, execVars
<1> QED
  BY <1>1, <1>2, <1>3, <1>4, <1>5, <1>6, <1>7, ExecuteFrame DEF SyncNext, OtherClients, Execute

-----------------------------------------------------------------------------
(* The executor moves within the plan and page by page. *)
LEMMA ExecuteTreated ==
  ASSUME TreatedOK, GateInv, NEW p \in running, Execute(p)
  PROVE  /\ pc' \in {"idle", "ending"} \cup Busy
         /\ at' \in 1..NumTables + 1
         /\ lastKey' \in 0..MaxKey
         /\ rows' \in SUBSET Keys
         /\ deferred' \in BOOLEAN
         /\ outcome' \in {"none"} \cup Terminal
         /\ pc' \in InTable => at' <= NumTables
         /\ pc' = "scan" => rows' = {}
<1> USE DEF TreatedOK, SyncTypeOK, Busy, InTable, Stop, Go, Terminal
<1>0. NumTables \in Nat \ {0} /\ MaxKey \in Nat \ {0} /\ BatchSize \in Nat \ {0}
  BY SqlConstants
<1>1. CASE VerifyConnections(p) \/ VerifyTarget(p)
  BY <1>0, <1>1 DEF VerifyConnections, VerifyTarget
<1>2. CASE CreateTable(p)
  BY <1>0, <1>2 DEF CreateTable, Tables
<1>3. CASE NextTable(p)
  <2>1. deferred' \in BOOLEAN
    <3>1. deferred' = deferred \/ deferred' = (deferred \/ p \in flagged)
      BY <1>3 DEF NextTable
    <3>2. deferred \in BOOLEAN
      OBVIOUS
    <3> QED
      BY <3>1, <3>2
  <2>2. /\ pc' \in {"final", "ending", "scan"} /\ at' \in {1, at} /\ lastKey' = 0 /\ rows' = {}
        /\ outcome' \in {outcome, "Cancelled"}
        /\ pc' = "scan" => at' = at /\ ~(at > NumTables)
    BY <1>3 DEF NextTable
  <2> QED
    BY <1>0, <2>1, <2>2
<1>4. CASE ScanPage(p)
  <2>1. CASE UNCHANGED <<lastKey, rows>> /\ pc' \in {"ending", "table"} /\ at' \in {at, at + 1}
    BY <1>0, <1>4, <2>1 DEF ScanPage
  <2>2. CASE /\ pc' \in {"compare", "insert"} /\ at' = at /\ outcome' = outcome
             /\ Page(at, BatchSize) # {}
             /\ \E n \in 1..BatchSize : rows' = Page(at, n) /\ lastKey' = Max(Page(at, n))
    <3>1. at \in Tables
      BY <1>0, <1>4 DEF ScanPage, Tables
    <3>2. PICK n \in 1..BatchSize : rows' = Page(at, n) /\ lastKey' = Max(Page(at, n))
      BY <2>2
    <3>3. n \in Nat \ {0}
      BY <1>0
    <3>4. \E k \in source[at] : k > lastKey
      BY <2>2 DEF Page
    <3>5. /\ Page(at, n) \subseteq source[at]
          /\ Max(Page(at, n)) \in Keys
      BY <3>1, <3>3, <3>4, PageStretch
    <3>6. rows' \in SUBSET Keys /\ lastKey' \in 0..MaxKey
      BY <1>0, <3>1, <3>2, <3>5 DEF Keys
    <3> QED
      BY <1>4, <2>2, <3>6 DEF ScanPage
  <2> QED
    BY <1>4, <2>1, <2>2 DEF ScanPage
<1>5. CASE CompareKeys(p) \/ FetchRows(p)
  BY <1>0, <1>5 DEF CompareKeys, FetchRows
<1>6. CASE InsertRows(p) \/ InsertReplyLost(p) \/ ConfirmInserted(p)
  BY <1>0, <1>6 DEF InsertRows, InsertReplyLost, ConfirmInserted
<1>7. CASE FinalizeTable(p)
  BY <1>0, <1>7 DEF FinalizeTable
<1>8. CASE CallFails(p) \/ EndExecution(p)
  BY <1>0, <1>8 DEF CallFails, EndExecution
<1> QED
  BY <1>1, <1>2, <1>3, <1>4, <1>5, <1>6, <1>7, <1>8, ExecuteCases

(* The structure of the target while CREATE TABLE works through the plan, and
   complete afterwards; tables are never dropped. *)
LEMMA StructureStep ==
  ASSUME TreatedOK, StructureOK, [SyncNext]_vars
  PROVE  StructureOK' /\ exists \subseteq exists'
<1> USE DEF StructureOK, InTable
<1>0. exists \in SUBSET Tables /\ at \in 1..NumTables + 1 /\ NumTables \in Nat
  BY SqlConstants DEF TreatedOK, SyncTypeOK
<1>1. CASE \E p \in running : Execute(p)
  <2> PICK p \in running : Execute(p)
    BY <1>1
  <2> USE DEF Go, Stop
  <2>1. CASE VerifyConnections(p) \/ VerifyTarget(p)
    BY <1>0, <2>1 DEF VerifyConnections, VerifyTarget, Tables, dataVars
  <2>2. CASE CreateTable(p)
    <3> DEFINE todo == {t \in Tables \ plan : t >= at}
    <3>1. CASE todo = {} /\ pc' = "table" /\ at' = 1 /\ exists' = exists /\ plan' = plan
      <4>1. \A t \in Tables : t \in plan \/ t < at
        BY <1>0, <3>1 DEF Tables
      <4> QED
        BY <2>2, <3>1, <4>1 DEF CreateTable
    <3>2. CASE \E t \in todo : /\ \A u \in todo : t <= u
                              /\ plan' = plan
                              /\ \/ pc' = "ending" /\ exists' = exists
                                 \/ pc' = pc /\ exists' = exists \cup {t} /\ at' = t + 1
      <4> PICK t \in todo : /\ \A u \in todo : t <= u
                            /\ plan' = plan
                            /\ \/ pc' = "ending" /\ exists' = exists
                               \/ pc' = pc /\ exists' = exists \cup {t} /\ at' = t + 1
        BY <3>2
      <4>1. \A u \in Tables : u < t + 1 => u \in plan \/ u < at \/ u = t
        BY <1>0 DEF Tables
      <4> QED
        BY <2>2, <4>1 DEF CreateTable
    <3> QED
      BY <2>2, <3>1, <3>2 DEF CreateTable
  <2>3. CASE NextTable(p) \/ ScanPage(p) \/ CompareKeys(p) \/ FetchRows(p)
    BY <2>3 DEF NextTable, ScanPage, CompareKeys, FetchRows, dataVars
  <2>4. CASE InsertRows(p) \/ InsertReplyLost(p) \/ ConfirmInserted(p)
    BY <2>4 DEF InsertRows, InsertReplyLost, ConfirmInserted, dataVars
  <2>5. CASE FinalizeTable(p) \/ CallFails(p) \/ EndExecution(p)
    BY <2>5 DEF FinalizeTable, CallFails, EndExecution, dataVars
  <2> QED
    BY <2>1, <2>2, <2>3, <2>4, <2>5, ExecuteCases
<1>2. CASE \E t \in Tasks : Start(t)
  BY <1>2 DEF Start, dataVars
<1>3. CASE Preflight \/ StartRefused \/ UserStep \/ UNCHANGED vars
  BY <1>3 DEF Preflight, StartRefused, UserStep, vars, dataVars, execVars
<1>4. CASE OtherClients
  BY <1>4 DEF OtherClients, SourceInsert, SourceDelete, TargetInsert, TargetCreate, execVars
<1> QED
  BY <1>1, <1>2, <1>3, <1>4 DEF SyncNext

(* The rest of the types: the source and its history, the tables that exist and
   are linked, and the plans. *)
LEMMA DataTypes ==
  ASSUME TreatedOK, StructureOK, [SyncNext]_vars
  PROVE  /\ engine' \in Engines
         /\ source' \in [Tables -> SUBSET Keys]
         /\ exists' \in SUBSET Tables
         /\ linked' \in SUBSET exists'
         /\ prepared' \in (SUBSET Tables) \cup {NoPlan}
         /\ plan' \in (SUBSET Tables) \cup {NoPlan}
         /\ kept' \in [Tables -> SUBSET Keys]
         /\ others' \in 0..MaxOthers
<1>0. /\ engine \in Engines
      /\ source \in [Tables -> SUBSET Keys]
      /\ exists \in SUBSET Tables
      /\ linked \in SUBSET exists
      /\ prepared \in (SUBSET Tables) \cup {NoPlan}
      /\ plan \in (SUBSET Tables) \cup {NoPlan}
      /\ kept \in [Tables -> SUBSET Keys]
      /\ others \in 0..MaxOthers
      /\ at \in 1..NumTables + 1 /\ NumTables \in Nat /\ MaxOthers \in Nat
  BY SqlConstants DEF TreatedOK, SyncTypeOK
<1>1. CASE \E p \in running : Execute(p)
  <2> PICK p \in running : Execute(p)
    BY <1>1
  <2>1. CASE CreateTable(p)
    <3>1. linked' = linked /\ (exists' = exists \/ \E t \in Tables : exists' = exists \cup {t})
      BY <2>1 DEF CreateTable
    <3> QED
      BY <1>0, <3>1, ExecuteFrame
  <2>2. CASE FinalizeTable(p)
    <3>1. pc = "final" /\ exists' = exists
      BY <2>2 DEF FinalizeTable
    <3>2. linked' = linked \/ (~(at > NumTables) /\ linked' = linked \cup {at})
      <4>1. CASE at > NumTables
        BY <2>2, <4>1 DEF FinalizeTable
      <4>2. CASE ~(at > NumTables)
        <5>1. linked' = IF at \in plan THEN linked ELSE linked \cup {at}
          BY <2>2, <4>2 DEF FinalizeTable
        <5> QED
          BY <4>2, <5>1
      <4> QED
        BY <4>1, <4>2
    <3>3. ~(at > NumTables) => at \in exists
      BY <1>0, <3>1 DEF StructureOK, Tables
    <3> QED
      BY <1>0, <3>1, <3>2, <3>3, ExecuteFrame
  <2>3. CASE ~CreateTable(p) /\ ~FinalizeTable(p)
    BY <1>0, <2>3, ExecuteFrame
  <2> QED
    BY <2>1, <2>2, <2>3
<1>2. CASE \E t \in Tasks : Start(t)
  <2>1. /\ UNCHANGED <<engine, source, exists, linked, others>>
        /\ plan' = prepared /\ prepared' = NoPlan /\ kept' = source
    BY <1>2 DEF Start, dataVars
  <2> QED
    BY <1>0, <2>1
<1>3. CASE Preflight \/ StartRefused \/ UserStep \/ UNCHANGED vars
  <2>1. /\ UNCHANGED <<engine, source, exists, linked, plan, kept, others>>
        /\ prepared' \in {prepared, exists, NoPlan}
    BY <1>3 DEF Preflight, StartRefused, UserStep, vars, dataVars, execVars
  <2> QED
    BY <1>0, <2>1
<1>4. CASE \E t \in Tables, k \in Keys : SourceInsert(t, k) \/ SourceDelete(t, k) \/ TargetInsert(t, k)
  <2> PICK t \in Tables, k \in Keys : SourceInsert(t, k) \/ SourceDelete(t, k) \/ TargetInsert(t, k)
    BY <1>4
  <2>1. CASE SourceInsert(t, k)
    BY <2>1, <1>0 DEF SourceInsert, Other, execVars
  <2>2. CASE SourceDelete(t, k)
    BY <2>2, <1>0 DEF SourceDelete, Other, execVars
  <2>3. CASE TargetInsert(t, k)
    BY <2>3, <1>0 DEF TargetInsert, Other, execVars
  <2> QED
    BY <2>1, <2>2, <2>3
<1>5. CASE \E t \in Tables : TargetCreate(t)
  BY <1>5, <1>0 DEF TargetCreate, Other, execVars
<1> QED
  BY <1>1, <1>2, <1>3, <1>4, <1>5 DEF SyncNext, OtherClients

(* All types, whoever takes the step. *)
LEMMA TreatedStep ==
  ASSUME UseInv, TreatedOK, StructureOK, [SyncNext]_vars
  PROVE  TreatedOK'
<1>1. GateTypeOK'
  BY GateStep, GateInvStep DEF UseInv, GateInv
<1>2. /\ pc' \in {"idle", "ending"} \cup Busy
      /\ at' \in 1..NumTables + 1
      /\ lastKey' \in 0..MaxKey
      /\ rows' \in SUBSET Keys
      /\ deferred' \in BOOLEAN
      /\ outcome' \in {"none"} \cup Terminal
      /\ pc' \in InTable => at' <= NumTables
      /\ pc' = "scan" => rows' = {}
  <2>1. CASE \E p \in running : Execute(p)
    BY <2>1, ExecuteTreated DEF UseInv
  <2>2. CASE \E t \in Tasks : Start(t)
    <3>1. /\ pc' = "connections" /\ at' = 1 /\ lastKey' = 0 /\ rows' = {}
          /\ deferred' = FALSE /\ outcome' = "none"
      BY <2>2 DEF Start
    <3>2. deferred' \in BOOLEAN
      BY <3>1
    <3>3. /\ at' \in 1..NumTables + 1 /\ lastKey' \in 0..MaxKey /\ rows' \in SUBSET Keys
          /\ pc' \notin InTable /\ pc' # "scan" /\ pc' \in Busy
      BY <3>1, SqlConstants DEF Busy, InTable
    <3> QED
      BY <3>1, <3>2, <3>3
  <2>3. CASE UNCHANGED execVars
    BY <2>3 DEF TreatedOK, SyncTypeOK, execVars
  <2> QED
    BY <2>1, <2>2, <2>3, OthersFrame DEF SyncNext
<1>3. target' \in [Tables -> [Keys -> {"none", "foreign", "copied"}]]
  BY TargetStep
<1>4. sequence' \in [Tables -> 0..MaxKey]
  BY SequenceStep
<1> QED
  BY <1>1, <1>2, <1>3, <1>4, DataTypes DEF TreatedOK, SyncTypeOK

-----------------------------------------------------------------------------
(* While a task runs the history only shrinks, and it never leaves the source:
   a row that comes back after a deletion does not count as kept. *)
LEMMA KeptStep ==
  ASSUME TreatedOK, KeptInSource, [SyncNext]_vars
  PROVE  /\ KeptInSource'
         /\ (~ \E t \in Tasks : Start(t)) =>
              \A t \in Tables : kept'[t] \subseteq kept[t]
<1>0. source \in [Tables -> SUBSET Keys] /\ kept \in [Tables -> SUBSET Keys]
  BY DEF TreatedOK, SyncTypeOK
<1> USE DEF KeptInSource
<1>1. CASE UNCHANGED <<source, kept>>
  BY <1>1
<1>2. CASE \E p \in running : Execute(p)
  BY <1>1, <1>2, ExecuteFrame
<1>3. CASE Preflight \/ StartRefused \/ UserStep \/ UNCHANGED vars
  BY <1>1, <1>3 DEF Preflight, StartRefused, UserStep, vars, dataVars
<1>4. CASE \E t \in Tasks : Start(t)
  <2>1. kept' = source /\ source' = source /\ pc' = "connections"
    BY <1>4 DEF Start, dataVars
  <2> QED
    BY <1>4, <2>1
<1>5. CASE \E t \in Tables, k \in Keys : SourceInsert(t, k) \/ TargetInsert(t, k)
  <2> PICK t \in Tables, k \in Keys : SourceInsert(t, k) \/ TargetInsert(t, k)
    BY <1>5
  <2>1. kept' = kept /\ (source' = source \/ source' = [source EXCEPT ![t] = source[t] \cup {k}])
    BY DEF SourceInsert, TargetInsert
  <2> QED
    BY <1>0, <2>1
<1>6. CASE \E t \in Tables, k \in Keys : SourceDelete(t, k)
  <2> PICK t \in Tables, k \in Keys : SourceDelete(t, k)
    BY <1>6
  <2>1. /\ source' = [source EXCEPT ![t] = source[t] \ {k}]
        /\ kept' = [kept EXCEPT ![t] = kept[t] \ {k}]
    BY DEF SourceDelete
  <2> QED
    BY <1>0, <2>1
<1>7. CASE \E t \in Tables : TargetCreate(t)
  BY <1>1, <1>7 DEF TargetCreate
<1> QED
  BY <1>2, <1>3, <1>4, <1>5, <1>6, <1>7 DEF SyncNext, OtherClients

(* Where the executor may come from when it is at work on tables afterwards *)
LEMMA ExecuteMoves ==
  ASSUME NEW p \in running, Execute(p)
  PROVE  /\ pc' = "table" => \/ pc = "create" /\ at' = 1
                             \/ pc = "scan" /\ ScanPage(p)
         /\ pc' \in InTable => pc \in InTable \cup {"table"} /\ at' = at
         /\ pc' = "final" => \/ pc = "final" /\ FinalizeTable(p)
                             \/ pc = "table" /\ at > NumTables /\ at' = 1
         /\ pc' = "ending" /\ outcome' = "Completed" =>
              pc = "final" /\ at > NumTables /\ FinalizeTable(p)
<1> USE DEF InTable, Go, Stop
<1>1. CASE VerifyConnections(p) \/ VerifyTarget(p)
  BY <1>1 DEF VerifyConnections, VerifyTarget
<1>2. CASE CreateTable(p)
  BY <1>2 DEF CreateTable
<1>3. CASE NextTable(p)
  BY <1>3 DEF NextTable
<1>4. CASE ScanPage(p) \/ CompareKeys(p) \/ FetchRows(p)
  BY <1>4 DEF ScanPage, CompareKeys, FetchRows
<1>5. CASE InsertRows(p) \/ InsertReplyLost(p) \/ ConfirmInserted(p)
  BY <1>5 DEF InsertRows, InsertReplyLost, ConfirmInserted
<1>6. CASE FinalizeTable(p)
  BY <1>6 DEF FinalizeTable
<1>7. CASE CallFails(p) \/ EndExecution(p)
  BY <1>7 DEF CallFails, EndExecution
<1> QED
  BY <1>1, <1>2, <1>3, <1>4, <1>5, <1>6, <1>7, ExecuteCases

(* A table is done when a page finds nothing behind the keyset position. *)
LEMMA TableDone ==
  ASSUME TreatedOK, KeptInSource, CurrentKept, NEW p \in running, ScanPage(p), pc' = "table"
  PROVE  at \in Tables /\ at' = at + 1 /\ kept[at] \subseteq Present(at)
<1>1. pc = "scan" /\ at' = at + 1 /\ Page(at, BatchSize) = {}
  BY DEF ScanPage, Go, Stop
<1>2. at \in Tables /\ BatchSize \in Nat \ {0} /\ rows = {} /\ SyncTypeOK
  BY <1>1, SqlConstants DEF TreatedOK, SyncTypeOK, InTable, Tables
<1>3. \A k \in source[at] : ~(k > lastKey)
  BY <1>1, <1>2, PageStretch
<1>4. lastKey \in Nat /\ kept[at] \subseteq source[at] /\ kept[at] \subseteq Nat
  BY <1>2, SqlConstants DEF SyncTypeOK, KeptInSource, Keys
<1>5. \A k \in kept[at] : k <= lastKey
  BY <1>3, <1>4
<1> QED
  BY <1>1, <1>2, <1>5 DEF CurrentKept, InTable

(* Tables that were treated stay complete. *)
LEMMA EarlierStep ==
  ASSUME TreatedOK, KeptInSource, CurrentKept, EarlierKept, [SyncNext]_vars
  PROVE  EarlierKept'
<1>0. at \in Nat
  BY DEF TreatedOK, SyncTypeOK
<1>1. CASE \E p \in running : Execute(p)
  <2> PICK p \in running : Execute(p)
    BY <1>1
  <2>1. SUFFICES ASSUME pc' \in InTable \cup {"table"}, NEW t \in Tables, t < at'
                 PROVE  kept'[t] \subseteq Present(t)'
    BY DEF EarlierKept
  <2>2. kept' = kept /\ Present(t) \subseteq Present(t)'
    BY ExecuteFrame, PresentGrows
  <2>3. CASE pc' \in InTable
    BY <2>1, <2>2, <2>3, ExecuteMoves DEF EarlierKept
  <2>4. CASE pc = "create" /\ at' = 1
    BY <2>1, <2>4 DEF Tables
  <2>5. CASE pc = "scan" /\ ScanPage(p) /\ pc' = "table"
    <3>1. at' = at + 1 /\ kept[at] \subseteq Present(at)
      BY <2>5, TableDone
    <3>2. t = at \/ t < at
      BY <1>0, <2>1, <3>1 DEF Tables
    <3> QED
      BY <2>2, <2>5, <3>1, <3>2 DEF EarlierKept, InTable
  <2> QED
    BY <2>1, <2>3, <2>4, <2>5, ExecuteMoves
<1>2. CASE \E t \in Tasks : Start(t)
  BY <1>2 DEF Start, EarlierKept, InTable
<1>3. CASE Preflight \/ StartRefused \/ UserStep \/ OtherClients \/ UNCHANGED vars
  <2>1. pc' = pc /\ at' = at
    BY <1>3, OthersFrame DEF execVars
  <2>2. \A t \in Tables : kept'[t] \subseteq kept[t] \/ \E u \in Tasks : Start(u)
    BY KeptStep
  <2>3. (\E u \in Tasks : Start(u)) => EarlierKept'
    BY <1>2
  <2>4. \A t \in Tables : Present(t) \subseteq Present(t)'
    BY PresentGrows
  <2> QED
    BY <2>1, <2>2, <2>3, <2>4 DEF EarlierKept
<1> QED
  BY <1>1, <1>2, <1>3 DEF SyncNext

(* What an accepted INSERT does not copy is there already, or clashes. *)
LEMMA WrittenPresent ==
  ASSUME SyncTypeOK, NEW t \in Tables, NEW ks \in SUBSET Keys, target' = Written(t, ks),
         Clashing(t, ks \ Present(t)) = {}
  PROVE  ks \subseteq Present(t)'
<1>1. ASSUME NEW k \in ks PROVE target'[t][k] # "none"
  <2>1. k \notin Present(t) => k \in (ks \ Present(t)) \ Clashing(t, ks)
    BY DEF Clashing
  <2>2. target'[t][k] = IF k \in (ks \ Present(t)) \ Clashing(t, ks)
                        THEN "copied" ELSE target[t][k]
    BY WrittenRows
  <2> QED
    BY <2>1, <2>2 DEF Present
<1> QED
  BY <1>1 DEF Present

(* The page at hand and the target cover the table up to the keyset position. *)
LEMMA CurrentExecute ==
  ASSUME TreatedOK, KeptInSource, CurrentKept, [SyncNext]_vars,
         NEW p \in running, Execute(p), NEW t, t = at, pc' \in InTable,
         NEW k \in kept[t], k <= lastKey'
  PROVE  k \in Present(t)' \cup rows'
<1> USE DEF InTable
<1>0. /\ at' = t /\ t \in Tables /\ BatchSize \in Nat \ {0} /\ MaxKey \in Nat
      /\ k \in source[t] /\ k \in Keys
      /\ lastKey \in Nat /\ rows \in SUBSET Keys /\ engine \in {"mysql", "postgres"}
  <2>1. at' = at /\ pc \in InTable \cup {"table"}
    BY ExecuteMoves
  <2>2. at \in Tables
    <3>1. CASE pc \in InTable
      BY <3>1, SqlConstants DEF TreatedOK, SyncTypeOK, Tables
    <3>2. CASE pc = "table"
      <4>1. pc' = "scan" /\ ~(at > NumTables)
        BY <3>2, ExecuteCases DEF NextTable, Go, Stop, VerifyConnections, VerifyTarget, CreateTable,
           ScanPage, CompareKeys, FetchRows, InsertRows, InsertReplyLost, ConfirmInserted,
           FinalizeTable, CallFails, EndExecution
      <4> QED
        BY <4>1, SqlConstants DEF TreatedOK, SyncTypeOK, Tables
    <3> QED
      BY <2>1, <3>1, <3>2
  <2>3. k \in source[t] /\ k \in Keys
    BY <2>2 DEF KeptInSource, TreatedOK, SyncTypeOK
  <2> QED
    BY <2>1, <2>2, <2>3, SqlConstants DEF TreatedOK, SyncTypeOK
<1>1. pc \in InTable /\ k <= lastKey => k \in Present(t) \cup rows
  BY DEF CurrentKept
<1>2. Present(t) \subseteq Present(t)'
  BY <1>0, PresentGrows
<1>3. CASE NextTable(p)
  <2>1. lastKey' = 0
    BY <1>3 DEF NextTable
  <2> QED
    BY <1>0, <2>1 DEF Keys
<1>4. CASE ScanPage(p)
  <2>1. pc = "scan" /\ rows = {}
    BY <1>4 DEF ScanPage, TreatedOK
  <2>2. PICK n \in 1..BatchSize : rows' = Page(t, n) /\ lastKey' = Max(Page(t, n)) /\ Page(t, BatchSize) # {}
    BY <1>4 DEF ScanPage, Go, Stop
  <2>3. n \in Nat \ {0} /\ SyncTypeOK
    BY <1>0 DEF TreatedOK
  <2>4. Page(t, n) # {}
    <3>1. \E j \in source[t] : j > lastKey
      BY <2>2 DEF Page
    <3> QED
      BY <1>0, <2>3, <3>1, PageStretch
  <2>5. k > lastKey => k \in Page(t, n)
    BY <1>0, <2>2, <2>3, <2>4, PageStretch
  <2>6. k <= lastKey \/ k > lastKey
    BY <1>0 DEF Keys
  <2> QED
    BY <1>1, <1>2, <2>1, <2>2, <2>5, <2>6
<1>5. CASE lastKey' = lastKey /\ rows' = rows /\ pc \in InTable
  BY <1>1, <1>2, <1>5
<1>6. CASE CompareKeys(p)
  <2>1. lastKey' = lastKey /\ pc = "compare" /\ rows \ Present(t) \subseteq rows'
    BY <1>6 DEF CompareKeys, Go, Stop
  <2> QED
    BY <1>1, <1>2, <2>1
<1>7. CASE FetchRows(p)
  <2>1. lastKey' = lastKey /\ pc = "fetch" /\ rows' = rows \cap source[t]
    BY <1>7 DEF FetchRows
  <2> QED
    BY <1>0, <1>1, <1>2, <2>1
<1>8. CASE InsertRows(p)
  <2>1. pc = "insert" /\ lastKey' = lastKey
    BY <1>8 DEF InsertRows
  <2>2. CASE rows' = rows
    BY <1>5, <2>1, <2>2
  <2>3. CASE rows' # rows
    <3>1. ~(engine = "postgres" /\ Clashing(at, rows \ Present(at)) # {}) /\ engine # "mysql"
      BY <1>8, <2>3 DEF InsertRows, Stop
    <3>2. Clashing(t, rows \ Present(t)) = {}
      BY <1>0, <3>1
    <3>3. target' = Written(t, rows)
      BY <1>8, <3>1 DEF InsertRows
    <3>4. rows \subseteq Present(t)'
      BY <1>0, <3>2, <3>3, WrittenPresent DEF TreatedOK
    <3> QED
      BY <1>1, <1>2, <2>1, <3>4
  <2> QED
    BY <2>2, <2>3
<1>9. CASE ConfirmInserted(p)
  <2>1. pc = "confirm" /\ lastKey' = lastKey /\ (rows \subseteq Present(t) \/ rows' = rows)
    BY <1>9 DEF ConfirmInserted
  <2> QED
    BY <1>1, <1>2, <2>1
<1>10. CASE \/ VerifyConnections(p) \/ VerifyTarget(p) \/ CreateTable(p) \/ InsertReplyLost(p)
            \/ FinalizeTable(p) \/ CallFails(p) \/ EndExecution(p)
  BY <1>10 DEF VerifyConnections, VerifyTarget, CreateTable, InsertReplyLost, FinalizeTable,
     CallFails, EndExecution, Stop
<1> QED
  BY <1>3, <1>4, <1>6, <1>7, <1>8, <1>9, <1>10, ExecuteCases

(* The same, whoever takes the step *)
LEMMA CurrentStep ==
  ASSUME TreatedOK, KeptInSource, CurrentKept, [SyncNext]_vars
  PROVE  CurrentKept'
<1>1. CASE \E p \in running : Execute(p)
  <2> PICK p \in running : Execute(p)
    BY <1>1
  <2>1. PICK t : t = at
    OBVIOUS
  <2>2. ASSUME pc' \in InTable
        PROVE  \A k \in kept'[t] : k <= lastKey' => k \in Present(t)' \cup rows'
    <3>1. kept' = kept
      BY ExecuteFrame
    <3> QED
      BY <2>1, <2>2, <3>1, CurrentExecute
  <2>3. pc' \in InTable => at' = t
    BY <2>1, ExecuteMoves
  <2>4. pc' \in InTable => Present(t)' = {k \in Keys : target'[at'][k] # "none"}
    BY <2>3 DEF Present
  <2> QED
    BY <2>2, <2>3, <2>4 DEF CurrentKept, Present
<1>2. CASE \E t \in Tasks : Start(t)
  BY <1>2 DEF Start, CurrentKept, InTable
<1>3. CASE /\ Preflight \/ StartRefused \/ UserStep \/ OtherClients \/ UNCHANGED vars
           /\ ~ \E t \in Tasks : Start(t)
  <2>1. pc' = pc /\ at' = at /\ lastKey' = lastKey /\ rows' = rows
    BY <1>3, OthersFrame DEF execVars
  <2>2. PICK t : t = at
    OBVIOUS
  <2>3. CASE pc \in InTable
    <3>1. t \in Tables
      BY <2>2, <2>3, SqlConstants DEF TreatedOK, SyncTypeOK, Tables
    <3>2. kept'[t] \subseteq kept[t] /\ Present(t) \subseteq Present(t)'
      BY <1>3, <3>1, KeptStep, PresentGrows
    <3>3. \A k \in kept'[t] : k <= lastKey' => k \in Present(t)' \cup rows'
      BY <2>1, <2>2, <2>3, <3>2 DEF CurrentKept
    <3>4. Present(t)' = {k \in Keys : target'[at'][k] # "none"}
      BY <2>1, <2>2 DEF Present
    <3> QED
      BY <2>1, <2>2, <3>3, <3>4 DEF CurrentKept, Present
  <2>4. CASE pc \notin InTable
    BY <2>1, <2>4 DEF CurrentKept
  <2> QED
    BY <2>3, <2>4
<1> QED
  BY <1>1, <1>2, <1>3 DEF SyncNext

-----------------------------------------------------------------------------
(* How a synchronisation comes to be done: the loop over the tables ends, the
   final statements end, or the gate takes the result. *)
LEMMA AllTreatedStep ==
  ASSUME UseInv, [SyncNext]_vars, AllTreated'
  PROVE  \/ AllTreated /\ ~ \E t \in Tasks : Start(t)
         \/ pc = "table" /\ at > NumTables /\ \E p \in running : Execute(p)
<1> USE DEF AllTreated
<1>1. CASE \E p \in running : Execute(p)
  <2> PICK p \in running : Execute(p)
    BY <1>1
  <2>1. phase # "Idle"
    BY DEF UseInv, GateInv, OneExecutor, Working
  <2>2. ~ \E t \in Tasks : Start(t)
    BY <2>1 DEF Start, Begin
  <2>3. phase' = "Completed" => \/ phase = "Completed"
                                \/ pc = "ending" /\ outcome = "Completed"
    <3>1. phase' = phase \/ (EndExecution(p) /\ pc = "ending" /\ phase' = outcome)
      BY ExecuteCases DEF VerifyConnections, VerifyTarget, CreateTable, NextTable, ScanPage,
         CompareKeys, FetchRows, InsertRows, InsertReplyLost, ConfirmInserted, FinalizeTable,
         CallFails, EndExecution, Go, Finish, UpdateProgress, gateVars
    <3> QED
      BY <3>1
  <2> QED
    BY <1>1, <2>2, <2>3, ExecuteMoves
<1>2. CASE \E t \in Tasks : Start(t)
  BY <1>2 DEF Start, Begin
<1>3. CASE /\ Preflight \/ StartRefused \/ UserStep \/ OtherClients \/ UNCHANGED vars
           /\ ~ \E t \in Tasks : Start(t)
  <2>1. pc' = pc /\ outcome' = outcome
    BY <1>3, OthersFrame DEF execVars
  <2>2. phase' = "Completed" => phase = "Completed"
    BY <1>3 DEF Preflight, StartRefused, UserStep, RequestCancel, Cancel, Acknowledge,
       OtherClients, SourceInsert, SourceDelete, TargetInsert, TargetCreate, vars, gateVars
  <2> QED
    BY <1>3, <2>1, <2>2
<1> QED
  BY <1>1, <1>2, <1>3 DEF SyncNext

(* Every table is complete from the end of the loop to the result and beyond. *)
LEMMA AllKeptStep ==
  ASSUME UseInv, TreatedOK, KeptInSource, EarlierKept, AllKept, [SyncNext]_vars
  PROVE  AllKept'
<1> SUFFICES ASSUME AllTreated', NEW t \in Tables
             PROVE  kept'[t] \subseteq Present(t)'
  BY DEF AllKept
<1>1. Present(t) \subseteq Present(t)'
  BY PresentGrows
<1>2. CASE AllTreated /\ ~ \E u \in Tasks : Start(u)
  BY <1>1, <1>2, KeptStep DEF AllKept
<1>3. CASE pc = "table" /\ at > NumTables /\ \E p \in running : Execute(p)
  <2>1. t < at
    BY <1>3, SqlConstants DEF TreatedOK, SyncTypeOK, Tables
  <2>2. kept' = kept
    BY <1>3, ExecuteFrame
  <2> QED
    BY <1>1, <1>3, <2>1, <2>2 DEF EarlierKept
<1> QED
  BY <1>2, <1>3, AllTreatedStep

(* A sequence the final statements set stays ahead of the copied rows. *)
LEMMA AheadStep ==
  ASSUME UseInv, TreatedOK, FinalAhead, [SyncNext]_vars
  PROVE  FinalAhead'
<1> DEFINE done(t) == \/ pc = "final" /\ t < at
                      \/ pc = "ending" /\ outcome = "Completed"
                      \/ phase = "Completed"
<1> SUFFICES ASSUME engine' = "postgres", NEW t \in Tables, NEW k \in Keys,
                    target'[t][k] = "copied", done(t)'
             PROVE  k <= sequence'[t]
  BY DEF FinalAhead
<1>0. /\ sequence \in [Tables -> 0..MaxKey] /\ sequence' \in [Tables -> 0..MaxKey]
      /\ MaxKey \in Nat /\ NumTables \in Nat /\ at \in 1..NumTables + 1
      /\ target \in [Tables -> [Keys -> {"none", "foreign", "copied"}]]
  BY SequenceStep, SqlConstants DEF TreatedOK, SyncTypeOK
<1>1. engine = "postgres"
  <2>1. CASE \E p \in running : Execute(p)
    BY <2>1, ExecuteFrame
  <2>2. CASE \E u \in Tasks : Start(u)
    BY <2>2 DEF Start, dataVars
  <2> QED
    BY <2>1, <2>2, OthersFrame DEF SyncNext
<1>2. sequence[t] <= sequence'[t]
  BY SequenceStep
<1>3. CASE target[t][k] = "copied" /\ done(t)
  <2>1. k <= sequence[t]
    BY <1>1, <1>3 DEF FinalAhead
  <2> QED
    BY <1>0, <1>2, <2>1 DEF Keys
<1>4. AllTreated'
  BY DEF AllTreated
<1>5. ~(pc = "table" /\ at > NumTables /\ \E p \in running : Execute(p))
  <2> SUFFICES ASSUME pc = "table", at > NumTables, NEW p \in running, Execute(p)
               PROVE  FALSE
    OBVIOUS
  <2>1. pc' = "final" /\ at' = 1 /\ phase' = phase /\ outcome' = outcome
    BY ExecuteCases DEF NextTable, Go, Stop, UpdateProgress, VerifyConnections, VerifyTarget,
       CreateTable, ScanPage, CompareKeys, FetchRows, InsertRows, InsertReplyLost,
       ConfirmInserted, FinalizeTable, CallFails, EndExecution
  <2>2. phase \in Working
    BY DEF UseInv, GateInv, OneExecutor
  <2> QED
    BY <1>0, <2>1, <2>2 DEF Working, Tables
<1>6. AllTreated /\ ~ \E u \in Tasks : Start(u)
  BY <1>4, <1>5, AllTreatedStep
<1>7. target[t][k] = "copied"
  <2>1. CASE \E p \in running : Execute(p)
    <3>1. pc # "insert"
      BY <1>6, <2>1 DEF AllTreated, UseInv, GateInv, OneExecutor, Working
    <3> QED
      BY <3>1, TargetStep
  <2>2. CASE ~ \E p \in running : Execute(p)
    BY <2>2, OthersCopyNothing
  <2> QED
    BY <2>1, <2>2
<1>8. CASE ~done(t)
  <2>1. pc = "final" /\ t >= at /\ phase # "Completed"
    BY <1>0, <1>6, <1>8 DEF AllTreated, Tables
  <2>2. pc' = "final" /\ at' # at /\ t < at'
    <3>1. CASE \E p \in running : Execute(p)
      <4> PICK p \in running : Execute(p)
        BY <3>1
      <4>1. phase' = phase \/ pc = "ending"
        BY ExecuteCases DEF VerifyConnections, VerifyTarget, CreateTable, NextTable, ScanPage,
           CompareKeys, FetchRows, InsertRows, InsertReplyLost, ConfirmInserted, FinalizeTable,
           CallFails, EndExecution, Go, UpdateProgress, gateVars
      <4>2. ~(pc' = "ending" /\ outcome' = "Completed")
        BY <1>0, <2>1, ExecuteMoves DEF Tables
      <4>3. phase' # "Completed"
        BY <2>1, <4>1
      <4>4. pc' = "final" /\ t < at'
        BY <4>2, <4>3
      <4> QED
        BY <1>0, <2>1, <4>4 DEF Tables
    <3>2. CASE Preflight \/ StartRefused \/ UserStep \/ OtherClients \/ UNCHANGED vars
      <4>1. pc' = pc /\ at' = at /\ outcome' = outcome
        BY <3>2, OthersFrame DEF execVars
      <4>2. phase' = "Completed" => phase = "Completed"
        BY <3>2 DEF Preflight, StartRefused, UserStep, RequestCancel, Cancel, Acknowledge,
           OtherClients, SourceInsert, SourceDelete, TargetInsert, TargetCreate, vars, gateVars
      <4> QED
        BY <1>8, <4>1, <4>2
    <3> QED
      BY <1>6, <3>1, <3>2 DEF SyncNext
  <2>3. at' = at + 1 /\ at <= NumTables
    <3>1. \E p \in running : FinalizeTable(p)
      <4>1. ~(Preflight \/ StartRefused \/ UserStep \/ OtherClients \/ UNCHANGED vars)
        BY <2>2, OthersFrame DEF execVars
      <4>2. PICK p \in running : Execute(p)
        BY <1>6, <4>1 DEF SyncNext
      <4> QED
        BY <2>1, <2>2, <4>2, ExecuteMoves
    <3> QED
      BY <1>0, <2>2, <3>1 DEF FinalizeTable
  <2>4. t = at
    BY <1>0, <2>1, <2>2, <2>3 DEF Tables
  <2>5. k \in Present(at)
    BY <1>7, <2>4 DEF Present
  <2>6. k <= sequence'[at]
    BY <1>1, <2>1, <2>2, <2>5, SequenceStep
  <2> QED
    BY <2>4, <2>6
<1> QED
  BY <1>3, <1>7, <1>8

-----------------------------------------------------------------------------
(* Before anything happened *)
LEMMA CopyInit == SyncInit => CopyInv
<1> SUFFICES ASSUME SyncInit PROVE CopyInv
  OBVIOUS
<1> USE DEF SyncInit
<1>1. MaxKey \in Nat \ {0} /\ NumTables \in Nat \ {0} /\ MaxOthers \in Nat
  BY SqlConstants
<1>2. \A t \in Tables : Max(Present(t) \cup {0}) \in 0..MaxKey
  <2>1. 0 \in 0..MaxKey
    BY <1>1
  <2> QED
    BY <2>1, PresentKeys, SequenceMax
<1>3. sequence \in [Tables -> 0..MaxKey]
  BY <1>2
<1>4. target \in [Tables -> [Keys -> {"none", "foreign", "copied"}]]
  OBVIOUS
<1>5. GateTypeOK
  BY GateInit_GateInv DEF GateInv
<1>6. /\ at \in 1..NumTables + 1 /\ lastKey \in 0..MaxKey /\ rows \in SUBSET Keys
      /\ others \in 0..MaxOthers
      /\ pc \in {"idle", "ending"} \cup Busy
      /\ prepared \in (SUBSET Tables) \cup {NoPlan} /\ plan \in (SUBSET Tables) \cup {NoPlan}
      /\ kept \in [Tables -> SUBSET Keys]
  BY <1>1
<1>9. deferred \in BOOLEAN
  OBVIOUS
<1>7. SyncTypeOK
  BY <1>3, <1>4, <1>5, <1>6, <1>9 DEF SyncTypeOK
<1>8. phase = "Idle"
  BY DEF GateInit
<1> QED
  BY <1>7, <1>8 DEF CopyInv, TreatedOK, StructureOK, EarlierKept, CurrentKept, AllKept, AllTreated,
     KeptInSource, FinalAhead, InTable

(* The invariant of the copy: what a synchronisation has achieved at each point
   of its way through the tables, whatever other clients do meanwhile. *)
THEOREM Copying == SyncSpec => []CopyInv
<1>1. UseInv /\ CopyInv /\ [SyncNext]_vars => CopyInv'
  <2> SUFFICES ASSUME UseInv, CopyInv, [SyncNext]_vars PROVE CopyInv'
    OBVIOUS
  <2> QED
    BY TreatedStep, StructureStep, EarlierStep, CurrentStep, AllKeptStep, KeptStep, AheadStep
    DEF CopyInv
<1> QED
  BY <1>1, CopyInit, UsesGate, PTL DEF SyncSpec

(* The variables keep their types (sql_sync.rs, gate.rs). *)
THEOREM SyncTypes == SyncSpec => []SyncTypeOK
<1>1. CopyInv => SyncTypeOK
  BY DEF CopyInv, TreatedOK
<1> QED
  BY <1>1, Copying, PTL

(* A completed synchronisation copied every row that stayed in the source, with
   any page size and whatever was inserted or deleted around it
   (sql_sync.rs, io.rs:211). *)
THEOREM NoRowLost == SyncSpec => []CompletedIsComplete
<1>1. CopyInv => CompletedIsComplete
  BY DEF CopyInv, AllKept, AllTreated, CompletedIsComplete
<1> QED
  BY <1>1, Copying, PTL

(* After a completed PostgreSQL synchronisation the next key of every sequence
   is free of copied rows (sql_preflight/ddl.rs, setval). *)
THEOREM SequencesMoved == SyncSpec => []SequencesAhead
<1>1. CopyInv => SequencesAhead
  BY DEF CopyInv, FinalAhead, SequencesAhead
<1> QED
  BY <1>1, Copying, PTL

(* Rows of other clients are never written, also when they appeared between the
   comparison and the insert (io.rs:226). *)
THEOREM ForeignRowsStay == SyncSpec => NothingOverwritten
<1>1. CopyInv /\ [SyncNext]_vars =>
        [\A t \in Tables, k \in Keys : target[t][k] = "foreign" => target'[t][k] = "foreign"]_vars
  BY TargetStep DEF CopyInv
<1> QED
  BY <1>1, Copying, PTL DEF SyncSpec, NothingOverwritten

-----------------------------------------------------------------------------
(* A synchronisation implements DataCopy *)

(* Before the first task nothing was begun, and every row of the target is
   somebody else's. *)
LEMMA CopyStarts == SyncInit => Copy!Init
BY DEF SyncInit, GateInit, Copy!Init

(* What the executor's own steps are to the copy, apart from the two inserts and
   the end: nothing. *)
LEMMA ExecuteQuiet ==
  ASSUME NEW p, Execute(p), ~(InsertRows(p) \/ InsertReplyLost(p) \/ EndExecution(p))
  PROVE  UNCHANGED <<source, target, kept, phase>>
<1>1. UNCHANGED <<source, target, kept>>
  BY ExecuteFrame
<1>2. phase' = phase
  BY ExecuteCases DEF VerifyConnections, VerifyTarget, CreateTable, NextTable, ScanPage,
     CompareKeys, FetchRows, ConfirmInserted, FinalizeTable, CallFails, Go, UpdateProgress,
     gateVars
<1> QED
  BY <1>1, <1>2

(* An INSERT adds what is missing of its page and clashes with nothing; or it is
   rejected, and nothing happened. *)
LEMMA InsertAdds ==
  ASSUME TreatedOK, NEW p, InsertRows(p) \/ InsertReplyLost(p), phase \in Working
  PROVE  (\E t \in Tables, ks \in SUBSET Keys : Copy!Add(t, ks)) \/ UNCHANGED Copy!vars
<1>1. pc = "insert" /\ UNCHANGED <<source, kept, phase>>
  BY DEF InsertRows, InsertReplyLost, Stop, UpdateProgress
<1>2. at \in Tables /\ rows \in SUBSET Keys
  BY <1>1, SqlConstants DEF TreatedOK, SyncTypeOK, InTable, Tables
<1>3. CASE target' = target
  BY <1>1, <1>3 DEF Copy!vars
<1>4. CASE target' = Written(at, rows)
  <2> DEFINE free == (rows \ Present(at)) \ Clashing(at, rows)
  <2>1. target' = [target EXCEPT ![at] = [k \in Keys |-> IF k \in free THEN "copied" ELSE @[k]]]
    BY <1>4 DEF Written
  <2>2. free \in SUBSET Keys /\ free \subseteq Copy!Missing(at)
    BY <1>2 DEF Present, Copy!Missing
  <2>3. phase # "Idle" /\ phase' = phase
    BY <1>1 DEF Working
  <2> HIDE DEF free
  <2>4. Copy!Add(at, free)
    BY <1>1, <2>1, <2>2, <2>3 DEF Copy!Add
  <2> QED
    BY <1>2, <2>2, <2>4
<1> QED
  BY <1>3, <1>4 DEF InsertRows, InsertReplyLost

(* execute() reports its result: success only with every kept row in the target
   (AllKept), anything else is giving up. *)
LEMMA EndReports ==
  ASSUME UseInv, CopyInv, NEW p \in running, EndExecution(p)
  PROVE  Copy!Succeed \/ Copy!GiveUp
<1>1. /\ pc = "ending" /\ outcome \in Terminal
      /\ p = holder /\ phase \in Working
  BY DEF EndExecution, UseInv, GateInv, OneExecutor
<1>2. phase' = outcome /\ UNCHANGED <<source, target, kept>>
  BY <1>1 DEF EndExecution, Finish, Current, Working, dataVars
<1>3. CASE outcome = "Completed"
  <2>1. \A t \in Tables : kept[t] \subseteq Present(t)
    BY <1>1, <1>3 DEF CopyInv, AllKept, AllTreated
  <2>2. \A t \in Tables : kept[t] \cap Copy!Missing(t) = {}
    BY <2>1 DEF Present, Copy!Missing
  <2> QED
    BY <1>1, <1>2, <1>3, <2>2 DEF Copy!Succeed, Working
<1>4. CASE outcome \in {"Failed", "Cancelled"}
  BY <1>1, <1>2, <1>4 DEF Copy!GiveUp, Working
<1> QED
  BY <1>1, <1>3, <1>4 DEF Terminal

(* Each step of the executor, of the user and of the databases' other clients is
   at most one step of the copy. *)
LEMMA CopyStep ==
  ASSUME UseInv, CopyInv, [SyncNext]_vars
  PROVE  [Copy!Next]_(Copy!vars)
<1>1. CASE \E p \in running : Execute(p)
  <2> PICK p \in running : Execute(p)
    BY <1>1
  <2>1. phase \in Working
    BY DEF UseInv, GateInv, OneExecutor
  <2>2. CASE InsertRows(p) \/ InsertReplyLost(p)
    BY <2>1, <2>2, InsertAdds DEF CopyInv, Copy!Next
  <2>3. CASE EndExecution(p)
    BY <2>3, EndReports DEF Copy!Next
  <2>4. CASE ~(InsertRows(p) \/ InsertReplyLost(p) \/ EndExecution(p))
    BY <2>4, ExecuteQuiet DEF Copy!vars
  <2> QED
    BY <2>2, <2>3, <2>4
<1>2. CASE \E t \in Tasks : Start(t)
  <2>1. phase = "Idle" /\ phase' = "Running" /\ kept' = source /\ UNCHANGED <<source, target>>
    BY <1>2 DEF Start, Begin, dataVars
  <2> QED
    BY <2>1 DEF Copy!Next, Copy!Begin, Working
<1>3. CASE UserStep
  <2>1. /\ UNCHANGED <<source, target, kept>>
        /\ \/ phase' = phase
           \/ phase = "Running" /\ phase' = "Cancelling"
           \/ phase \in Terminal /\ phase' = "Idle"
    BY <1>3 DEF UserStep, RequestCancel, Cancel, Acknowledge, dataVars
  <2>2. CASE phase \in Terminal /\ phase' = "Idle"
    BY <2>1, <2>2 DEF Copy!Next, Copy!Confirm, Terminal, Working
  <2>3. CASE phase' = phase \/ (phase = "Running" /\ phase' = "Cancelling")
    BY <2>1, <2>3 DEF Copy!vars, Working
  <2> QED
    BY <2>1, <2>2, <2>3
<1>4. CASE \E t \in Tables, k \in Keys : SourceInsert(t, k)
  BY <1>4 DEF SourceInsert, gateVars, Copy!Next, Copy!SourceGrows
<1>5. CASE \E t \in Tables, k \in Keys : SourceDelete(t, k)
  BY <1>5 DEF SourceDelete, gateVars, Copy!Next, Copy!SourceShrinks
<1>6. CASE \E t \in Tables, k \in Keys : TargetInsert(t, k)
  BY <1>6 DEF TargetInsert, gateVars, Copy!Next, Copy!TargetGrows, Copy!Missing
<1>7. CASE Preflight \/ StartRefused \/ (\E t \in Tables : TargetCreate(t)) \/ UNCHANGED vars
  BY <1>7 DEF Preflight, StartRefused, TargetCreate, vars, dataVars, gateVars, Copy!vars
<1> QED
  BY <1>1, <1>2, <1>3, <1>4, <1>5, <1>6, <1>7 DEF SyncNext, OtherClients

(* From outside a synchronisation is one copy after the other, each of which adds
   missing rows only and succeeds only when it is complete, with any page size and
   however its calls fall between those of other clients (sql_sync.rs, io.rs). *)
THEOREM SyncIsCopy == SyncSpec => ImplementsCopy
<1>1. UseInv /\ CopyInv /\ [SyncNext]_vars => [Copy!Next]_(Copy!vars)
  BY CopyStep
<1> QED
  BY <1>1, CopyStarts, UsesGate, Copying, PTL DEF SyncSpec, Copy!Spec, ImplementsCopy
=============================================================================
