--------------------------- MODULE PoolCacheProofs ---------------------------
(***************************************************************************)
(* The invariants of PoolCache, for any number of requests, databases,     *)
(* evictions and limits.  None is inductive alone.  That a retired pool is *)
(* always swept rests on generations being drawn from a clock that is      *)
(* ahead of every generation in use (ClockOK) and on what a program        *)
(* counter says of the locals of a request (LocalsOK); that no two         *)
(* requests build for one current key on the lock of a current key being   *)
(* the one in its entry (LocksOK); the limit on the order of last use      *)
(* being total (OrderOK), so that a list of the n oldest has n members.    *)
(***************************************************************************)
EXTENDS PoolCache, FiniteSetTheorems, TLAPS

(* Where a request has an Arc of the lock of its key; where Redis looks at its limit; the
   evictions that have not retired a generation yet; the pools the limit counts *)
WithLock == {"lock", "recheck", "own", "build", "admit", "put", "confirm", "undo"}
Trimming == {"enforce", "trim"}
Pending  == {p \in Processes : pc[p] \in {"evict", "retire"}}
Limited  == {d \in Databases : pools[d] # NoPool /\ pools[d].gen = generation}

KeyOf(r) == [db |-> db[r], gen |-> gen[r]]

(* Generations are drawn from a clock that counts the evictions. *)
ClockOK ==
  /\ generation \in {None, clock}
  /\ clock + Cardinality(Pending) <= evicts + (IF generation = None THEN 0 ELSE 1)
  /\ \A p \in Processes : gen[p] <= clock
  /\ \A d \in Databases : pools[d].gen <= clock

(* What the program counter of a request says of its locals *)
Local(r) ==
  /\ pc[r] \in WithLock \cup Trimming \cup {"look", "key"} => gen[r] # None
  /\ pc[r] \in WithLock => lock[r] # NoLock
  /\ lock[r] # NoLock => pc[r] \in WithLock \cup Trimming /\ lock[r].key = KeyOf(r)
  /\ pc[r] \in {"admit", "put"} => served[r] = Own(r)
  /\ pc[r] = "undo" => ~ Current(r)
  /\ pc[r] \in {"slot", "waiting", "statement", "take"} => target[r] \in Requests
  /\ db[r] \in Dbs

(* An eviction sweeps a generation it has retired. *)
Retired(p) == pc[p] \in {"forget", "sweep"} => gen[p] \notin {None, generation}

LocalsOK ==
  /\ pc[View] \in {"done", "evict", "retire", "forget", "sweep", "clear"}
  /\ \A r \in Requests : Local(r)
  /\ \A p \in Processes : Retired(p)
  /\ \A d \in Databases : pools[d] # NoPool => d \in Dbs

(* One request holds a lock, and the lock of a current key is the one in its entry. *)
LocksOK ==
  /\ \A k \in Keys : locks[k] # NoLock => locks[k].key = k
  /\ \A q, r \in Requests : lock[q] = lock[r] /\ Holding(q) /\ Holding(r) => q = r
  /\ \A q \in Requests : lock[q] # NoLock /\ Current(q) => locks[KeyOf(q)] = lock[q]

(* used-before is a strict total order on the databases with a pool *)
OrderOK ==
  \A d, e \in Databases :
    /\ <<d, e>> \in older => d # e /\ <<e, d>> \notin older /\ pools[d] # NoPool /\ pools[e] # NoPool
    /\ d # e /\ pools[d] # NoPool /\ pools[e] # NoPool => <<d, e>> \in older \/ <<e, d>> \in older
    /\ \A f \in Databases : <<d, e>> \in older /\ <<e, f>> \in older => <<d, f>> \in older

(* Over the limit, somebody has still to enforce it, or has begun to and will reach it. *)
Enforcing(r) ==
  /\ gen[r] = generation
  /\ \/ pc[r] \in {"confirm", "enforce"}
     \/ pc[r] = "trim" /\ Cardinality(Limited \ todo[r]) <= MaxCached

LimitOK ==
  driver = "redis" /\ Cardinality(Limited) > MaxCached => \E r \in Requests : Enforcing(r)

CacheInv == TypeOK /\ ClockOK /\ LocalsOK /\ LocksOK /\ OrderOK /\ LimitOK /\ RetiredIsSwept

-----------------------------------------------------------------------------
(* The clock stays within the generations of the model. *)
LEMMA ClockBound ==
  ASSUME TypeOK, ClockOK
  PROVE  clock + Cardinality(Pending) <= MaxEvicts + 1 /\ (generation = None => clock + 1 \in Generations)
<1>1. IsFiniteSet(Processes) /\ Pending \subseteq Processes
  BY PoolConstants, FS_AddElement DEF Processes, Pending
<1>2. Cardinality(Pending) \in Nat
  BY <1>1, FS_Subset, FS_CardinalityType
<1> QED
  BY <1>2, PoolConstants DEF ClockOK, TypeOK, Generations, None

(* The databases of the driver are databases. *)
LEMMA DbsTyped == AnyDb \in Databases /\ Dbs \subseteq Databases /\ AnyDb \in Dbs
  BY PoolConstants DEF AnyDb, Dbs

(* The helpers of the actions keep the types. *)
LEMMA EndTyped ==
  ASSUME TypeOK, NEW r \in Requests, NEW last \in PCs, End(r, last)
  PROVE  /\ pc' \in [Processes -> PCs]
         /\ op' \in [Requests -> {"none", "call", "begin", "execute", "finish"}]
         /\ db' \in [Requests -> Databases]
         /\ gen' \in [Processes -> Generations]
         /\ served' \in [Requests -> Pools \cup {NoPool}]
         /\ target' \in [Requests -> Processes]
         /\ retried' \subseteq Requests
  BY DbsTyped, PoolConstants DEF TypeOK, End, Goto, Generations, None, Nobody, Processes

(* A program counter moves among the known ones. *)
LEMMA GotoTyped ==
  ASSUME TypeOK, NEW p \in Processes, NEW next \in PCs, Goto(p, next)
  PROVE  pc' \in [Processes -> PCs]
  BY DEF TypeOK, Goto

(* A request leaves with a pool or without, and with no lock. *)
LEMMA ReturnTyped ==
  ASSUME TypeOK, NEW r \in Requests, NEW pool \in Pools \cup {NoPool}, Return(r, pool)
  PROVE  /\ pc' \in [Processes -> PCs]
         /\ served' \in [Requests -> Pools \cup {NoPool}]
         /\ lock' \in [Requests -> Locks]
  BY DEF TypeOK, Return, Goto, Locks, PCs, Processes

(* The order of last use is one of databases. *)
LEMMA TouchTyped ==
  ASSUME TypeOK, NEW d \in Databases, Touch(d)
  PROVE  older' \subseteq Databases \X Databases /\ todo' \in [Processes -> SUBSET Databases]
  BY DEF TypeOK, Touch, Without

(* A pool that goes leaves a well-typed cache. *)
LEMMA DropTyped ==
  ASSUME TypeOK, NEW d \in Databases, Drop(d)
  PROVE  older' \subseteq Databases \X Databases /\ pools' \in [Databases -> Pools \cup {NoPool}]
  BY DEF TypeOK, Drop, Without

(* An eviction that ends forgets its generation. *)
LEMMA EvictedTyped ==
  ASSUME TypeOK, NEW p \in Processes, Evicted(p)
  PROVE  pc' \in [Processes -> PCs] /\ gen' \in [Processes -> Generations]
  BY PoolConstants DEF TypeOK, Evicted, Goto, Generations, None, PCs

(* Every step keeps the types; of the rest of the invariant it needs the clock, so that
   a generation is drawn within the bound, and the locals. *)
LEMMA TypeStep ==
  ASSUME CacheInv, [Next]_vars
  PROVE  TypeOK'
<1> USE DEF cacheVars, txVars, requestVars
<1>0. TypeOK /\ ClockOK /\ LocalsOK
  BY DEF CacheInv
<1>a. Requests \subseteq Processes /\ View \in Processes
  BY DEF Processes
<1>1. ASSUME NEW r \in Requests, NEW o \in Ops, NEW d \in Dbs, NEW t \in Processes, Start(r, o, d, t)
      PROVE  TypeOK'
  <2>1. op' \in [Requests -> {"none", "call", "begin", "execute", "finish"}]
    BY <1>0, <1>1 DEF Start, TypeOK, Ops
  <2>2. db' \in [Requests -> Databases]
    BY <1>0, <1>1, DbsTyped DEF Start, TypeOK
  <2>3. target' \in [Requests -> Processes]
    BY <1>0, <1>1 DEF Start, TypeOK
  <2>4. pc' \in [Processes -> PCs]
    BY <1>0, <1>1 DEF Start, TypeOK, Goto, PCs
  <2> QED
    BY <1>0, <1>1, <2>1, <2>2, <2>3, <2>4 DEF Start, TypeOK
<1>2. ASSUME NEW r \in Requests, Draw(r) PROVE TypeOK'
  <2>1. generation' \in Generations /\ clock' \in Generations /\ gen' \in [Processes -> Generations]
    BY <1>0, <1>2, ClockBound DEF Draw, TypeOK, Generations, None
  <2>2. pc' \in [Processes -> PCs]
    BY <1>0, <1>2 DEF Draw, TypeOK, Goto, PCs
  <2> QED
    BY <1>0, <1>2, <2>1, <2>2 DEF Draw, TypeOK
<1>3. ASSUME NEW r \in Requests, Look(r) PROVE TypeOK'
  <2>1. CASE Hit(r)
    BY <1>0, <1>a, <1>3, <2>1, TouchTyped DEF Look, TypeOK, Goto, PCs
  <2>2. CASE ~ Hit(r)
    BY <1>0, <1>a, <1>3, <2>2 DEF Look, TypeOK, Goto, PCs
  <2> QED
    BY <2>1, <2>2
<1>4. ASSUME NEW r \in Requests, Key(r) PROVE TypeOK'
  <2>1. Collected \in [Keys -> Locks]
    BY <1>0 DEF Collected, TypeOK, Locks
  <2>2. KeyOf(r) \in Keys
    BY <1>0, <1>a, <1>4 DEF KeyOf, Key, LocalsOK, Local, TypeOK, Keys
  <2> DEFINE arc == IF Collected[KeyOf(r)] = NoLock THEN [of |-> r, key |-> KeyOf(r)] ELSE Collected[KeyOf(r)]
  <2>3. arc \in Locks
    BY <2>1, <2>2 DEF Locks
  <2>4. locks' \in [Keys -> Locks] /\ lock' \in [Requests -> Locks]
    <3>1. locks' = [Collected EXCEPT ![KeyOf(r)] = arc] /\ lock' = [lock EXCEPT ![r] = arc]
      BY <1>4 DEF Key, KeyOf
    <3> QED
      BY <1>0, <2>1, <2>2, <2>3, <3>1 DEF TypeOK
  <2>5. pc' \in [Processes -> PCs]
    BY <1>0, <1>4 DEF Key, TypeOK, Goto, PCs
  <2> QED
    BY <1>0, <1>4, <2>4, <2>5 DEF Key, TypeOK
<1>5. ASSUME NEW r \in Requests, Lock(r) PROVE TypeOK'
  BY <1>0, <1>5 DEF Lock, TypeOK, Goto, PCs
<1>6. ASSUME NEW r \in Requests, Recheck(r) PROVE TypeOK'
  <2>1. CASE Current(r) /\ Hit(r) /\ driver = "redis"
    BY <1>0, <1>6, <2>1, TouchTyped DEF Recheck, TypeOK, Goto, PCs
  <2>2. CASE Current(r) /\ Hit(r) /\ driver # "redis"
    BY <1>0, <1>6, <2>2, TouchTyped, ReturnTyped DEF Recheck, TypeOK
  <2>3. CASE ~ (Current(r) /\ Hit(r))
    BY <1>0, <1>6, <2>3 DEF Recheck, TypeOK, Goto, PCs
  <2> QED
    BY <2>1, <2>2, <2>3
<1>7. ASSUME NEW r \in Requests, Build(r) PROVE TypeOK'
  <2>1. Own(r) \in Pools
    BY <1>0, <1>a, <1>7 DEF Own, Pools, Build, TypeOK, LocalsOK, Local, WithLock
  <2>2. /\ served' \in [Requests -> Pools \cup {NoPool}]
        /\ lock' \in [Requests -> Locks]
    BY <1>0, <1>7, <2>1 DEF Build, Return, TypeOK, Locks
  <2>3. pc' \in [Processes -> PCs]
    BY <1>0, <1>7 DEF Build, Return, Goto, TypeOK, PCs
  <2> QED
    BY <1>0, <1>7, <2>2, <2>3 DEF Build, TypeOK
<1>8. ASSUME NEW r \in Requests, Admit(r) PROVE TypeOK'
  <2>1. CASE Current(r)
    BY <1>0, <1>8, <2>1 DEF Admit, TypeOK, Goto, PCs
  <2>2. CASE ~ Current(r)
    BY <1>0, <1>8, <2>2, ReturnTyped DEF Admit, TypeOK
  <2> QED
    BY <2>1, <2>2
<1>9. ASSUME NEW r \in Requests, Put(r) PROVE TypeOK'
  <2>1. CASE Newer(r)
    BY <1>0, <1>9, <2>1, ReturnTyped DEF Put, TypeOK
  <2>2. CASE ~ Newer(r)
    <3>1. served[r] \in Pools
      BY <1>0, <1>a, <1>9 DEF Put, TypeOK, LocalsOK, Local, WithLock, Own, Pools
    <3> QED
      BY <1>0, <1>9, <2>2, <3>1, TouchTyped DEF Put, TypeOK, Goto, PCs
  <2> QED
    BY <2>1, <2>2
<1>10. ASSUME NEW r \in Requests, Confirm(r) PROVE TypeOK'
  <2>1. pc' \in [Processes -> PCs] /\ served' \in [Requests -> Pools \cup {NoPool}] /\ lock' \in [Requests -> Locks]
    BY <1>0, <1>10 DEF Confirm, TypeOK, Goto, Return, PCs, Locks
  <2> QED
    BY <1>0, <1>10, <2>1 DEF Confirm, TypeOK
<1>11. ASSUME NEW r \in Requests, Undo(r) PROVE TypeOK'
  <2>1. older' \subseteq Databases \X Databases /\ pools' \in [Databases -> Pools \cup {NoPool}]
    BY <1>0, <1>11, DropTyped DEF Undo, TypeOK
  <2> QED
    BY <1>0, <1>11, <2>1, ReturnTyped DEF Undo, TypeOK
<1>12. ASSUME NEW r \in Requests, Enforce(r) PROVE TypeOK'
  <2>1. Oldest(r, Surplus(r)) \subseteq Databases
    BY DEF Oldest
  <2> QED
    BY <1>0, <1>12, <2>1 DEF Enforce, TypeOK, Goto, PCs
<1>13. ASSUME NEW r \in Requests, Trim(r) PROVE TypeOK'
  <2>1. CASE todo[r] = {} /\ Return(r, served[r]) /\ UNCHANGED <<pools, older, todo>>
    BY <1>0, <1>13, <2>1, ReturnTyped DEF Trim, TypeOK
  <2>2. ASSUME NEW d \in todo[r],
               /\ todo' = [todo EXCEPT ![r] = todo[r] \ {d}]
               /\ IF pools[d].gen = gen[r] THEN Drop(d) ELSE UNCHANGED <<pools, older>>
               /\ UNCHANGED <<pc, lock, served>>
        PROVE  TypeOK'
    <3>1. todo[r] \subseteq Databases /\ todo' \in [Processes -> SUBSET Databases]
      BY <1>0, <1>a, <2>2 DEF TypeOK
    <3>2. older' \subseteq Databases \X Databases /\ pools' \in [Databases -> Pools \cup {NoPool}]
      BY <1>0, <2>2, <3>1, DropTyped DEF TypeOK
    <3> QED
      BY <1>0, <1>13, <2>2, <3>1, <3>2 DEF Trim, TypeOK
  <2> QED
    BY <1>13, <2>1, <2>2 DEF Trim
<1>14. ASSUME NEW r \in Requests, Use(r) PROVE TypeOK'
  <2>1. CASE End(r, "done")
    <3>1. "done" \in PCs
      BY DEF PCs
    <3> QED
      BY <1>0, <1>14, <2>1, <3>1, EndTyped DEF Use, TypeOK
  <2>2. CASE (Goto(r, "failed") \/ Goto(r, "count")) /\ UNCHANGED <<requestVars, gen, served, retried>>
    <3>1. pc' \in [Processes -> PCs]
      BY <1>0, <2>2 DEF TypeOK, Goto, PCs
    <3> QED
      BY <1>0, <1>14, <2>2, <3>1 DEF Use, TypeOK
  <2> QED
    BY <1>14, <2>1, <2>2 DEF Use
<1>15. ASSUME NEW r \in Requests, Fail(r) PROVE TypeOK'
  <2>1. CASE End(r, "done") /\ UNCHANGED evicts
    <3>1. "done" \in PCs
      BY DEF PCs
    <3> QED
      BY <1>0, <1>15, <2>1, <3>1, EndTyped DEF Fail, TypeOK
  <2>2. CASE /\ evicts < MaxEvicts /\ evicts' = evicts + 1 /\ retried' = retried \cup {r}
             /\ served' = [served EXCEPT ![r] = NoPool] /\ Goto(r, "evict")
             /\ UNCHANGED <<requestVars, gen>>
    <3>1. evicts' \in 0..MaxEvicts
      BY <1>0, <2>2, PoolConstants DEF TypeOK
    <3> QED
      BY <1>0, <1>15, <2>2, <3>1 DEF Fail, TypeOK, Goto, PCs
  <2> QED
    BY <1>15, <2>1, <2>2 DEF Fail
<1>16. ASSUME NEW r \in Requests, Count(r) \/ Store(r) \/ Statement(r) \/ Take(r) PROVE TypeOK'
  <2>1. active' \subseteq Requests /\ taken' \subseteq Requests
    <3>1. target[r] \in Requests \/ ~ Take(r)
      BY <1>0, <1>16 DEF Take, TypeOK, LocalsOK, Local
    <3> QED
      BY <1>0, <1>16, <3>1 DEF Count, Store, Statement, Take, TypeOK
  <2>2. CASE \E last \in {"done", "begun"} : End(r, last)
    <3>1. {"done", "begun"} \subseteq PCs
      BY DEF PCs
    <3> QED
      BY <1>0, <1>16, <2>1, <2>2, <3>1, EndTyped DEF Count, Store, Statement, Take, TypeOK
  <2>3. CASE (Goto(r, "store") \/ Goto(r, "statement")) /\ UNCHANGED <<requestVars, gen, served, retried>>
    BY <1>0, <1>16, <2>1, <2>3 DEF Count, Store, Statement, Take, TypeOK, Goto, PCs
  <2> QED
    BY <1>16, <2>2, <2>3 DEF Count, Store, Statement, Take
<1>17. ASSUME NEW r \in Requests, Slot(r) PROVE TypeOK'
  <2>1. active' \subseteq Requests
    BY <1>0, <1>17 DEF Slot, TypeOK
  <2>2. CASE target[r] \in active
    BY <1>0, <1>17, <2>1, <2>2 DEF Slot, TypeOK, Goto, PCs
  <2>3. CASE target[r] \notin active
    <3>1. "done" \in PCs
      BY DEF PCs
    <3> QED
      BY <1>0, <1>17, <2>1, <2>3, <3>1, EndTyped DEF Slot, TypeOK
  <2> QED
    BY <2>2, <2>3
<1>18. CASE Ask
  <2>1. evicts' \in 0..MaxEvicts
    BY <1>0, <1>18, PoolConstants DEF Ask, TypeOK
  <2> QED
    BY <1>0, <1>a, <1>18, <2>1 DEF Ask, TypeOK, Goto, PCs
<1>19. ASSUME NEW p \in Processes, Evict(p) PROVE TypeOK'
  <2>1. CASE Evicted(p)
    BY <1>0, <1>19, <2>1, EvictedTyped DEF Evict, TypeOK
  <2>2. CASE ~ Evicted(p)
    BY <1>0, <1>19, <2>2 DEF Evict, TypeOK, Goto, PCs
  <2> QED
    BY <2>1, <2>2
<1>20. ASSUME NEW p \in Processes, Retire(p) PROVE TypeOK'
  <2>1. generation' \in Generations
    BY PoolConstants, <1>20 DEF Retire, Generations, None
  <2>2. pc' \in [Processes -> PCs] /\ gen' \in [Processes -> Generations]
    BY <1>0, <1>20, EvictedTyped DEF Retire, TypeOK, Goto, PCs
  <2> QED
    BY <1>0, <1>20, <2>1, <2>2 DEF Retire, TypeOK
<1>21. ASSUME NEW p \in Processes, Forget(p) PROVE TypeOK'
  <2>1. locks' \in [Keys -> Locks] /\ todo' \in [Processes -> SUBSET Databases]
    BY <1>0, <1>21, DbsTyped DEF Forget, TypeOK, Locks
  <2> QED
    BY <1>0, <1>21, <2>1 DEF Forget, TypeOK, Goto, PCs
<1>22. ASSUME NEW p \in Processes, Sweep(p) PROVE TypeOK'
  <2>1. ASSUME NEW d \in todo[p],
               /\ todo' = [todo EXCEPT ![p] = todo[p] \ {d}]
               /\ IF pools[d].gen = gen[p] THEN Drop(d) ELSE UNCHANGED <<pools, older>>
               /\ UNCHANGED <<pc, gen>>
        PROVE  TypeOK'
    <3>1. todo[p] \subseteq Databases /\ todo' \in [Processes -> SUBSET Databases]
      BY <1>0, <2>1 DEF TypeOK
    <3>2. older' \subseteq Databases \X Databases /\ pools' \in [Databases -> Pools \cup {NoPool}]
      BY <1>0, <2>1, <3>1, DropTyped DEF TypeOK
    <3> QED
      BY <1>0, <1>22, <2>1, <3>1, <3>2 DEF Sweep, TypeOK
  <2>2. CASE Evicted(p) /\ UNCHANGED <<pools, older, todo>>
    BY <1>0, <1>22, <2>2, EvictedTyped DEF Sweep, TypeOK
  <2>3. CASE Goto(p, "clear") /\ UNCHANGED <<gen, pools, older, todo>>
    BY <1>0, <1>22, <2>3 DEF Sweep, TypeOK, Goto, PCs
  <2> QED
    BY <1>22, <2>1, <2>2, <2>3 DEF Sweep
<1>23. ASSUME NEW p \in Processes, Clear(p) PROVE TypeOK'
  BY <1>0, <1>23, EvictedTyped DEF Clear, TypeOK
<1>24. CASE Terminated \/ UNCHANGED vars
  BY <1>0, <1>24 DEF Terminated, vars, TypeOK
<1> QED
  BY <1>1, <1>2, <1>3, <1>4, <1>5, <1>6, <1>7, <1>8, <1>9, <1>10, <1>11, <1>12, <1>13, <1>14,
     <1>15, <1>16, <1>17, <1>18, <1>19, <1>20, <1>21, <1>22, <1>23, <1>24 DEF Next

(* The evictions under way count with the clock as a process comes to one or leaves it. *)
LEMMA PendingStep ==
  ASSUME TypeOK, NEW p \in Processes, NEW next, Goto(p, next)
  PROVE  /\ Cardinality(Pending) \in Nat /\ Cardinality(Pending') \in Nat
         /\ pc[p] \notin {"evict", "retire"} /\ next \notin {"evict", "retire"} => Pending' = Pending
         /\ pc[p] \in {"evict", "retire"} /\ next \in {"evict", "retire"} => Pending' = Pending
         /\ pc[p] \notin {"evict", "retire"} /\ next \in {"evict", "retire"} =>
              Cardinality(Pending') = Cardinality(Pending) + 1
         /\ pc[p] \in {"evict", "retire"} /\ next \notin {"evict", "retire"} =>
              Cardinality(Pending') = Cardinality(Pending) - 1
<1>1. IsFiniteSet(Processes)
  BY PoolConstants, FS_AddElement DEF Processes
<1>2. Pending \subseteq Processes /\ Pending' \subseteq Processes
  BY DEF Pending
<1>3. IsFiniteSet(Pending) /\ IsFiniteSet(Pending')
  BY <1>1, <1>2, FS_Subset
<1>4. Cardinality(Pending) \in Nat /\ Cardinality(Pending') \in Nat
  BY <1>3, FS_CardinalityType
<1>5. \A q \in Processes : pc'[q] = IF q = p THEN next ELSE pc[q]
  BY DEF Goto, TypeOK
<1>6. ASSUME (pc[p] \in {"evict", "retire"}) = (next \in {"evict", "retire"})
      PROVE  Pending' = Pending
  BY <1>5, <1>6 DEF Pending
<1>7. ASSUME pc[p] \notin {"evict", "retire"}, next \in {"evict", "retire"}
      PROVE  Cardinality(Pending') = Cardinality(Pending) + 1
  <2>1. Pending' = Pending \cup {p} /\ p \notin Pending
    BY <1>5, <1>7 DEF Pending
  <2> QED
    BY <2>1, <1>3, FS_AddElement
<1>8. ASSUME pc[p] \in {"evict", "retire"}, next \notin {"evict", "retire"}
      PROVE  Cardinality(Pending') = Cardinality(Pending) - 1
  <2>1. Pending' = Pending \ {p} /\ p \in Pending
    BY <1>5, <1>8 DEF Pending
  <2> QED
    BY <2>1, <1>3, FS_RemoveElement
<1> QED
  BY <1>4, <1>6, <1>7, <1>8

(* A step that draws no generation and puts no pool, and starts an eviction only when it
   is counted, keeps the clock ahead. *)
LEMMA ClockKept ==
  ASSUME TypeOK, TypeOK', ClockOK, generation' = generation, clock' = clock,
         Cardinality(Pending) \in Nat, Cardinality(Pending') \in Nat,
         \/ evicts' = evicts /\ Pending' = Pending
         \/ evicts' = evicts /\ Cardinality(Pending') = Cardinality(Pending) - 1
         \/ evicts' = evicts + 1 /\ Cardinality(Pending') = Cardinality(Pending) + 1,
         gen' = gen \/ \A p \in Processes : gen'[p] \in {gen[p], None},
         pools' = pools \/ \A d \in Databases : pools'[d].gen = pools[d].gen \/ pools'[d].gen <= clock
  PROVE  ClockOK'
<1>1. clock \in Nat /\ evicts \in Nat /\ evicts' \in Nat /\ None <= clock
  BY PoolConstants DEF TypeOK, Generations, None
<1>2. clock' + Cardinality(Pending') <= evicts' + (IF generation' = None THEN 0 ELSE 1)
  BY <1>1 DEF ClockOK
<1>3. \A p \in Processes : gen'[p] <= clock'
  BY <1>1 DEF ClockOK
<1>4. \A d \in Databases : pools'[d].gen <= clock'
  BY <1>1 DEF ClockOK
<1>5. generation' \in {None, clock'}
  BY DEF ClockOK
<1> QED
  BY <1>2, <1>3, <1>4, <1>5 DEF ClockOK

(* A call that ends, *)
LEMMA EndGen ==
  ASSUME TypeOK, NEW r \in Requests, NEW last, End(r, last)
  PROVE  \A p \in Processes : gen'[p] \in {gen[p], None}
  BY DEF TypeOK, End

(* an eviction that ends, and *)
LEMMA EvictedGen ==
  ASSUME TypeOK, NEW r \in Processes, Evicted(r)
  PROVE  \A p \in Processes : gen'[p] \in {gen[p], None}
  BY DEF TypeOK, Evicted

(* a pool that goes, are of no later generation. *)
LEMMA DropGen ==
  ASSUME TypeOK, NEW e, Drop(e)
  PROVE  \A d \in Databases : pools'[d].gen = pools[d].gen \/ pools'[d].gen <= clock
<1>1. None <= clock
  BY PoolConstants DEF TypeOK, Generations, None
<1> QED
  BY <1>1 DEF TypeOK, Drop, NoPool

(* Every step keeps the clock ahead of the generations in use. *)
LEMMA ClockStep ==
  ASSUME CacheInv, TypeOK', [Next]_vars
  PROVE  ClockOK'
<1> USE DEF cacheVars, txVars, requestVars
<1>0. TypeOK /\ ClockOK /\ LocalsOK
  BY DEF CacheInv
<1>a. Requests \subseteq Processes /\ View \in Processes
  BY DEF Processes
<1>1. ASSUME NEW r \in Requests,
             \/ \E o \in Ops, d \in Dbs, t \in Processes : Start(r, o, d, t)
             \/ Key(r) \/ Lock(r) \/ Enforce(r)
      PROVE  ClockOK'
  <2>1. PICK next \in PCs \ {"evict", "retire"} : Goto(r, next) /\ pc[r] \notin {"evict", "retire"}
    BY <1>1 DEF Start, Key, Lock, Enforce, PCs
  <2>2. UNCHANGED <<generation, clock, evicts, gen, pools>>
    BY <1>1 DEF Start, Key, Lock, Enforce
  <2> QED
    BY <1>0, <1>a, <2>1, <2>2, PendingStep, ClockKept
<1>2. ASSUME NEW r \in Requests, Look(r) \/ Recheck(r) \/ Build(r) \/ Admit(r) \/ Confirm(r)
      PROVE  ClockOK'
  <2>1. PICK next \in PCs \ {"evict", "retire"} : Goto(r, next) /\ pc[r] \notin {"evict", "retire"}
    BY <1>2 DEF Look, Recheck, Build, Admit, Confirm, Return, PCs
  <2>2. UNCHANGED <<generation, clock, evicts, gen, pools>>
    BY <1>2 DEF Look, Recheck, Build, Admit, Confirm
  <2> QED
    BY <1>0, <1>a, <2>1, <2>2, PendingStep, ClockKept
<1>3. ASSUME NEW r \in Requests, Use(r) \/ Count(r) \/ Store(r) \/ Slot(r) \/ Statement(r) \/ Take(r)
      PROVE  ClockOK'
  <2>1. PICK next \in PCs \ {"evict", "retire"} : Goto(r, next) /\ pc[r] \notin {"evict", "retire"}
    BY <1>3 DEF Use, Count, Store, Slot, Statement, Take, End, PCs
  <2>2. UNCHANGED <<generation, clock, evicts, pools>>
    BY <1>3 DEF Use, Count, Store, Slot, Statement, Take
  <2>3. gen' = gen \/ \A p \in Processes : gen'[p] \in {gen[p], None}
    <3>1. CASE \E last : End(r, last)
      BY <1>0, <3>1, EndGen
    <3>2. CASE gen' = gen
      BY <3>2
    <3> QED
      BY <1>3, <3>1, <3>2 DEF Use, Count, Store, Slot, Statement, Take
  <2> QED
    BY <1>0, <1>a, <2>1, <2>2, <2>3, PendingStep, ClockKept
<1>4. ASSUME NEW r \in Requests, Draw(r) PROVE ClockOK'
  <2>1. Cardinality(Pending) \in Nat /\ Pending' = Pending
    BY <1>0, <1>a, <1>4, PendingStep DEF Draw
  <2>2. clock \in Nat /\ evicts \in Nat /\ \A p \in Processes : gen[p] \in Nat
    BY <1>0, PoolConstants DEF TypeOK, Generations
  <2>3. \A d \in Databases : pools[d].gen \in Nat
    BY <1>0 DEF TypeOK, Pools, Generations, NoPool, None
  <2>4. CASE generation # None
    BY <1>0, <1>4, <2>1, <2>2, <2>3, <2>4 DEF Draw, ClockOK, TypeOK
  <2>5. CASE generation = None
    <3>1. clock' + Cardinality(Pending') <= evicts' + (IF generation' = None THEN 0 ELSE 1)
      BY <1>0, <1>4, <2>1, <2>2, <2>5 DEF Draw, ClockOK, None
    <3>2. \A p \in Processes : gen'[p] <= clock'
      BY <1>0, <1>4, <2>2, <2>5 DEF Draw, ClockOK, TypeOK
    <3>3. \A d \in Databases : pools'[d].gen <= clock'
      BY <1>0, <1>4, <2>2, <2>3, <2>5 DEF Draw, ClockOK
    <3> QED
      BY <1>4, <2>5, <3>1, <3>2, <3>3 DEF Draw, ClockOK
  <2> QED
    BY <2>4, <2>5
<1>5. ASSUME NEW r \in Requests, Put(r) \/ Undo(r) \/ Trim(r) PROVE ClockOK'
  <2>1. Cardinality(Pending) \in Nat /\ Pending' = Pending
    <3>1. CASE pc' = pc
      BY <1>0, <3>1, PoolConstants, FS_AddElement, FS_Subset, FS_CardinalityType DEF Pending, Processes
    <3>2. CASE pc' # pc
      <4>1. PICK next \in PCs \ {"evict", "retire"} : Goto(r, next) /\ pc[r] \notin {"evict", "retire"}
        BY <1>5, <3>2 DEF Put, Undo, Trim, Return, PCs
      <4> QED
        BY <1>0, <1>a, <4>1, PendingStep
    <3> QED
      BY <3>1, <3>2
  <2>2. UNCHANGED <<generation, clock, evicts, gen>>
    BY <1>5 DEF Put, Undo, Trim
  <2>3. pools' = pools \/ \A d \in Databases : pools'[d].gen = pools[d].gen \/ pools'[d].gen <= clock
    <3>1. CASE UNCHANGED pools
      BY <3>1
    <3>2. CASE \E e : Drop(e)
      BY <1>0, <3>2, DropGen
    <3>3. CASE pc[r] = "put" /\ pools' = [pools EXCEPT ![db[r]] = served[r]]
      <4>1. served[r].gen <= clock
        <5>1. served[r] = Own(r)
          BY <1>0, <3>3 DEF LocalsOK, Local
        <5>2. gen[r] <= clock
          BY <1>0, <1>a DEF ClockOK
        <5> QED
          BY <5>1, <5>2 DEF Own
      <4> QED
        BY <1>0, <1>a, <3>3, <4>1 DEF TypeOK
    <3> QED
      BY <1>5, <3>1, <3>2, <3>3 DEF Put, Undo, Trim
  <2> QED
    BY <1>0, <2>1, <2>2, <2>3, ClockKept
<1>6. ASSUME NEW r \in Requests, Fail(r) PROVE ClockOK'
  <2>1. CASE Goto(r, "evict") /\ evicts' = evicts + 1 /\ gen' = gen
    <3>1. pc[r] = "failed" /\ UNCHANGED <<generation, clock, pools>>
      BY <1>6 DEF Fail
    <3> QED
      BY <1>0, <1>a, <2>1, <3>1, PendingStep, ClockKept
  <2>2. CASE End(r, "done") /\ UNCHANGED evicts
    <3>1. pc[r] = "failed" /\ Goto(r, "done") /\ UNCHANGED <<generation, clock, pools>>
      BY <1>6, <2>2 DEF Fail, End
    <3> QED
      BY <1>0, <1>a, <2>2, <3>1, EndGen, PendingStep, ClockKept
  <2> QED
    BY <1>6, <2>1, <2>2 DEF Fail
<1>7. CASE Ask
  BY <1>0, <1>a, <1>7, PendingStep, ClockKept DEF Ask
<1>8. ASSUME NEW p \in Processes, Evict(p) PROVE ClockOK'
  <2>1. pc[p] = "evict" /\ UNCHANGED <<generation, clock, pools, evicts>>
    BY <1>8 DEF Evict
  <2>2. CASE Evicted(p)
    <3>1. PICK next \in {"done", "draw"} : Goto(p, next)
      BY <2>2 DEF Evicted
    <3> QED
      BY <1>0, <2>1, <2>2, <3>1, EvictedGen, PendingStep, ClockKept
  <2>3. CASE Goto(p, "retire") /\ UNCHANGED gen
    BY <1>0, <2>1, <2>3, PendingStep, ClockKept
  <2> QED
    BY <1>8, <2>2, <2>3 DEF Evict
<1>9. ASSUME NEW p \in Processes, Retire(p) PROVE ClockOK'
  <2>1. PICK next \in {"forget", "clear", "done", "draw"} : Goto(p, next)
    BY <1>9 DEF Retire, Evicted
  <2>2. pc[p] = "retire" /\ generation' = None /\ UNCHANGED <<clock, pools, evicts>>
    BY <1>9 DEF Retire
  <2>3. /\ Cardinality(Pending) \in Nat /\ Cardinality(Pending') \in Nat
        /\ Cardinality(Pending') = Cardinality(Pending) - 1
    BY <1>0, <2>1, <2>2, PendingStep
  <2>4. clock \in Nat /\ evicts \in Nat /\ generation \in Nat /\ None <= clock
    BY <1>0, PoolConstants DEF TypeOK, Generations, None
  <2>5. clock' + Cardinality(Pending') <= evicts' + (IF generation' = None THEN 0 ELSE 1)
    BY <1>0, <2>2, <2>3, <2>4 DEF ClockOK
  <2>6. \A q \in Processes : gen'[q] \in {gen[q], None, generation}
    BY <1>0, <1>9 DEF Retire, Evicted, TypeOK
  <2>7. \A q \in Processes : gen'[q] <= clock'
    BY <1>0, <2>2, <2>4, <2>6 DEF ClockOK
  <2> QED
    BY <1>0, <2>2, <2>5, <2>7 DEF ClockOK
<1>10. ASSUME NEW p \in Processes, Forget(p) PROVE ClockOK'
  <2>1. pc[p] = "forget" /\ Goto(p, "sweep") /\ UNCHANGED <<generation, clock, pools, evicts, gen>>
    BY <1>10 DEF Forget
  <2> QED
    BY <1>0, <2>1, PendingStep, ClockKept
<1>11. ASSUME NEW p \in Processes, Sweep(p) PROVE ClockOK'
  <2>1. pc[p] = "sweep" /\ UNCHANGED <<generation, clock, evicts>>
    BY <1>11 DEF Sweep
  <2>2. CASE UNCHANGED <<pc, gen>> /\ (UNCHANGED pools \/ \E d : Drop(d))
    <3>1. Pending' = Pending /\ Cardinality(Pending) \in Nat
      BY <1>0, <2>2, PoolConstants, FS_AddElement, FS_Subset, FS_CardinalityType DEF Pending, Processes
    <3> QED
      BY <1>0, <2>1, <2>2, <3>1, DropGen, ClockKept
  <2>3. CASE Evicted(p) /\ UNCHANGED pools
    <3>1. PICK next \in {"done", "draw"} : Goto(p, next)
      BY <2>3 DEF Evicted
    <3> QED
      BY <1>0, <2>1, <2>3, <3>1, EvictedGen, PendingStep, ClockKept
  <2>4. CASE Goto(p, "clear") /\ UNCHANGED <<gen, pools>>
    BY <1>0, <2>1, <2>4, PendingStep, ClockKept
  <2> QED
    BY <1>11, <2>2, <2>3, <2>4 DEF Sweep
<1>12. ASSUME NEW p \in Processes, Clear(p) PROVE ClockOK'
  <2>1. pc[p] = "clear" /\ Evicted(p) /\ UNCHANGED <<generation, clock, evicts, pools>>
    BY <1>12 DEF Clear
  <2>2. PICK next \in {"done", "draw"} : Goto(p, next)
    BY <2>1 DEF Evicted
  <2> QED
    BY <1>0, <2>1, <2>2, EvictedGen, PendingStep, ClockKept
<1>13. CASE Terminated \/ UNCHANGED vars
  BY <1>0, <1>13 DEF Terminated, vars, ClockOK, Pending
<1> QED
  BY <1>1, <1>2, <1>3, <1>4, <1>5, <1>6, <1>7, <1>8, <1>9, <1>10, <1>11, <1>12, <1>13 DEF Next

(* The actions of a request and of an eviction *)
RequestStep(r) ==
  \/ \E o \in Ops, d \in Dbs, t \in Processes : Start(r, o, d, t)
  \/ Draw(r) \/ Look(r) \/ Key(r) \/ Lock(r) \/ Recheck(r) \/ Build(r)
  \/ Admit(r) \/ Put(r) \/ Confirm(r) \/ Undo(r) \/ Enforce(r) \/ Trim(r)
  \/ Use(r) \/ Fail(r) \/ Count(r) \/ Store(r)
  \/ Slot(r) \/ Statement(r) \/ Take(r)
EvictStep(p) ==
  \/ Evict(p) \/ Retire(p) \/ Forget(p) \/ Sweep(p) \/ Clear(p)
  \/ p = View /\ Ask

(* What a step of p leaves alone: the locals of the others and, but for the two ends of
   a generation, the generation of the connection *)
Frame(p) ==
  /\ driver' = driver
  /\ \A q \in Processes \ {p} : pc'[q] = pc[q] /\ gen'[q] = gen[q]
  /\ \A q \in Requests \ {p} :
       lock'[q] = lock[q] /\ db'[q] = db[q] /\ served'[q] = served[q] /\ target'[q] = target[q]
  /\ \/ generation' = generation
     \/ generation = None /\ generation' = clock + 1 /\ UNCHANGED pools
     \/ generation' = None /\ UNCHANGED pools

(* Every action of a request and of an eviction stays within its frame. *)
LEMMA RequestFrame ==
  ASSUME TypeOK, NEW r \in Requests, RequestStep(r)
  PROVE  Frame(r)
<1> USE DEF cacheVars, txVars, requestVars
<1>a. r \in Processes
  BY DEF Processes
<1>1. CASE \E o \in Ops, d \in Dbs, t \in Processes : Start(r, o, d, t)
  BY <1>1 DEF Start, Frame, Goto, TypeOK, Processes
<1>2. CASE Draw(r)
  BY <1>2 DEF Draw, Frame, Goto, TypeOK
<1>3. CASE Look(r) \/ Key(r) \/ Lock(r) \/ Enforce(r)
  BY <1>3 DEF Look, Key, Lock, Enforce, Frame, Goto, TypeOK, Processes
<1>4. CASE Recheck(r)
  BY <1>4 DEF Recheck, Return, Frame, Goto, TypeOK, Processes
<1>5. CASE Build(r)
  BY <1>5 DEF Build, Return, Frame, Goto, TypeOK, Processes
<1>6. CASE Admit(r) \/ Confirm(r)
  BY <1>6 DEF Admit, Confirm, Return, Frame, Goto, TypeOK, Processes
<1>7. CASE Put(r)
  BY <1>7 DEF Put, Return, Frame, Goto, TypeOK, Processes
<1>8. CASE Undo(r) \/ Trim(r)
  BY <1>8 DEF Undo, Trim, Return, Frame, Goto, TypeOK, Processes
<1>9. CASE Use(r)
  BY <1>9 DEF Use, End, Frame, Goto, TypeOK, Processes
<1>10. CASE Fail(r)
  BY <1>10 DEF Fail, End, Frame, Goto, TypeOK, Processes
<1>11. CASE Count(r) \/ Store(r)
  BY <1>11 DEF Count, Store, End, Frame, Goto, TypeOK, Processes
<1>12. CASE Slot(r)
  BY <1>12 DEF Slot, End, Frame, Goto, TypeOK, Processes
<1>13. CASE Statement(r) \/ Take(r)
  BY <1>13 DEF Statement, Take, End, Frame, Goto, TypeOK, Processes
<1> QED
  BY <1>1, <1>2, <1>3, <1>4, <1>5, <1>6, <1>7, <1>8, <1>9, <1>10, <1>11, <1>12, <1>13 DEF RequestStep

(* So does every step of an eviction, which has no locals but a generation. *)
LEMMA EvictFrame ==
  ASSUME TypeOK, NEW p \in Processes, EvictStep(p)
  PROVE  /\ Frame(p)
         /\ UNCHANGED <<driver, db, lock, served, target>>
<1> USE DEF cacheVars, txVars, requestVars
<1>1. CASE Evict(p) \/ Retire(p)
  BY <1>1 DEF Evict, Retire, Evicted, Frame, Goto, TypeOK
<1>2. CASE Forget(p) \/ Sweep(p) \/ Clear(p)
  BY <1>2 DEF Forget, Sweep, Clear, Evicted, Frame, Goto, TypeOK
<1>3. CASE p = View /\ Ask
  BY <1>3 DEF Ask, Frame, Goto, TypeOK
<1> QED
  BY <1>1, <1>2, <1>3 DEF EvictStep

(* What a step keeps of the locals of the others *)
LEMMA LocalsFramed ==
  ASSUME TypeOK, ClockOK, LocalsOK, NEW p \in Processes, Frame(p),
         p \in Requests => Local(p)',
         p = View => pc'[View] \in {"done", "evict", "retire", "forget", "sweep", "clear"},
         Retired(p)',
         \A d \in Databases : pools'[d] # NoPool => d \in Dbs
  PROVE  LocalsOK'
<1>1. clock \in Nat /\ (\A q \in Processes : gen[q] \in Nat /\ gen[q] <= clock)
  BY PoolConstants DEF TypeOK, Generations, ClockOK
<1>2. Dbs' = Dbs
  BY DEF Dbs, Frame
<1>3. \A q \in Requests : Local(q)'
  <2>1. ASSUME NEW q \in Requests, q # p PROVE Local(q)'
    <3>1. UNCHANGED <<pc[q], gen[q], lock[q], db[q], served[q], target[q]>>
      BY <2>1 DEF Frame, Processes
    <3>2. ~ Current(q) /\ gen[q] # None => ~ Current(q)'
      BY <1>1, <2>1, <3>1 DEF Frame, Current, Processes
    <3>3. Local(q) /\ KeyOf(q)' = KeyOf(q) /\ Own(q)' = Own(q)
      BY <3>1 DEF LocalsOK, KeyOf, Own
    <3> QED
      BY <1>2, <3>1, <3>2, <3>3 DEF Local, WithLock, Trimming
  <2> QED
    BY <2>1
<1>4. \A q \in Processes : Retired(q)'
  BY <1>1 DEF LocalsOK, Retired, Frame
<1>5. pc'[View] \in {"done", "evict", "retire", "forget", "sweep", "clear"}
  BY DEF Frame, LocalsOK, Processes
<1> QED
  BY <1>2, <1>3, <1>4, <1>5 DEF LocalsOK

(* A step of a request puts a pool only for its own database, an eviction none. *)
LEMMA RequestPools ==
  ASSUME TypeOK, NEW r \in Requests, RequestStep(r)
  PROVE  \A d \in Databases : pools'[d] \in {pools[d], NoPool} \/ (d = db[r] /\ pc[r] = "put")
<1> USE DEF cacheVars, txVars, requestVars
<1>1. CASE Put(r)
  BY <1>1 DEF Put, TypeOK
<1>2. CASE Undo(r) \/ Trim(r)
  BY <1>2 DEF Undo, Trim, Drop, TypeOK
<1>3. CASE UNCHANGED pools
  BY <1>3
<1> QED
  BY <1>1, <1>2, <1>3 DEF RequestStep, Start, Draw, Look, Key, Lock, Recheck, Build, Admit,
     Confirm, Enforce, Use, Fail, Count, Store, Slot, Statement, Take

(* An eviction only takes pools away. *)
LEMMA EvictPools ==
  ASSUME TypeOK, NEW p \in Processes, EvictStep(p)
  PROVE  \A d \in Databases : pools'[d] \in {pools[d], NoPool}
<1> USE DEF cacheVars, txVars, requestVars
<1>1. CASE Sweep(p)
  BY <1>1 DEF Sweep, Drop, TypeOK
<1>2. CASE UNCHANGED pools
  BY <1>2
<1> QED
  BY <1>1, <1>2 DEF EvictStep, Evict, Retire, Forget, Clear, Ask

(* A request that has left its pool holds nothing. *)
LEMMA LocalEnd ==
  ASSUME TypeOK, NEW r \in Requests, NEW last \in {"done", "begun"}, End(r, last), lock' = lock, driver' = driver,
         pc[r] \notin WithLock \cup Trimming, Local(r)
  PROVE  Local(r)' /\ Retired(r)'
<1>1. r \in Processes /\ Dbs' = Dbs
  BY DEF Processes, Dbs
<1>2. pc'[r] = last /\ db'[r] = AnyDb /\ lock'[r] = lock[r] /\ lock[r] = NoLock
  BY <1>1 DEF End, Goto, TypeOK, Local
<1> QED
  BY <1>1, <1>2, DbsTyped DEF Local, Retired, WithLock, Trimming

(* A request that leaves the cache with a pool drops its lock. *)
LEMMA LocalReturn ==
  ASSUME TypeOK, NEW r \in Requests, NEW pool, Return(r, pool), db' = db, driver' = driver, Local(r)
  PROVE  Local(r)' /\ Retired(r)'
<1>1. r \in Processes /\ Dbs' = Dbs
  BY DEF Processes, Dbs
<1>2. pc'[r] = "use" /\ lock'[r] = NoLock
  BY <1>1 DEF Return, Goto, TypeOK
<1> QED
  BY <1>1, <1>2 DEF Local, Retired, WithLock, Trimming

(* Every action of a request leaves its locals as its program counter says, *)
LEMMA LocalStep ==
  ASSUME CacheInv, NEW r \in Requests, RequestStep(r)
  PROVE  Local(r)' /\ Retired(r)'
<1> USE DEF cacheVars, txVars, requestVars
<1>0. TypeOK /\ ClockOK /\ Local(r) /\ r \in Processes
  BY DEF CacheInv, LocalsOK, Processes
<1>d. driver' = driver /\ Dbs' = Dbs
  BY <1>0, RequestFrame DEF Frame, Dbs
<1>1. CASE \E o \in Ops, d \in Dbs, t \in Processes : Start(r, o, d, t)
  <2>1. PICK o \in Ops, d \in Dbs, t \in Processes : Start(r, o, d, t)
    BY <1>1
  <2>2. /\ pc'[r] = IF t = Nobody THEN "draw" ELSE "slot"
        /\ db'[r] = d /\ lock'[r] = lock[r] /\ target'[r] = t
        /\ pc[r] = "new"
        /\ t # Nobody => t \in Requests
    BY <1>0, <2>1 DEF Start, Goto, TypeOK
  <2>3. lock[r] = NoLock
    BY <1>0, <2>2 DEF Local, WithLock, Trimming
  <2> QED
    BY <1>d, <2>2, <2>3 DEF Local, Retired, WithLock, Trimming
<1>2. CASE Draw(r)
  <2>1. pc'[r] = "look" /\ lock'[r] = lock[r] /\ db'[r] = db[r] /\ gen'[r] # None
    BY <1>0, <1>2, PoolConstants DEF Draw, Goto, TypeOK, Generations, None
  <2>2. lock[r] = NoLock
    BY <1>0, <1>2 DEF Draw, Local, WithLock, Trimming
  <2> QED
    BY <1>0, <1>d, <2>1, <2>2 DEF Local, Retired, WithLock, Trimming
<1>3. CASE Look(r)
  <2>1. pc[r] = "look" /\ pc'[r] \in {"enforce", "use", "key"} /\ UNCHANGED <<lock, db, gen>>
    BY <1>0, <1>3 DEF Look, Goto, TypeOK
  <2>2. lock[r] = NoLock
    BY <1>0, <2>1 DEF Local, WithLock, Trimming
  <2> QED
    BY <1>0, <1>d, <2>1, <2>2 DEF Local, Retired, WithLock, Trimming
<1>4. CASE Key(r)
  <2>1. pc[r] = "key" /\ pc'[r] = "lock" /\ UNCHANGED <<db, gen>>
    BY <1>0, <1>4 DEF Key, Goto, TypeOK
  <2> DEFINE arc == IF Collected[KeyOf(r)] = NoLock THEN [of |-> r, key |-> KeyOf(r)] ELSE Collected[KeyOf(r)]
  <2>2. lock'[r] = arc
    BY <1>0, <1>4 DEF Key, KeyOf, TypeOK
  <2>3. arc # NoLock /\ arc.key = KeyOf(r)
    <3>1. KeyOf(r) \in Keys
      BY <1>0, <2>1 DEF Local, KeyOf, TypeOK, Keys
    <3>2. Collected[KeyOf(r)] = NoLock \/ Collected[KeyOf(r)] = locks[KeyOf(r)]
      BY <3>1 DEF Collected
    <3>3. Collected[KeyOf(r)] # NoLock => Collected[KeyOf(r)].key = KeyOf(r)
      BY <3>1, <3>2 DEF CacheInv, LocksOK
    <3> QED
      BY <3>3 DEF NoLock
  <2> QED
    BY <1>0, <1>d, <2>1, <2>2, <2>3 DEF Local, Retired, WithLock, Trimming, KeyOf
<1>5. CASE Lock(r)
  <2>1. pc[r] = "lock" /\ pc'[r] = "recheck" /\ UNCHANGED <<db, gen, lock>>
    BY <1>0, <1>5 DEF Lock, Goto, TypeOK
  <2> QED
    BY <1>0, <1>d, <2>1 DEF Local, Retired, WithLock, Trimming, KeyOf
<1>6. CASE Recheck(r)
  <2>1. CASE Return(r, pools[db[r]])
    BY <1>0, <1>d, <1>6, <2>1, LocalReturn DEF Recheck
  <2>2. CASE ~ Return(r, pools[db[r]])
    <3>1. pc[r] = "recheck" /\ pc'[r] \in {"enforce", "build", "own"} /\ UNCHANGED <<db, gen, lock>>
      BY <1>0, <1>6, <2>2 DEF Recheck, Goto, TypeOK
    <3> QED
      BY <1>0, <1>d, <3>1 DEF Local, Retired, WithLock, Trimming, KeyOf
  <2> QED
    BY <1>6, <2>1, <2>2 DEF Recheck
<1>7. CASE Build(r)
  <2>1. CASE Return(r, Own(r))
    BY <1>0, <1>d, <1>7, <2>1, LocalReturn DEF Build
  <2>2. CASE served' = [served EXCEPT ![r] = Own(r)] /\ Goto(r, "admit") /\ UNCHANGED lock
    <3>1. /\ pc[r] \in {"own", "build"} /\ pc'[r] = "admit" /\ UNCHANGED <<db, gen, lock>>
          /\ served'[r] = Own(r)
      BY <1>0, <1>7, <2>2 DEF Build, Goto, TypeOK
    <3> QED
      BY <1>0, <1>d, <3>1 DEF Local, Retired, WithLock, Trimming, KeyOf, Own
  <2>3. CASE lock' = [lock EXCEPT ![r] = NoLock] /\ Goto(r, "failed")
    <3>1. pc'[r] = "failed" /\ lock'[r] = NoLock /\ UNCHANGED db
      BY <1>0, <1>7, <2>3 DEF Build, Goto, TypeOK
    <3> QED
      BY <1>0, <1>d, <3>1 DEF Local, Retired, WithLock, Trimming
  <2> QED
    BY <1>7, <2>1, <2>2, <2>3 DEF Build
<1>8. CASE Admit(r)
  <2>1. CASE Return(r, served[r])
    BY <1>0, <1>d, <1>8, <2>1, LocalReturn DEF Admit
  <2>2. CASE Goto(r, "put") /\ UNCHANGED <<lock, served>>
    <3>1. pc[r] = "admit" /\ pc'[r] = "put" /\ UNCHANGED <<db, gen, lock, served>>
      BY <1>0, <1>8, <2>2 DEF Admit, Goto, TypeOK
    <3> QED
      BY <1>0, <1>d, <3>1 DEF Local, Retired, WithLock, Trimming, KeyOf, Own
  <2> QED
    BY <1>8, <2>1, <2>2 DEF Admit
<1>9. CASE Put(r)
  <2>1. CASE Return(r, served[r])
    BY <1>0, <1>d, <1>9, <2>1, LocalReturn DEF Put
  <2>2. CASE Goto(r, "confirm") /\ UNCHANGED <<lock, served>>
    <3>1. pc[r] = "put" /\ pc'[r] = "confirm" /\ UNCHANGED <<db, gen, lock, served>>
      BY <1>0, <1>9, <2>2 DEF Put, Goto, TypeOK
    <3> QED
      BY <1>0, <1>d, <3>1 DEF Local, Retired, WithLock, Trimming, KeyOf
  <2> QED
    BY <1>9, <2>1, <2>2 DEF Put
<1>10. CASE Confirm(r)
  <2>1. CASE Return(r, served[r])
    BY <1>0, <1>d, <1>10, <2>1, LocalReturn DEF Confirm
  <2>2. CASE Goto(r, "enforce") /\ UNCHANGED <<lock, served>>
    <3>1. pc[r] = "confirm" /\ pc'[r] = "enforce" /\ UNCHANGED <<db, gen, lock>>
      BY <1>0, <1>10, <2>2 DEF Confirm, Goto, TypeOK
    <3> QED
      BY <1>0, <1>d, <3>1 DEF Local, Retired, WithLock, Trimming, KeyOf
  <2>3. CASE ~ Current(r) /\ Goto(r, "undo") /\ UNCHANGED <<lock, served>>
    <3>1. pc[r] = "confirm" /\ pc'[r] = "undo" /\ UNCHANGED <<db, gen, lock, generation>>
      BY <1>0, <1>10, <2>3 DEF Confirm, Goto, TypeOK
    <3>2. ~ Current(r)'
      BY <2>3, <3>1 DEF Current
    <3> QED
      BY <1>0, <1>d, <3>1, <3>2 DEF Local, Retired, WithLock, Trimming, KeyOf
  <2> QED
    BY <1>10, <2>1, <2>2, <2>3 DEF Confirm
<1>11. CASE Undo(r)
  BY <1>0, <1>d, <1>11, LocalReturn DEF Undo
<1>12. CASE Enforce(r)
  <2>1. pc[r] = "enforce" /\ pc'[r] = "trim" /\ UNCHANGED <<db, gen, lock>>
    BY <1>0, <1>12 DEF Enforce, Goto, TypeOK
  <2> QED
    BY <1>0, <1>d, <2>1 DEF Local, Retired, WithLock, Trimming, KeyOf
<1>13. CASE Trim(r)
  <2>1. CASE Return(r, served[r])
    BY <1>0, <1>d, <1>13, <2>1, LocalReturn DEF Trim
  <2>2. CASE UNCHANGED <<pc, lock, served>>
    <3>1. pc[r] = "trim" /\ UNCHANGED <<pc, db, gen, lock>>
      BY <1>13, <2>2 DEF Trim
    <3> QED
      BY <1>0, <1>d, <3>1 DEF Local, Retired, WithLock, Trimming, KeyOf
  <2> QED
    BY <1>13, <2>1, <2>2 DEF Trim
<1>14. CASE Use(r) \/ Fail(r) \/ Count(r) \/ Store(r) \/ Slot(r) \/ Statement(r) \/ Take(r)
  <2>1. /\ pc[r] \in {"use", "failed", "count", "store", "slot", "waiting", "statement", "take"}
        /\ UNCHANGED lock
    BY <1>14 DEF Use, Fail, Count, Store, Slot, Statement, Take
  <2>2. CASE \E last \in {"done", "begun"} : End(r, last)
    BY <1>0, <1>d, <2>1, <2>2, LocalEnd DEF WithLock, Trimming
  <2>3. CASE /\ UNCHANGED <<requestVars>>
             /\ \/ pc[r] \in {"slot", "waiting"} /\ (Goto(r, "waiting") \/ Goto(r, "take") \/ Goto(r, "statement"))
                \/ Goto(r, "failed") \/ Goto(r, "count") \/ Goto(r, "evict") \/ Goto(r, "store")
    <3>1. /\ lock[r] = NoLock /\ UNCHANGED <<db, target>>
          /\ \/ pc[r] \in {"slot", "waiting"} /\ pc'[r] \in {"waiting", "take", "statement"}
             \/ pc'[r] \in {"failed", "count", "evict", "store"}
      BY <1>0, <2>1, <2>3 DEF Local, WithLock, Trimming, Goto, TypeOK
    <3> QED
      BY <1>0, <1>d, <2>1, <3>1 DEF Local, Retired, WithLock, Trimming
  <2> QED
    BY <1>14, <2>2, <2>3 DEF Use, Fail, Count, Store, Slot, Statement, Take
<1> QED
  BY <1>1, <1>2, <1>3, <1>4, <1>5, <1>6, <1>7, <1>8, <1>9, <1>10, <1>11, <1>12, <1>13, <1>14 DEF RequestStep

(* and so does every step of an eviction. *)
LEMMA EvictLocal ==
  ASSUME CacheInv, NEW p \in Processes, EvictStep(p)
  PROVE  /\ Retired(p)'
         /\ p \in Requests => Local(p)'
         /\ p = View => pc'[View] \in {"done", "evict", "retire", "forget", "sweep", "clear"}
<1> USE DEF cacheVars, txVars, requestVars
<1>0. TypeOK /\ ClockOK /\ Retired(p)
  BY DEF CacheInv, LocalsOK
<1>1. /\ pc[p] \in {"evict", "retire", "forget", "sweep", "clear"} \/ (p = View /\ pc[p] = "done")
      /\ pc'[p] \in {"evict", "retire", "forget", "sweep", "clear", "draw", "done"}
      /\ p = View => pc'[p] # "draw"
  BY <1>0 DEF EvictStep, Evict, Retire, Forget, Sweep, Clear, Ask, Evicted, Goto, TypeOK
<1>2. p \in Requests => Local(p)'
  <2>1. SUFFICES ASSUME p \in Requests PROVE Local(p)'
    OBVIOUS
  <2>2. Local(p) /\ p # View
    BY <2>1, PoolConstants DEF CacheInv, LocalsOK
  <2>3. lock[p] = NoLock /\ UNCHANGED <<lock, db, driver>> /\ Dbs' = Dbs
    BY <1>0, <1>1, <2>2, EvictFrame DEF Local, WithLock, Trimming, Dbs
  <2> QED
    BY <1>1, <2>2, <2>3 DEF Local, WithLock, Trimming
<1>3. Retired(p)'
  <2>1. CASE Retire(p)
    BY <1>0, <2>1 DEF Retire, Evicted, Goto, TypeOK, Retired
  <2>2. CASE Forget(p)
    BY <1>0, <2>2 DEF Forget, Goto, TypeOK, Retired
  <2>3. CASE Sweep(p)
    <3>1. UNCHANGED generation /\ pc[p] = "sweep" /\ (UNCHANGED <<pc, gen>> \/ pc'[p] \in {"clear", "draw", "done"})
      BY <1>0, <2>3 DEF Sweep, Evicted, Goto, TypeOK
    <3> QED
      BY <1>0, <3>1 DEF Retired
  <2>4. CASE Evict(p) \/ Clear(p) \/ (p = View /\ Ask)
    <3>1. pc'[p] \in {"draw", "done", "retire", "evict"}
      BY <1>0, <2>4 DEF Evict, Clear, Ask, Evicted, Goto, TypeOK
    <3> QED
      BY <3>1 DEF Retired
  <2> QED
    BY <2>1, <2>2, <2>3, <2>4 DEF EvictStep
<1> QED
  BY <1>1, <1>2, <1>3

(* A step is one of a request, one of an eviction, or none. *)
LEMMA NextCases ==
  ASSUME [Next]_vars
  PROVE  \/ \E r \in Requests : RequestStep(r)
         \/ \E p \in Processes : EvictStep(p)
         \/ UNCHANGED vars
<1>1. View \in Processes
  BY DEF Processes
<1> QED
  BY <1>1 DEF Next, RequestStep, EvictStep, Terminated

(* Every step keeps what the program counters say. *)
LEMMA LocalsStep ==
  ASSUME CacheInv, [Next]_vars
  PROVE  LocalsOK'
<1>0. TypeOK /\ ClockOK /\ LocalsOK
  BY DEF CacheInv
<1>1. ASSUME NEW r \in Requests, RequestStep(r) PROVE LocalsOK'
  <2>1. r \in Processes /\ r # View
    BY PoolConstants DEF Processes
  <2>2. \A d \in Databases : pools'[d] # NoPool => d \in Dbs
    BY <1>0, <1>1, RequestPools DEF LocalsOK, Local
  <2> QED
    BY <1>0, <1>1, <2>1, <2>2, RequestFrame, LocalStep, LocalsFramed
<1>2. ASSUME NEW p \in Processes, EvictStep(p) PROVE LocalsOK'
  <2>1. \A d \in Databases : pools'[d] # NoPool => d \in Dbs
    BY <1>0, <1>2, EvictPools DEF LocalsOK
  <2> QED
    BY <1>0, <1>2, <2>1, EvictFrame, EvictLocal, LocalsFramed
<1>3. CASE UNCHANGED vars
  BY <1>0, <1>3 DEF vars, cacheVars, txVars, requestVars, LocalsOK, Local, Retired, Current, KeyOf, Own,
     WithLock, Trimming, Dbs
<1> QED
  BY <1>1, <1>2, <1>3, NextCases

(* A step that touches no entry, and neither takes an Arc nor a lock, keeps them apart. *)
LEMMA LocksKept ==
  ASSUME TypeOK, ClockOK, LocalsOK, LocksOK, NEW p \in Processes, Frame(p), locks' = locks,
         p \in Requests => \/ lock'[p] = NoLock
                           \/ lock'[p] = lock[p] /\ pc[p] # "lock" /\ gen'[p] = gen[p] /\ db'[p] = db[p]
  PROVE  LocksOK'
<1>1. \A q \in Requests : lock'[q] # NoLock => /\ lock'[q] = lock[q] /\ KeyOf(q)' = KeyOf(q) /\ gen'[q] = gen[q]
                                               /\ Holding(q)' => Holding(q)
  BY DEF Frame, KeyOf, Holding, Processes
<1>2. \A q \in Requests : lock'[q] # NoLock /\ Current(q)' => Current(q)
  <2>1. ASSUME NEW q \in Requests, lock'[q] # NoLock, Current(q)' PROVE Current(q)
    <3>1. gen'[q] = gen[q] /\ gen[q] <= clock /\ clock \in Nat /\ gen[q] \in Nat
      BY <1>1, <2>1, PoolConstants DEF ClockOK, TypeOK, Generations, Processes
    <3> QED
      BY <2>1, <3>1 DEF Frame, Current
  <2> QED
    BY <2>1
<1>3. \A q, r \in Requests : lock'[q] = lock'[r] /\ Holding(q)' /\ Holding(r)' => q = r
  BY <1>1 DEF LocksOK, Holding
<1>4. \A q \in Requests : lock'[q] # NoLock /\ Current(q)' => locks'[KeyOf(q)'] = lock'[q]
  BY <1>1, <1>2 DEF LocksOK
<1>5. \A k \in Keys : locks'[k] # NoLock => locks'[k].key = k
  BY DEF LocksOK
<1> QED
  BY <1>3, <1>4, <1>5 DEF LocksOK

(* Every step keeps the locks apart: Key hands out the lock in the entry, Lock waits for
   it, and Forget empties only entries of a retired generation. *)
LEMMA LocksStep ==
  ASSUME CacheInv, [Next]_vars
  PROVE  LocksOK'
<1> USE DEF cacheVars, txVars, requestVars
<1>0. TypeOK /\ ClockOK /\ LocalsOK /\ LocksOK
  BY DEF CacheInv
<1>1. ASSUME NEW r \in Requests, Key(r) PROVE LocksOK'
  <2> DEFINE arc == IF Collected[KeyOf(r)] = NoLock THEN [of |-> r, key |-> KeyOf(r)] ELSE Collected[KeyOf(r)]
  <2>1. r \in Processes /\ Frame(r)
    BY <1>0, <1>1, RequestFrame DEF RequestStep, Processes
  <2>2. /\ pc[r] = "key" /\ pc'[r] = "lock" /\ UNCHANGED <<db, gen, generation>>
        /\ lock' = [lock EXCEPT ![r] = arc] /\ locks' = [Collected EXCEPT ![KeyOf(r)] = arc]
    BY <1>0, <1>1, <2>1 DEF Key, KeyOf, Goto, TypeOK
  <2>3. KeyOf(r) \in Keys
    BY <1>0, <2>1, <2>2 DEF LocalsOK, Local, KeyOf, TypeOK, Keys
  <2>4. /\ Collected \in [Keys -> Locks]
        /\ \A k \in Keys : Collected[k] \in {locks[k], NoLock}
        /\ \A k \in Keys, q \in Requests : lock[q] = locks[k] => Collected[k] = locks[k]
    BY <1>0 DEF Collected, TypeOK, Locks
  <2>5. lock'[r] = arc /\ locks'[KeyOf(r)] = arc /\ arc.key = KeyOf(r)
    BY <1>0, <2>2, <2>3, <2>4 DEF LocksOK, TypeOK, NoLock
  <2>6. \A k \in Keys : locks'[k] # NoLock => locks'[k].key = k
    BY <1>0, <2>2, <2>3, <2>4, <2>5 DEF LocksOK
  <2>7. \A q \in Requests : q # r => UNCHANGED <<lock[q], pc[q]>>
    BY <2>1 DEF Frame, Processes
  <2>8. \A q, s \in Requests : lock'[q] = lock'[s] /\ Holding(q)' /\ Holding(s)' => q = s
    <3>1. ~ Holding(r)'
      BY <2>2 DEF Holding
    <3> QED
      BY <1>0, <2>7, <3>1 DEF LocksOK, Holding
  <2>9. ASSUME NEW q \in Requests, lock'[q] # NoLock, Current(q)' PROVE locks'[KeyOf(q)'] = lock'[q]
    <3>1. CASE q = r
      BY <2>2, <2>5, <3>1 DEF KeyOf
    <3>2. CASE q # r
      <4>1. lock[q] # NoLock /\ Current(q) /\ KeyOf(q)' = KeyOf(q)
        BY <2>2, <2>7, <2>9, <3>2 DEF Current, KeyOf
      <4>2. locks[KeyOf(q)] = lock[q] /\ KeyOf(q) \in Keys
        BY <1>0, <4>1 DEF LocksOK, LocalsOK, Local, KeyOf, TypeOK, Keys, Current, Processes
      <4>3. Collected[KeyOf(q)] = lock[q]
        BY <2>4, <4>2
      <4> QED
        BY <2>2, <2>3, <2>4, <2>7, <3>2, <4>1, <4>2, <4>3
    <3> QED
      BY <3>1, <3>2
  <2> QED
    BY <2>6, <2>8, <2>9 DEF LocksOK
<1>2. ASSUME NEW r \in Requests, Lock(r) PROVE LocksOK'
  <2>1. r \in Processes /\ Frame(r)
    BY <1>0, <1>2, RequestFrame DEF RequestStep, Processes
  <2>2. /\ UNCHANGED <<lock, locks, db, gen, generation>>
        /\ ~ \E q \in Requests : lock[q] = lock[r] /\ Holding(q)
    BY <1>2 DEF Lock
  <2>3. \A q, s \in Requests : lock'[q] = lock'[s] /\ Holding(q)' /\ Holding(s)' => q = s
    <3>1. \A q \in Requests : q # r /\ Holding(q)' => Holding(q) /\ lock[q] # lock[r]
      BY <2>1, <2>2 DEF Frame, Holding, Processes
    <3> QED
      BY <1>0, <2>2, <3>1 DEF LocksOK
  <2>4. \A q \in Requests : lock'[q] # NoLock /\ Current(q)' => locks'[KeyOf(q)'] = lock'[q]
    BY <1>0, <2>2 DEF LocksOK, Current, KeyOf
  <2> QED
    BY <1>0, <2>2, <2>3, <2>4 DEF LocksOK
<1>3. ASSUME NEW p \in Processes, Forget(p) PROVE LocksOK'
  <2>1. Frame(p) /\ UNCHANGED <<lock, db, gen, generation>> /\ pc[p] = "forget"
    BY <1>0, <1>3, EvictFrame DEF EvictStep, Forget
  <2>2. locks' = [k \in Keys |-> IF k.gen = gen[p] THEN NoLock ELSE locks[k]]
    BY <1>3 DEF Forget
  <2>3. gen[p] # generation
    BY <1>0, <2>1 DEF LocalsOK, Retired
  <2>4. \A q, s \in Requests : lock'[q] = lock'[s] /\ Holding(q)' /\ Holding(s)' => q = s
    <3>1. \A q \in Requests : Holding(q)' => Holding(q)
      <4>1. \A q \in Requests : pc'[q] = pc[q] \/ pc[q] = "forget"
        BY <2>1 DEF Frame, Processes
      <4> QED
        BY <2>1, <4>1 DEF Holding
    <3> QED
      BY <1>0, <2>1, <3>1 DEF LocksOK
  <2>5. ASSUME NEW q \in Requests, lock'[q] # NoLock, Current(q)' PROVE locks'[KeyOf(q)'] = lock'[q]
    <3>1. lock[q] # NoLock /\ Current(q) /\ KeyOf(q)' = KeyOf(q) /\ lock'[q] = lock[q]
      BY <2>1, <2>5 DEF Current, KeyOf
    <3>2. locks[KeyOf(q)] = lock[q] /\ KeyOf(q) \in Keys /\ KeyOf(q).gen # gen[p]
      BY <1>0, <2>3, <3>1 DEF LocksOK, LocalsOK, Local, KeyOf, TypeOK, Keys, Current, Processes
    <3> QED
      BY <2>2, <3>1, <3>2
  <2>6. \A k \in Keys : locks'[k] # NoLock => locks'[k].key = k
    BY <1>0, <2>2 DEF LocksOK
  <2> QED
    BY <2>4, <2>5, <2>6 DEF LocksOK
<1>4. ASSUME NEW r \in Requests, RequestStep(r), ~ Key(r), ~ Lock(r) PROVE LocksOK'
  <2>1. r \in Processes /\ Frame(r) /\ Local(r) /\ locks' = locks /\ Local(r)'
    BY <1>0, <1>4, RequestFrame, LocalStep DEF RequestStep, Processes, LocalsOK, Start, Draw, Look, Recheck, Build, Admit,
       Put, Confirm, Undo, Enforce, Trim, Use, Fail, Count, Store, Slot, Statement, Take
  <2>2. CASE pc[r] \in WithLock \cup Trimming
    <3>1. pc[r] # "lock" /\ gen' = gen /\ db' = db
      BY <1>4, <2>2 DEF WithLock, Trimming, RequestStep, Start, Draw, Look, Recheck, Build, Admit,
       Put, Confirm, Undo, Enforce, Trim, Use, Fail, Count, Store, Slot, Statement, Take
    <3>2. lock'[r] \in {lock[r], NoLock}
      BY <1>0, <1>4, <2>2 DEF WithLock, Trimming, RequestStep, Start, Draw, Look, Recheck, Build, Admit,
       Put, Confirm, Undo, Enforce, Trim, Use, Fail, Count, Store, Slot, Statement, Take, Return, TypeOK
    <3> QED
      BY <1>0, <2>1, <3>1, <3>2, LocksKept
  <2>3. CASE pc[r] \notin WithLock \cup Trimming
    <3>1. lock' = lock
      BY <1>4, <2>3 DEF WithLock, Trimming, RequestStep, Start, Draw, Look, Recheck, Build, Admit,
       Put, Confirm, Undo, Enforce, Trim, Use, Fail, Count, Store, Slot, Statement, Take
    <3> QED
      BY <1>0, <2>1, <2>3, <3>1, LocksKept DEF Local
  <2> QED
    BY <2>2, <2>3
<1>5. ASSUME NEW p \in Processes, EvictStep(p), ~ Forget(p) PROVE LocksOK'
  <2>1. Frame(p) /\ UNCHANGED <<locks, lock>>
    BY <1>0, <1>5, EvictFrame DEF EvictStep, Evict, Retire, Sweep, Clear, Ask
  <2>2. p \in Requests => lock[p] = NoLock
    BY <1>5, PoolConstants, <1>0 DEF LocalsOK, Local, WithLock, Trimming, EvictStep, Evict, Retire, Sweep, Clear, Ask
  <2> QED
    BY <1>0, <2>1, <2>2, LocksKept
<1>6. CASE UNCHANGED vars
  BY <1>0, <1>6 DEF vars, LocksOK, Current, KeyOf, Holding
<1> QED
  BY <1>1, <1>2, <1>3, <1>4, <1>5, <1>6, NextCases

(* The database touched comes last, *)
LEMMA TouchOrder ==
  ASSUME TypeOK, OrderOK, NEW d \in Databases, Touch(d), pools'[d] # NoPool,
         \A e \in Databases \ {d} : pools'[e] = pools[e]
  PROVE  OrderOK'
<1>1. \A e, f \in Databases : <<e, f>> \in older' <=>
        \/ e # d /\ f # d /\ <<e, f>> \in older
        \/ e # d /\ f = d /\ pools[e] # NoPool
  BY DEF Touch, Without, TypeOK
<1>2. ASSUME NEW e \in Databases, NEW f \in Databases
      PROVE  /\ <<e, f>> \in older' => e # f /\ <<f, e>> \notin older' /\ pools'[e] # NoPool /\ pools'[f] # NoPool
             /\ e # f /\ pools'[e] # NoPool /\ pools'[f] # NoPool => <<e, f>> \in older' \/ <<f, e>> \in older'
  BY <1>1 DEF OrderOK
<1>3. ASSUME NEW e \in Databases, NEW f \in Databases, NEW g \in Databases, <<e, f>> \in older', <<f, g>> \in older'
      PROVE  <<e, g>> \in older'
  BY <1>1, <1>3 DEF OrderOK
<1> QED
  BY <1>2, <1>3 DEF OrderOK

(* and the one dropped leaves the order. *)
LEMMA DropOrder ==
  ASSUME TypeOK, OrderOK, NEW d \in Databases, Drop(d)
  PROVE  OrderOK'
<1>1. \A e, f \in Databases : <<e, f>> \in older' <=> e # d /\ f # d /\ <<e, f>> \in older
  BY DEF Drop, Without, TypeOK
<1>2. \A e \in Databases : pools'[e] = IF e = d THEN NoPool ELSE pools[e]
  BY DEF Drop, TypeOK
<1> QED
  BY <1>1, <1>2 DEF OrderOK

(* Every step keeps the order of last use. *)
LEMMA OrderStep ==
  ASSUME CacheInv, [Next]_vars
  PROVE  OrderOK'
<1> USE DEF cacheVars, txVars, requestVars
<1>0. TypeOK /\ LocalsOK /\ OrderOK
  BY DEF CacheInv
<1>1. ASSUME NEW r \in Requests, Look(r) \/ Recheck(r) PROVE OrderOK'
  <2>1. CASE Hit(r) /\ Touch(db[r])
    BY <1>0, <1>1, <2>1, TouchOrder DEF Look, Recheck, Hit, TypeOK
  <2>2. CASE UNCHANGED older
    BY <1>0, <1>1, <2>2 DEF Look, Recheck, OrderOK
  <2> QED
    BY <1>1, <2>1, <2>2 DEF Look, Recheck
<1>2. ASSUME NEW r \in Requests, Put(r) PROVE OrderOK'
  <2>1. CASE Newer(r)
    BY <1>0, <1>2, <2>1 DEF Put, OrderOK
  <2>2. CASE ~ Newer(r)
    <3>1. Touch(db[r]) /\ pools' = [pools EXCEPT ![db[r]] = served[r]] /\ pc[r] = "put"
      BY <1>2, <2>2 DEF Put
    <3>2. served[r] = Own(r) /\ gen[r] # None
      BY <1>0, <3>1 DEF LocalsOK, Local, WithLock
    <3>3. pools'[db[r]] # NoPool /\ \A e \in Databases \ {db[r]} : pools'[e] = pools[e]
      BY <1>0, <3>1, <3>2 DEF TypeOK, Own, NoPool
    <3> QED
      BY <1>0, <3>1, <3>3, TouchOrder DEF TypeOK
  <2> QED
    BY <2>1, <2>2
<1>3. ASSUME NEW r \in Requests, Undo(r) PROVE OrderOK'
  BY <1>0, <1>3, DropOrder DEF Undo, OrderOK, TypeOK
<1>4. ASSUME NEW r \in Requests, Trim(r) PROVE OrderOK'
  <2>1. CASE UNCHANGED <<pools, older>>
    BY <1>0, <2>1 DEF OrderOK
  <2>2. CASE \E d \in todo[r] : Drop(d)
    <3>1. todo[r] \subseteq Databases
      BY <1>0 DEF TypeOK, Processes
    <3> QED
      BY <1>0, <2>2, <3>1, DropOrder
  <2> QED
    BY <1>4, <2>1, <2>2 DEF Trim
<1>5. ASSUME NEW p \in Processes, Sweep(p) PROVE OrderOK'
  <2>1. CASE UNCHANGED <<pools, older>>
    BY <1>0, <2>1 DEF OrderOK
  <2>2. CASE \E d \in todo[p] : Drop(d)
    <3>1. todo[p] \subseteq Databases
      BY <1>0 DEF TypeOK
    <3> QED
      BY <1>0, <2>2, <3>1, DropOrder
  <2> QED
    BY <1>5, <2>1, <2>2 DEF Sweep
<1>6. CASE UNCHANGED <<pools, older>>
  BY <1>0, <1>6 DEF OrderOK
<1>7. ASSUME NEW r \in Requests, RequestStep(r)
      PROVE  \/ Look(r) \/ Recheck(r) \/ Put(r) \/ Undo(r) \/ Trim(r)
             \/ UNCHANGED <<pools, older>>
  BY <1>7 DEF RequestStep, Start, Draw, Key, Lock, Build, Admit, Confirm, Enforce, Use,
     Fail, Count, Store, Slot, Statement, Take
<1>8. ASSUME NEW p \in Processes, EvictStep(p)
      PROVE  Sweep(p) \/ UNCHANGED <<pools, older>>
  BY <1>8 DEF EvictStep, Evict, Retire, Forget, Clear, Ask
<1>9. CASE UNCHANGED vars
  BY <1>6, <1>9 DEF vars
<1> QED
  BY <1>1, <1>2, <1>3, <1>4, <1>5, <1>6, <1>7, <1>8, <1>9, NextCases

(* A retired pool is in the way of the eviction of its generation. *)
Swept(d, p) ==
  /\ gen[p] = pools[d].gen
  /\ \/ pc[p] = "forget"
     \/ pc[p] = "sweep" /\ d \in todo[p]
     \/ p \in Requests /\ db[p] = d /\ pc[p] \in {"confirm", "undo"}

(* Only an LRU pass has databases taken off its list by others. *)
LEMMA RequestTodo ==
  ASSUME TypeOK, NEW r \in Requests, RequestStep(r), NEW p \in Processes, p # r, pc[p] # "trim"
  PROVE  todo'[p] = todo[p]
<1> USE DEF cacheVars, txVars, requestVars
<1>1. CASE \E d : Touch(d)
  BY <1>1 DEF Touch
<1>2. CASE Enforce(r) \/ Trim(r)
  BY <1>2 DEF Enforce, Trim, TypeOK
<1>3. CASE UNCHANGED todo
  BY <1>3
<1>4. CASE \E o \in Ops, d \in Dbs, t \in Processes : Start(r, o, d, t)
  BY <1>4 DEF Start
<1>5. CASE Look(r) \/ Recheck(r) \/ Put(r)
  BY <1>1, <1>3, <1>5 DEF Look, Recheck, Put
<1>6. CASE Draw(r) \/ Key(r) \/ Lock(r) \/ Build(r) \/ Admit(r) \/ Confirm(r) \/ Undo(r)
  BY <1>3, <1>6 DEF Draw, Key, Lock, Build, Admit, Confirm, Undo
<1>7. CASE Use(r) \/ Fail(r) \/ Count(r) \/ Store(r) \/ Slot(r) \/ Statement(r) \/ Take(r)
  BY <1>3, <1>7 DEF Use, Fail, Count, Store, Slot, Statement, Take
<1> QED
  BY <1>2, <1>4, <1>5, <1>6, <1>7 DEF RequestStep

(* A request draws a generation only when the connection has none. *)
LEMMA RequestGeneration ==
  ASSUME NEW r \in Requests, RequestStep(r)
  PROVE  generation' = generation \/ (generation = None /\ UNCHANGED pools)
  BY DEF RequestStep, Start, Draw, Look, Key, Lock, Recheck, Build, Admit, Put, Confirm, Undo, Enforce, Trim,
     Use, Fail, Count, Store, Slot, Statement, Take, cacheVars

(* A request that puts a retired pool has still to confirm it, and one that confirms
   finds it retired and takes it away. *)
LEMMA RequestSwept ==
  ASSUME CacheInv, NEW r \in Requests, RequestStep(r), NEW d \in Databases,
         pools'[d] # NoPool, pools'[d].gen # generation'
  PROVE  \E p \in Processes : Swept(d, p)'
<1> USE DEF cacheVars, txVars, requestVars
<1>0. TypeOK /\ ClockOK /\ LocalsOK /\ RetiredIsSwept
  BY DEF CacheInv
<1>1. r \in Processes /\ Frame(r) /\ r # View
  BY <1>0, RequestFrame, PoolConstants DEF Processes
<1>2. CASE pools'[d] # pools[d]
  <2>1. pc[r] = "put" /\ d = db[r]
    BY <1>0, <1>2, RequestPools
  <2>2. Put(r)
    BY <2>1 DEF RequestStep, Start, Draw, Look, Key, Lock, Recheck, Build, Admit,
       Confirm, Undo, Enforce, Trim, Use, Fail, Count, Store, Slot, Statement, Take
  <2>3. pools' = [pools EXCEPT ![db[r]] = served[r]] /\ Goto(r, "confirm") /\ UNCHANGED <<gen, db>>
    BY <1>2, <2>2 DEF Put
  <2>4. served[r] = Own(r)
    BY <1>0, <2>1 DEF LocalsOK, Local
  <2>5. pools'[d].gen = gen'[r] /\ pc'[r] = "confirm" /\ db'[r] = d
    BY <1>0, <1>1, <2>1, <2>3, <2>4 DEF Goto, TypeOK, Own
  <2> QED
    BY <1>1, <2>5 DEF Swept
<1>3. CASE pools'[d] = pools[d]
  <2>1. pools[d] # NoPool /\ pools[d].gen # generation
    <3>1. pools[d] # NoPool => pools[d].gen # None
      BY <1>0 DEF TypeOK, Pools
    <3> QED
      BY <1>3, <3>1, RequestGeneration
  <2>2. PICK p \in Processes : Swept(d, p)
    BY <1>0, <2>1 DEF RetiredIsSwept, Swept
  <2>3. CASE p # r
    <3>1. gen'[p] = gen[p] /\ pc'[p] = pc[p] /\ (p \in Requests => db'[p] = db[p])
      BY <1>1, <2>3 DEF Frame
    <3>2. pc[p] = "sweep" => todo'[p] = todo[p]
      BY <1>0, <2>3, RequestTodo
    <3> QED
      BY <1>3, <2>2, <3>1, <3>2 DEF Swept
  <2>4. CASE p = r
    <3>1. pc[r] \in {"confirm", "undo"} /\ db[r] = d /\ gen[r] = pools[d].gen
      BY <2>2, <2>4 DEF Swept, RequestStep, Start, Draw, Look, Key, Lock, Recheck, Build, Admit, Put,
         Confirm, Undo, Enforce, Trim, Use, Fail, Count, Store, Slot, Statement, Take
    <3>2. CASE pc[r] = "confirm"
      <4>1. Confirm(r)
        BY <3>2 DEF RequestStep, Start, Draw, Look, Key, Lock, Recheck, Build, Admit, Put,
           Undo, Enforce, Trim, Use, Fail, Count, Store, Slot, Statement, Take
      <4>2. ~ Current(r)
        BY <2>1, <3>1 DEF Current
      <4>3. pc'[r] = "undo" /\ UNCHANGED <<gen, db, pools>>
        BY <1>0, <1>1, <4>1, <4>2 DEF Confirm, Goto, TypeOK
      <4> QED
        BY <1>1, <3>1, <4>3 DEF Swept
    <3>3. CASE pc[r] = "undo"
      <4>1. Undo(r)
        BY <3>3 DEF RequestStep, Start, Draw, Look, Key, Lock, Recheck, Build, Admit, Put,
           Confirm, Enforce, Trim, Use, Fail, Count, Store, Slot, Statement, Take
      <4>2. pools'[d] = NoPool
        BY <1>0, <2>1, <3>1, <4>1 DEF Undo, Hit, Drop, TypeOK
      <4> QED
        BY <4>2
    <3> QED
      BY <3>1, <3>2, <3>3
  <2> QED
    BY <2>3, <2>4
<1> QED
  BY <1>2, <1>3

(* An eviction that retires a generation sweeps all its pools before it ends. *)
LEMMA EvictSwept ==
  ASSUME CacheInv, NEW p \in Processes, EvictStep(p), NEW d \in Databases,
         pools'[d] # NoPool, pools'[d].gen # generation'
  PROVE  \E q \in Processes : Swept(d, q)'
<1> USE DEF cacheVars, txVars, requestVars
<1>0. TypeOK /\ ClockOK /\ LocalsOK /\ RetiredIsSwept
  BY DEF CacheInv
<1>1. Frame(p) /\ UNCHANGED db /\ pools'[d] = pools[d] /\ pools[d].gen # None
  BY <1>0, EvictFrame, EvictPools DEF TypeOK, Pools
<1>2. CASE Retire(p) /\ pools[d].gen = generation
  <2>1. pc'[p] = "forget" /\ gen'[p] = generation
    BY <1>0, <1>1, <1>2 DEF Retire, Goto, TypeOK
  <2> QED
    BY <1>1, <1>2, <2>1 DEF Swept
<1>3. CASE ~ (Retire(p) /\ pools[d].gen = generation)
  <2>1. pools[d].gen # generation
    BY <1>1, <1>3 DEF EvictStep, Evict, Forget, Sweep, Clear, Ask
  <2>2. PICK q \in Processes : Swept(d, q)
    BY <1>0, <1>1, <2>1 DEF RetiredIsSwept, Swept
  <2>3. CASE q # p
    <3>1. gen'[q] = gen[q] /\ pc'[q] = pc[q] /\ todo'[q] = todo[q]
      BY <1>0, <1>1, <2>3 DEF Frame, EvictStep, Evict, Retire, Forget, Sweep, Clear, Ask, TypeOK
    <3> QED
      BY <1>1, <2>2, <3>1 DEF Swept
  <2>4. CASE q = p
    <3>1. pc[p] \in {"forget", "sweep"}
      BY <1>0, <2>2, <2>4, PoolConstants DEF Swept, EvictStep, Evict, Retire, Forget, Sweep, Clear, Ask
    <3>2. CASE pc[p] = "forget"
      <4>1. Forget(p)
        BY <3>2 DEF EvictStep, Evict, Retire, Sweep, Clear, Ask
      <4>2. pc'[p] = "sweep" /\ todo'[p] = Dbs /\ gen' = gen
        BY <1>0, <4>1 DEF Forget, Goto, TypeOK
      <4>3. d \in Dbs
        BY <1>0, <1>1 DEF LocalsOK
      <4> QED
        BY <1>1, <2>2, <2>4, <4>2, <4>3 DEF Swept
    <3>3. CASE pc[p] = "sweep"
      <4>1. Sweep(p) /\ d \in todo[p] /\ gen[p] = pools[d].gen
        BY <2>2, <2>4, <3>3, PoolConstants DEF Swept, EvictStep, Evict, Retire, Forget, Clear, Ask
      <4>2. PICK e \in todo[p] :
              /\ todo' = [todo EXCEPT ![p] = todo[p] \ {e}]
              /\ IF pools[e].gen = gen[p] THEN Drop(e) ELSE UNCHANGED <<pools, older>>
              /\ UNCHANGED <<pc, gen>>
        BY <4>1 DEF Sweep
      <4>3. e # d
        BY <1>0, <1>1, <4>1, <4>2 DEF Drop, TypeOK
      <4>4. d \in todo'[p]
        BY <1>0, <4>1, <4>2, <4>3 DEF TypeOK
      <4> QED
        BY <1>1, <3>3, <4>1, <4>2, <4>4 DEF Swept
    <3> QED
      BY <3>1, <3>2, <3>3
  <2> QED
    BY <2>3, <2>4
<1> QED
  BY <1>2, <1>3

(* No step leaves a retired pool behind. *)
LEMMA SweptStep ==
  ASSUME CacheInv, [Next]_vars
  PROVE  RetiredIsSwept'
<1>1. CASE UNCHANGED vars
  BY <1>1 DEF CacheInv, RetiredIsSwept, vars, cacheVars, requestVars
<1>2. ASSUME NEW d \in Databases, pools'[d] # NoPool, pools'[d].gen # generation',
             \/ \E r \in Requests : RequestStep(r)
             \/ \E p \in Processes : EvictStep(p)
      PROVE  \E p \in Processes : Swept(d, p)'
  BY <1>2, RequestSwept, EvictSwept
<1> QED
  BY <1>1, <1>2, NextCases DEF RetiredIsSwept, Swept

(* Of the databases of the request's generation no more stay off its list than the limit
   allows: the list is the oldest of them, as many as there are too many. *)
Mine(r) == {d \in Databases : pools[d].gen = gen[r] /\ d # db[r]}
Below(M, d) == {e \in M : e = d \/ <<e, d>> \in older}

(* No two of them have the same rank, *)
LEMMA RankStrict ==
  ASSUME OrderOK, NEW M \in SUBSET Databases, NEW a \in M, NEW b \in M,
         \A d \in M : pools[d] # NoPool, a # b
  PROVE  Cardinality(Below(M, a)) # Cardinality(Below(M, b))
<1>1. IsFiniteSet(Databases) /\ IsFiniteSet(M)
  BY PoolConstants, FS_Subset
<1>2. ASSUME NEW x \in M, NEW y \in M, <<x, y>> \in older
      PROVE  Cardinality(Below(M, x)) # Cardinality(Below(M, y))
  <2>1. Below(M, x) \subseteq Below(M, y)
    BY <1>2 DEF OrderOK, Below
  <2>2. y \in Below(M, y) /\ y \notin Below(M, x)
    BY <1>2 DEF OrderOK, Below
  <2>3. IsFiniteSet(Below(M, y))
    BY <1>1, FS_Subset DEF Below
  <2> QED
    BY <2>1, <2>2, <2>3, FS_Subset
<1>3. <<a, b>> \in older \/ <<b, a>> \in older
  BY DEF OrderOK
<1> QED
  BY <1>2, <1>3

(* so that all but n have a rank above n, *)
LEMMA RankCount ==
  ASSUME OrderOK, NEW M \in SUBSET Databases, \A d \in M : pools[d] # NoPool,
         NEW n \in Nat, n <= Cardinality(M)
  PROVE  Cardinality({d \in M : ~ (Cardinality(Below(M, d)) <= n)}) <= Cardinality(M) - n
<1> DEFINE K == {d \in M : ~ (Cardinality(Below(M, d)) <= n)}
           f == [d \in K |-> Cardinality(Below(M, d))]
           T == (n + 1)..Cardinality(M)
<1>1. IsFiniteSet(M) /\ Cardinality(M) \in Nat
  BY PoolConstants, FS_Subset, FS_CardinalityType
<1>2. IsFiniteSet(K) /\ Cardinality(K) \in Nat
  BY <1>1, FS_Subset, FS_CardinalityType
<1>3. f \in [K -> T]
  <2>1. ASSUME NEW d \in K PROVE Cardinality(Below(M, d)) \in T
    <3>1. Below(M, d) \subseteq M
      BY DEF Below
    <3>2. Cardinality(Below(M, d)) \in Nat /\ Cardinality(Below(M, d)) <= Cardinality(M)
      BY <1>1, <3>1, FS_Subset, FS_CardinalityType
    <3>3. ~ (Cardinality(Below(M, d)) <= n)
      OBVIOUS
    <3> QED
      BY <1>1, <3>2, <3>3
  <2> QED
    BY <2>1
<1>4. IsFiniteSet(T) /\ Cardinality(T) = Cardinality(M) - n
  BY <1>1, FS_Interval
<1>5. ASSUME Cardinality(T) < Cardinality(K) PROVE FALSE
  <2>1. PICK x, y \in K : x # y /\ f[x] = f[y]
    <3> HIDE DEF K, f, T
    <3> QED
      BY <1>2, <1>3, <1>4, <1>5, FS_PigeonHole
  <2>2. x \in M /\ y \in M /\ Cardinality(Below(M, x)) = Cardinality(Below(M, y))
    BY <2>1
  <2> QED
    BY <2>1, <2>2, RankStrict
<1>6. Cardinality(K) <= Cardinality(M) - n
  BY <1>1, <1>2, <1>4, <1>5
<1> QED
  BY <1>6

(* and those that are not on the list, with the database of the request, are within the
   limit. *)
LEMMA OldestEnough ==
  ASSUME TypeOK, OrderOK, NEW r \in Requests, gen[r] = generation, generation # None,
         Cardinality(Limited) > MaxCached
  PROVE  Cardinality(Limited \ Oldest(r, Surplus(r))) <= MaxCached
<1> DEFINE n == Cardinality(Limited) - MaxCached
           K == {d \in Mine(r) : ~ (Cardinality(Below(Mine(r), d)) <= n)}
<1>1. IsFiniteSet(Limited) /\ Cardinality(Limited) \in Nat /\ MaxCached \in Nat \ {0}
  BY PoolConstants, FS_Subset, FS_CardinalityType DEF Limited
<1>2. n \in Nat /\ n <= Cardinality(Limited) - 1 /\ Surplus(r) = n
  BY <1>1 DEF Surplus, Limited
<1>3. \A d \in Databases : pools[d].gen = gen[r] => pools[d] # NoPool
  BY DEF NoPool
<1>4. Mine(r) = Limited \ {db[r]}
  BY <1>3 DEF Mine, Limited
<1>5. Limited \ Oldest(r, Surplus(r)) \subseteq K \cup (Limited \cap {db[r]})
  BY <1>2, <1>4 DEF Oldest, Mine, Below
<1>6. Cardinality(Mine(r)) = (IF db[r] \in Limited THEN Cardinality(Limited) - 1 ELSE Cardinality(Limited))
  BY <1>1, <1>4, FS_RemoveElement
<1>7. Mine(r) \subseteq Databases /\ (\A d \in Mine(r) : pools[d] # NoPool) /\ n <= Cardinality(Mine(r))
  BY <1>1, <1>2, <1>3, <1>6 DEF Mine
<1>8. Cardinality(K) <= Cardinality(Mine(r)) - n
  BY <1>2, <1>7, RankCount
<1>9. IsFiniteSet(K) /\ Cardinality(K) \in Nat
  BY <1>1, <1>4, FS_Subset, FS_CardinalityType
<1>10. CASE db[r] \in Limited
  <2>1. Limited \ Oldest(r, Surplus(r)) \subseteq K \cup {db[r]}
    BY <1>5
  <2>2. IsFiniteSet(K \cup {db[r]}) /\ Cardinality(K \cup {db[r]}) <= Cardinality(K) + 1
    BY <1>9, FS_AddElement
  <2>3. Cardinality(Limited \ Oldest(r, Surplus(r))) <= Cardinality(K \cup {db[r]})
    BY <2>1, <2>2, FS_Subset
  <2>4. Cardinality(Limited \ Oldest(r, Surplus(r))) \in Nat /\ Cardinality(K \cup {db[r]}) \in Nat
    BY <1>1, <2>2, FS_Subset, FS_CardinalityType
  <2> QED
    BY <1>1, <1>6, <1>8, <1>9, <1>10, <2>2, <2>3, <2>4
<1>11. CASE db[r] \notin Limited
  <2>1. Limited \ Oldest(r, Surplus(r)) \subseteq K
    BY <1>5, <1>11
  <2>2. Cardinality(Limited \ Oldest(r, Surplus(r))) <= Cardinality(K)
    BY <1>9, <2>1, FS_Subset
  <2>3. Cardinality(Limited \ Oldest(r, Surplus(r))) \in Nat
    BY <1>1, FS_Subset, FS_CardinalityType
  <2> QED
    BY <1>1, <1>6, <1>8, <1>9, <1>11, <2>2, <2>3
<1> QED
  BY <1>10, <1>11

(* Pools leave the limited ones, none comes, and the passes keep their lists: the bound
   of a pass stays. *)
LEMMA FewerLimited ==
  ASSUME TypeOK, TypeOK', NEW S \in SUBSET Databases,
         NEW T \in SUBSET Databases, Limited' \ T \subseteq Limited \ S
  PROVE  /\ Cardinality(Limited') \in Nat /\ Cardinality(Limited) \in Nat
         /\ Limited' \subseteq Limited => Cardinality(Limited') <= Cardinality(Limited)
         /\ Cardinality(Limited \ S) <= MaxCached => Cardinality(Limited' \ T) <= MaxCached
<1>1. IsFiniteSet(Limited) /\ IsFiniteSet(Limited')
  BY PoolConstants, FS_Subset DEF Limited
<1>2. Cardinality(Limited') \in Nat /\ Cardinality(Limited) \in Nat
  BY <1>1, FS_CardinalityType
<1>3. Limited' \subseteq Limited => Cardinality(Limited') <= Cardinality(Limited)
  BY <1>1, FS_Subset
<1>4. IsFiniteSet(Limited \ S) /\ IsFiniteSet(Limited' \ T) /\ Cardinality(Limited' \ T) <= Cardinality(Limited \ S)
  BY <1>1, FS_Subset
<1>5. Cardinality(Limited \ S) \in Nat /\ Cardinality(Limited' \ T) \in Nat /\ MaxCached \in Nat
  BY <1>4, FS_CardinalityType, PoolConstants
<1> QED
  BY <1>2, <1>3, <1>4, <1>5

(* With a generation that has just been drawn or retired there is nothing to limit. *)
LEMMA LimitEmpty ==
  ASSUME TypeOK, TypeOK', generation' = None \/ (generation = None /\ generation' = clock + 1 /\ UNCHANGED pools /\ ClockOK)
  PROVE  Limited' = {}
<1>1. CASE generation' = None
  BY <1>1 DEF TypeOK, Pools, Limited
<1>2. CASE generation' = clock + 1 /\ UNCHANGED pools /\ ClockOK
  <2>1. clock \in Nat /\ \A d \in Databases : pools[d].gen <= clock
    BY <1>2, PoolConstants DEF TypeOK, Generations, ClockOK
  <2>2. \A d \in Databases : pools[d].gen # clock + 1
    <3>1. \A d \in Databases : pools[d].gen \in Nat
      BY DEF TypeOK, Pools, Generations, NoPool, None
    <3> QED
      BY <2>1, <3>1
  <2> QED
    BY <1>2, <2>2 DEF Limited
<1> QED
  BY <1>1, <1>2

(* What a step of a request that has not just used a current pool leaves of the limit *)
LEMMA RequestLimited ==
  ASSUME CacheInv, TypeOK', driver = "redis", NEW r \in Requests, RequestStep(r),
         ~ (gen'[r] = generation' /\ pc'[r] \in {"confirm", "enforce"}), generation' = generation
  PROVE  /\ Limited' \subseteq Limited
         /\ \A q \in Requests \ {r} : Limited' \ todo'[q] \subseteq Limited \ todo[q]
<1> USE DEF cacheVars, txVars, requestVars
<1>0. TypeOK /\ LocalsOK /\ r \in Processes /\ Requests \subseteq Processes
  BY DEF CacheInv, Processes
<1>1. CASE Look(r) \/ Recheck(r)
  <2>1. UNCHANGED <<pools, gen>>
    BY <1>1 DEF Look, Recheck
  <2>2. Limited' = Limited
    BY <2>1 DEF Limited
  <2>3. CASE UNCHANGED todo
    BY <2>2, <2>3
  <2>4. CASE todo' # todo
    <3>1. Touch(db[r]) /\ Hit(r) /\ pc'[r] = "enforce"
      BY <1>0, <1>1, <2>4 DEF Look, Recheck, Goto, TypeOK
    <3>2. db[r] \notin Limited
      BY <2>1, <3>1 DEF Hit, Limited
    <3>3. \A q \in Requests : todo[q] \ {db[r]} \subseteq todo'[q]
      BY <1>0, <3>1 DEF Touch
    <3> QED
      BY <2>2, <3>2, <3>3
  <2> QED
    BY <2>3, <2>4
<1>2. CASE Put(r)
  <2>1. CASE Newer(r)
    BY <1>2, <2>1 DEF Put, Limited
  <2>2. CASE ~ Newer(r)
    <3>1. /\ pools' = [pools EXCEPT ![db[r]] = served[r]] /\ Touch(db[r])
          /\ pc'[r] = "confirm" /\ gen' = gen /\ pc[r] = "put"
      BY <1>0, <1>2, <2>2 DEF Put, Goto, TypeOK
    <3>2. served[r] = Own(r) /\ gen[r] # generation
      BY <1>0, <3>1 DEF LocalsOK, Local
    <3>3. db[r] \notin Limited' /\ Limited' \subseteq Limited
      BY <1>0, <3>1, <3>2 DEF Limited, Own, TypeOK
    <3>4. \A q \in Requests : todo[q] \ {db[r]} \subseteq todo'[q]
      BY <1>0, <3>1 DEF Touch
    <3> QED
      BY <3>3, <3>4
  <2> QED
    BY <2>1, <2>2
<1>3. CASE Undo(r) \/ Trim(r)
  <2>1. Limited' \subseteq Limited
    BY <1>0, <1>3 DEF Undo, Trim, Drop, Limited, TypeOK
  <2>2. \A q \in Requests \ {r} : todo'[q] = todo[q]
    BY <1>0, <1>3 DEF Undo, Trim, TypeOK
  <2> QED
    BY <2>1, <2>2
<1>4. CASE Enforce(r)
  BY <1>0, <1>4 DEF Enforce, Limited, TypeOK
<1>5. CASE UNCHANGED <<pools, todo>>
  BY <1>5 DEF Limited
<1> QED
  BY <1>1, <1>2, <1>3, <1>4, <1>5 DEF RequestStep, Start, Draw, Key, Lock, Build, Admit, Confirm,
     Use, Fail, Count, Store, Slot, Statement, Take

(* After a step of a request somebody has still to enforce the limit, or has it enforced. *)
LEMMA RequestLimit ==
  ASSUME CacheInv, TypeOK', NEW r \in Requests, RequestStep(r), driver = "redis",
         Cardinality(Limited') > MaxCached
  PROVE  \E q \in Requests : Enforcing(q)'
<1> USE DEF cacheVars, txVars, requestVars
<1>0. TypeOK /\ ClockOK /\ LocalsOK /\ OrderOK /\ LimitOK /\ r \in Processes /\ Requests \subseteq Processes
  BY DEF CacheInv, Processes
<1>1. Frame(r)
  BY <1>0, RequestFrame
<1>2. Limited' # {}
  BY PoolConstants, FS_EmptySet
<1>3. generation' = generation /\ generation # None
  BY <1>0, <1>1, <1>2, LimitEmpty DEF Frame
<1>4. CASE gen'[r] = generation' /\ pc'[r] \in {"confirm", "enforce"}
  BY <1>4 DEF Enforcing
<1>5. CASE ~ (gen'[r] = generation' /\ pc'[r] \in {"confirm", "enforce"})
  <2>1. /\ Limited' \subseteq Limited
        /\ \A q \in Requests \ {r} : Limited' \ todo'[q] \subseteq Limited \ todo[q]
    BY <1>3, <1>5, RequestLimited
  <2>2. /\ \A q \in Requests : todo[q] \in SUBSET Databases /\ todo'[q] \in SUBSET Databases
    BY <1>0 DEF TypeOK
  <2>3. Cardinality(Limited) > MaxCached
    <3>1. Cardinality(Limited') <= Cardinality(Limited) /\ Cardinality(Limited) \in Nat /\ Cardinality(Limited') \in Nat
      <4>1. {} \in SUBSET Databases /\ Limited' \ {} \subseteq Limited
        BY <2>1
      <4> QED
        BY <1>0, <2>1, <4>1, FewerLimited
    <3> QED
      BY <3>1, PoolConstants
  <2>4. PICK q \in Requests : Enforcing(q)
    BY <1>0, <2>3 DEF LimitOK, Enforcing
  <2>5. CASE q # r
    <3>1. pc'[q] = pc[q] /\ gen'[q] = gen[q]
      BY <1>0, <1>1, <2>5 DEF Frame
    <3>2. Cardinality(Limited \ todo[q]) <= MaxCached => Cardinality(Limited' \ todo'[q]) <= MaxCached
      <4>1. Limited' \ todo[q] \subseteq Limited /\ Limited' \ todo'[q] \subseteq Limited \ todo[q]
        BY <2>1, <2>5
      <4> QED
        BY <1>0, <2>2, <4>1, FewerLimited
    <3> QED
      BY <1>3, <2>4, <3>1, <3>2 DEF Enforcing
  <2>6. CASE q = r /\ pc[r] = "confirm"
    <3>1. Confirm(r)
      BY <2>6 DEF RequestStep, Start, Draw, Look, Key, Lock, Recheck, Build, Admit, Put,
         Undo, Enforce, Trim, Use, Fail, Count, Store, Slot, Statement, Take
    <3>2. Current(r)
      BY <1>3, <2>4, <2>6 DEF Enforcing, Current
    <3>3. pc'[r] = "enforce" /\ gen' = gen
      BY <1>0, <3>1, <3>2 DEF Confirm, Goto, TypeOK
    <3> QED
      BY <1>3, <1>5, <2>4, <2>6, <3>3 DEF Enforcing
  <2>7. CASE q = r /\ pc[r] = "enforce"
    <3>1. Enforce(r)
      BY <2>7 DEF RequestStep, Start, Draw, Look, Key, Lock, Recheck, Build, Admit, Put,
         Confirm, Undo, Trim, Use, Fail, Count, Store, Slot, Statement, Take
    <3>2. pc'[r] = "trim" /\ UNCHANGED <<gen, pools>> /\ todo'[r] = Oldest(r, Surplus(r))
      BY <1>0, <3>1 DEF Enforce, Goto, TypeOK
    <3>3. Cardinality(Limited \ Oldest(r, Surplus(r))) <= MaxCached
      BY <1>0, <1>3, <2>3, <2>4, <2>7, OldestEnough DEF Enforcing
    <3>4. Limited' = Limited
      BY <1>3, <3>2 DEF Limited
    <3> QED
      BY <1>3, <2>4, <2>7, <3>2, <3>3, <3>4 DEF Enforcing
  <2>8. CASE q = r /\ pc[r] = "trim"
    <3>1. Trim(r)
      BY <2>8 DEF RequestStep, Start, Draw, Look, Key, Lock, Recheck, Build, Admit, Put,
         Confirm, Undo, Enforce, Use, Fail, Count, Store, Slot, Statement, Take
    <3>2. Cardinality(Limited \ todo[r]) <= MaxCached /\ gen[r] = generation
      BY <2>4, <2>8 DEF Enforcing
    <3>3. todo[r] # {}
      <4>1. Cardinality(Limited) \in Nat /\ MaxCached \in Nat
        BY PoolConstants, FS_Subset, FS_CardinalityType DEF Limited
      <4>2. todo[r] = {} => Limited \ todo[r] = Limited
        OBVIOUS
      <4> QED
        BY <2>3, <3>2, <4>1, <4>2
    <3>4. PICK d \in todo[r] :
            /\ todo' = [todo EXCEPT ![r] = todo[r] \ {d}]
            /\ IF pools[d].gen = gen[r] THEN Drop(d) ELSE UNCHANGED <<pools, older>>
            /\ UNCHANGED <<pc, lock, served>>
      BY <3>1, <3>3 DEF Trim
    <3>5. todo'[r] = todo[r] \ {d} /\ gen' = gen /\ pc' = pc
      BY <1>0, <3>1, <3>4 DEF Trim, TypeOK
    <3>6. d \notin Limited'
      BY <1>0, <1>3, <2>2, <3>2, <3>4 DEF Limited, Drop, TypeOK
    <3>7. Limited' \ todo'[r] \subseteq Limited \ todo[r] /\ Limited' \ todo[r] \subseteq Limited
      BY <2>1, <3>5, <3>6
    <3>8. Cardinality(Limited' \ todo'[r]) <= MaxCached
      BY <1>0, <2>2, <3>2, <3>7, FewerLimited
    <3> QED
      BY <1>3, <2>8, <3>2, <3>5, <3>8 DEF Enforcing
  <2> QED
    BY <2>4, <2>5, <2>6, <2>7, <2>8 DEF Enforcing
<1> QED
  BY <1>4, <1>5

(* An eviction puts nobody over the limit. *)
LEMMA EvictLimit ==
  ASSUME CacheInv, TypeOK', NEW p \in Processes, EvictStep(p), driver = "redis",
         Cardinality(Limited') > MaxCached
  PROVE  \E q \in Requests : Enforcing(q)'
<1> USE DEF cacheVars, txVars, requestVars
<1>0. TypeOK /\ ClockOK /\ LocalsOK /\ LimitOK /\ Requests \subseteq Processes
  BY DEF CacheInv, Processes
<1>1. Frame(p)
  BY <1>0, EvictFrame
<1>2. Limited' # {}
  BY PoolConstants, FS_EmptySet
<1>3. generation' = generation /\ generation # None
  BY <1>0, <1>1, <1>2, LimitEmpty DEF Frame
<1>4. Limited' \subseteq Limited
  BY <1>0, <1>3, EvictPools DEF Limited
<1>5. \A q \in Requests : q # p => UNCHANGED <<pc[q], gen[q], todo[q]>>
  <2>1. \A q \in Requests : q # p => todo'[q] = todo[q]
    BY <1>0 DEF EvictStep, Evict, Retire, Forget, Sweep, Clear, Ask, TypeOK
  <2> QED
    BY <1>0, <1>1, <2>1 DEF Frame
<1>6. p \in Requests => pc[p] \notin {"confirm", "enforce", "trim"}
  BY PoolConstants DEF EvictStep, Evict, Retire, Forget, Sweep, Clear, Ask
<1>7. \A q \in Requests : todo[q] \in SUBSET Databases
  BY <1>0 DEF TypeOK
<1>8. Cardinality(Limited) > MaxCached
  <2>1. Cardinality(Limited') <= Cardinality(Limited) /\ Cardinality(Limited) \in Nat /\ Cardinality(Limited') \in Nat
    <3>1. {} \in SUBSET Databases /\ Limited' \ {} \subseteq Limited
      BY <1>4
    <3> QED
      BY <1>0, <1>4, <3>1, FewerLimited
  <2> QED
    BY <2>1, PoolConstants
<1>9. PICK q \in Requests : Enforcing(q)
  BY <1>0, <1>8 DEF LimitOK, Enforcing
<1>10. q # p /\ pc'[q] = pc[q] /\ gen'[q] = gen[q] /\ todo'[q] = todo[q]
  BY <1>5, <1>6, <1>9 DEF Enforcing
<1>11. Cardinality(Limited \ todo[q]) <= MaxCached => Cardinality(Limited' \ todo'[q]) <= MaxCached
  <2>1. Limited' \ todo[q] \subseteq Limited /\ Limited' \ todo'[q] \subseteq Limited \ todo[q]
    BY <1>4, <1>10
  <2> QED
    BY <1>0, <1>7, <1>10, <2>1, FewerLimited
<1> QED
  BY <1>3, <1>9, <1>10, <1>11 DEF Enforcing

(* Every step keeps the limit in sight. *)
LEMMA LimitStep ==
  ASSUME CacheInv, TypeOK', [Next]_vars
  PROVE  LimitOK'
<1>1. CASE UNCHANGED vars
  BY <1>1 DEF CacheInv, LimitOK, Enforcing, Limited, vars, cacheVars
<1>2. TypeOK
  BY DEF CacheInv
<1>3. CASE \E r \in Requests : RequestStep(r)
  <2>1. PICK r \in Requests : RequestStep(r)
    BY <1>3
  <2>2. driver' = driver
    BY <1>2, <2>1, RequestFrame DEF Frame
  <2> QED
    BY <2>1, <2>2, RequestLimit DEF LimitOK, Enforcing
<1>4. CASE \E p \in Processes : EvictStep(p)
  <2>1. PICK p \in Processes : EvictStep(p)
    BY <1>4
  <2>2. driver' = driver
    BY <1>2, <2>1, EvictFrame DEF Frame
  <2> QED
    BY <2>1, <2>2, EvictLimit DEF LimitOK, Enforcing
<1> QED
  BY <1>1, <1>3, <1>4, NextCases

-----------------------------------------------------------------------------

(* The invariant holds when the caches are empty, *)
LEMMA InvInit ==
  ASSUME Init
  PROVE  CacheInv
<1>1. TypeOK
  BY PoolConstants, DbsTyped DEF Init, TypeOK, Generations, None, NoLock, Locks, PCs, Nobody, Processes
<1>2. Pending = {} /\ Limited = {}
  BY DEF Init, Pending, Limited, Processes
<1>3. ClockOK
  BY <1>2, FS_EmptySet DEF Init, ClockOK, None, NoPool
<1>4. LocalsOK /\ LocksOK /\ OrderOK /\ RetiredIsSwept
  BY DbsTyped, PoolConstants DEF Init, LocalsOK, Local, Retired, LocksOK, OrderOK, RetiredIsSwept, WithLock, Trimming, Holding, Processes, NoLock
<1>5. LimitOK
  BY <1>2, FS_EmptySet, PoolConstants DEF LimitOK
<1> QED
  BY <1>1, <1>3, <1>4, <1>5 DEF CacheInv

(* and every step keeps it. *)
LEMMA InvStep ==
  ASSUME CacheInv, [Next]_vars
  PROVE  CacheInv'
<1>1. TypeOK'
  BY TypeStep
<1> QED
  BY <1>1, ClockStep, LocalsStep, LocksStep, OrderStep, LimitStep, SweptStep DEF CacheInv

(* The inductive invariant *)
THEOREM CacheInvariant == Spec => []CacheInv
  BY InvInit, InvStep, PTL DEF Spec

(* The variables keep their types: no step of the caches leaves them. *)
THEOREM PoolTypes == Spec => []TypeOK
  BY CacheInvariant, PTL DEF CacheInv

(* PoolCache::insert, evict and cache_if_current: in no order do they leave a pool of a
   retired generation behind. *)
THEOREM RetiredPoolsAreSwept == Spec => []RetiredIsSwept
  BY CacheInvariant, PTL DEF CacheInv

(* build_lock: two requests never build for one database and the current generation. *)
THEOREM OneBuildAtATime == Spec => []OneBuild
<1>1. CacheInv => OneBuild
  <2>1. SUFFICES ASSUME CacheInv, NEW q \in Requests, NEW r \in Requests,
                        q # r, db[q] = db[r], gen[q] = gen[r],
                        pc[q] \in {"build", "admit", "put"}, pc[r] \in {"build", "admit", "put"}, Current(r)
                 PROVE  FALSE
    BY DEF OneBuild
  <2>2. lock[q] # NoLock /\ lock[r] # NoLock
    BY <2>1 DEF CacheInv, LocalsOK, Local, WithLock
  <2>3. Current(q) /\ KeyOf(q) = KeyOf(r)
    BY <2>1 DEF Current, KeyOf
  <2>4. lock[q] = lock[r]
    BY <2>1, <2>2, <2>3 DEF CacheInv, LocksOK
  <2> QED
    BY <2>1, <2>2, <2>4 DEF CacheInv, LocksOK, Holding
<1> QED
  BY <1>1, CacheInvariant, PTL

(* enforce_pool_limit: once no pass is under way, no more pools are left than the limit
   allows. *)
THEOREM LimitReached == Spec => []LruBound
<1>1. CacheInv => LruBound
  <2>1. SUFFICES ASSUME CacheInv, driver = "redis", \A r \in Requests : pc[r] \notin {"confirm", "undo", "enforce", "trim"}
                 PROVE  Cardinality(Limited) <= MaxCached
    BY DEF LruBound, Limited
  <2>2. ~ (Cardinality(Limited) > MaxCached)
    BY <2>1 DEF CacheInv, LimitOK, Enforcing
  <2>3. Cardinality(Limited) \in Nat /\ MaxCached \in Nat
    BY PoolConstants, FS_Subset, FS_CardinalityType DEF Limited
  <2> QED
    BY <2>2, <2>3
<1> QED
  BY <1>1, CacheInvariant, PTL

(* TransactionStore: a statement that waited for the slot while its transaction was taken
   for the commit finds it gone. *)
THEOREM StatementsStayInside == Spec => []StatementsInside
<1> USE DEF cacheVars, txVars, requestVars
<1>1. Init => StatementsInside
  BY DEF Init, StatementsInside
<1>2. ASSUME CacheInv, StatementsInside, [Next]_vars PROVE StatementsInside'
  <2>0. TypeOK
    BY <1>2 DEF CacheInv
  <2>1. CASE UNCHANGED vars
    BY <1>2, <2>1 DEF vars, StatementsInside, InStatement
  <2>2. ASSUME NEW r \in Requests, RequestStep(r), ~ Take(r), ~ Statement(r) PROVE StatementsInside'
    <3>1. UNCHANGED taken /\ pc'[r] # "statement"
      <4>1. r \in Processes
        BY DEF Processes
      <4> QED
        BY <2>0, <2>2, <4>1 DEF RequestStep, Start, Draw, Look, Key, Lock, Recheck, Build, Admit, Put, Confirm,
         Undo, Enforce, Trim, Use, Fail, Count, Store, Slot, End, Return, Goto, TypeOK
    <3>2. Frame(r)
      BY <2>0, <2>2, RequestFrame
    <3>3. \A q \in Requests : pc'[q] = "statement" => pc[q] = "statement" /\ target'[q] = target[q]
      BY <3>1, <3>2 DEF Frame, Processes
    <3> QED
      BY <1>2, <3>1, <3>3 DEF StatementsInside, InStatement
  <2>3. ASSUME NEW r \in Requests, Statement(r) PROVE StatementsInside'
    <3>1. UNCHANGED taken
      BY <2>3 DEF Statement
    <3>2. r \in Processes /\ Frame(r)
      BY <2>0, <2>3, RequestFrame DEF RequestStep, Processes
    <3>3. \A q \in Requests : pc'[q] = "statement" /\ q # r => pc[q] = "statement" /\ target'[q] = target[q]
      BY <3>2 DEF Frame, Processes
    <3>4. pc'[r] = "statement" => target'[r] \notin taken
      BY <2>0, <2>3, <3>2 DEF Statement, Goto, End, TypeOK
    <3> QED
      BY <1>2, <3>1, <3>3, <3>4 DEF StatementsInside, InStatement
  <2>4. ASSUME NEW r \in Requests, Take(r) PROVE StatementsInside'
    <3>1. taken' = taken \cup {target[r]} /\ ~ InStatement(target[r])
      BY <2>4 DEF Take
    <3>2. r \in Processes /\ Frame(r) /\ pc'[r] = "done"
      BY <2>0, <2>4, RequestFrame DEF RequestStep, Processes, Take, End, Goto, TypeOK
    <3>3. \A q \in Requests : pc'[q] = "statement" => pc[q] = "statement" /\ target'[q] = target[q]
      BY <3>2 DEF Frame, Processes
    <3> QED
      BY <1>2, <3>1, <3>3 DEF StatementsInside, InStatement
  <2>5. ASSUME NEW p \in Processes, EvictStep(p) PROVE StatementsInside'
    <3>1. UNCHANGED <<taken, target>> /\ Frame(p)
      BY <2>0, <2>5, EvictFrame DEF EvictStep, Evict, Retire, Forget, Sweep, Clear, Ask
    <3>2. pc'[p] # "statement"
      BY <2>0, <2>5 DEF EvictStep, Evict, Retire, Forget, Sweep, Clear, Ask, Evicted, Goto, TypeOK
    <3>3. \A q \in Requests : pc'[q] = "statement" => pc[q] = "statement"
      BY <3>1, <3>2 DEF Frame, Processes
    <3> QED
      BY <1>2, <3>1, <3>3 DEF StatementsInside, InStatement
  <2> QED
    BY <1>2, <2>1, <2>2, <2>3, <2>4, <2>5, NextCases
<1> QED
  BY <1>1, <1>2, CacheInvariant, PTL DEF Spec

(* insert, cache_if_current, evict: a request of a retired generation neither replaces nor
   removes the pool of the current one. *)
THEOREM CurrentPoolStays == Spec => NewPoolStays
<1> USE DEF cacheVars, txVars, requestVars
<1>1. ASSUME CacheInv, Next, NEW d \in Databases, pools[d] # NoPool, pools[d].gen = generation, pools'[d] # pools[d]
      PROVE  \E r \in Requests : pc[r] = "trim" /\ d \in todo[r]
  <2>0. TypeOK /\ ClockOK /\ LocalsOK
    BY <1>1 DEF CacheInv
  <2>1. CASE \E r \in Requests : RequestStep(r)
    <3>1. PICK r \in Requests : RequestStep(r)
      BY <2>1
    <3>2. Put(r) \/ Undo(r) \/ Trim(r)
      BY <1>1, <3>1 DEF RequestStep, Start, Draw, Look, Key, Lock, Recheck, Build, Admit,
         Confirm, Enforce, Use, Fail, Count, Store, Slot, Statement, Take
    <3>3. CASE Put(r)
      <4>1. ~ Newer(r) /\ d = db[r] /\ pools'[d] = Own(r)
        BY <1>1, <2>0, <3>3 DEF Put, TypeOK, LocalsOK, Local
      <4>2. gen[r] <= generation /\ gen[r] \in Nat /\ generation \in Nat
        <5>1. generation # None
          BY <1>1, <2>0 DEF TypeOK, Pools
        <5> QED
          BY <2>0, <5>1, PoolConstants DEF ClockOK, TypeOK, Generations, Processes
      <4>3. pools[d].gen = gen[r]
        BY <1>1, <4>1, <4>2 DEF Newer
      <4>4. pools[d] = [gen |-> gen[r]]
        BY <1>1, <2>0, <4>3 DEF TypeOK, Pools
      <4> QED
        BY <1>1, <4>1, <4>4 DEF Own
    <3>4. CASE Undo(r)
      <4>1. d = db[r] /\ gen[r] = pools[d].gen /\ pools[d].gen # None
        BY <1>1, <2>0, <3>4 DEF Undo, Hit, Drop, TypeOK, Pools
      <4>2. ~ Current(r)
        BY <2>0, <3>4 DEF Undo, LocalsOK, Local
      <4> QED
        BY <1>1, <4>1, <4>2 DEF Current
    <3>5. CASE Trim(r)
      BY <1>1, <2>0, <3>5 DEF Trim, Drop, TypeOK
    <3> QED
      BY <3>2, <3>3, <3>4, <3>5
  <2>2. CASE \E p \in Processes : EvictStep(p)
    <3>1. PICK p \in Processes : EvictStep(p)
      BY <2>2
    <3>2. Sweep(p)
      BY <1>1, <3>1 DEF EvictStep, Evict, Retire, Forget, Clear, Ask
    <3>3. pools[d].gen = gen[p]
      BY <1>1, <2>0, <3>2 DEF Sweep, Drop, TypeOK
    <3>4. gen[p] # generation
      BY <2>0, <3>2 DEF Sweep, LocalsOK, Retired
    <3> QED
      BY <1>1, <3>3, <3>4
  <2> QED
    BY <1>1, <2>1, <2>2, NextCases DEF vars
<1>2. CacheInv /\ [Next]_vars =>
        [\A d \in Databases :
           pools[d] # NoPool /\ pools[d].gen = generation /\ pools'[d] # pools[d] =>
             \E r \in Requests : pc[r] = "trim" /\ d \in todo[r]]_vars
  BY <1>1
<1> QED
  BY <1>2, CacheInvariant, PTL DEF Spec, NewPoolStays
=============================================================================
