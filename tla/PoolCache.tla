------------------------------ MODULE PoolCache ------------------------------
(***************************************************************************)
(* The connection pools of one database connection: PoolCache of           *)
(* ramag-infra-sql-shared, ramag-infra-mongodb and ramag-infra-redis, which *)
(* are one algorithm (Redis keeps a pool for each database number and      *)
(* drops the least recently used), with the manual transactions of the SQL *)
(* drivers, whose leased connections an eviction has to spare.             *)
(*                                                                         *)
(* The maps are DashMaps: one operation on one entry is atomic, two are    *)
(* not, and the maps are changed without any common lock.  A request is    *)
(* one call of a service; it runs on a tokio worker while the view edits   *)
(* the connection and evicts its pools.                                    *)
(***************************************************************************)
EXTENDS Naturals, FiniteSets

CONSTANTS
  Requests,   \* calls of the services, each made once
  View,       \* the view that saves, closes or deletes the connection
  Drivers,    \* among "sql", "mongo", "redis"
  Databases,  \* Redis database numbers
  MaxCached,  \* MAX_CACHED_DBS_PER_CONNECTION
  MaxActive,  \* MAX_ACTIVE_TRANSACTIONS_PER_CONNECTION
  MaxEvicts,  \* bound of the model: evictions, the view's and the retries'
  MaxRunning  \* bound of the model: calls under way at a time

ASSUME PoolConstants ==
  /\ IsFiniteSet(Requests) /\ View \notin Requests
  /\ IsFiniteSet(Databases) /\ Databases # {}
  /\ Drivers \subseteq {"sql", "mongo", "redis"}
  /\ MaxCached \in Nat \ {0}
  /\ MaxActive \in Nat
  /\ MaxEvicts \in Nat
  /\ MaxRunning \in Nat

VARIABLES
  driver,      \* driver of the connection
  generation,  \* generations: the entry of the connection, None when absent
  clock,       \* generation_clock
  locks,       \* build_locks: the lock in each entry
  pools,       \* pools
  older,       \* pairs of databases with a pool, the first not used since the second was
  active,      \* TransactionStore: transactions by the request that began them
  taken,       \* transactions a commit or rollback took out of their slot
  pc, op,      \* where a process stands, and what the request is
  db, gen, lock, \* key and generation of its pool, its Arc of a build lock
  served,      \* pool it works on
  todo,        \* databases its LRU pass or its eviction has still to visit
  retried,     \* requests that used their one retry
  target,      \* transaction of an execute, commit or rollback
  evicts

cacheVars == <<generation, clock, locks, pools, older>>
txVars    == <<active, taken>>
requestVars == <<op, db, target>>
vars == <<driver, cacheVars, txVars, pc, requestVars, gen, lock, served, todo,
          retried, evicts>>

Processes == Requests \cup {View}
None   == 0
NoPool == [gen |-> None]
NoLock == [of |-> None]
Nobody == View           \* in target: the request is about no transaction

AnyDb == CHOOSE d \in Databases : TRUE

Dbs == IF driver = "redis" THEN Databases ELSE {AnyDb}

(* A call on a pool, which a read may retry once after a lost connection, and for SQL
   begin_transaction, a statement in a transaction, and its commit or rollback *)
Ops == IF driver = "sql" THEN {"call", "begin", "execute", "finish"} ELSE {"call"}

Generations == 0..(MaxEvicts + 1)
Pools == [gen : Generations \ {None}]
Keys  == [db : Databases, gen : Generations \ {None}]
Locks == [of : Requests, key : Keys] \cup {NoLock}

PCs == {"new", "draw", "look", "key", "lock", "recheck", "own", "build", "admit", "put",
        "confirm", "undo", "enforce", "trim", "use", "failed", "count", "store", "slot",
        "statement", "take", "evict", "retire", "waiting", "forget", "sweep", "clear", "begun", "done"}

TypeOK ==
  /\ driver \in Drivers
  /\ generation \in Generations
  /\ clock \in Generations
  /\ locks \in [Keys -> Locks]
  /\ pools \in [Databases -> Pools \cup {NoPool}]
  /\ older \subseteq Databases \X Databases
  /\ active \subseteq Requests
  /\ taken \subseteq Requests
  /\ pc \in [Processes -> PCs]
  /\ op \in [Requests -> {"none", "call", "begin", "execute", "finish"}]
  /\ db \in [Requests -> Databases]
  /\ gen \in [Processes -> Generations]
  /\ lock \in [Requests -> Locks]
  /\ served \in [Requests -> Pools \cup {NoPool}]
  /\ todo \in [Processes -> SUBSET Databases]
  /\ retried \subseteq Requests
  /\ target \in [Requests -> Processes]
  /\ evicts \in 0..MaxEvicts

Init ==
  /\ driver \in Drivers
  /\ generation = None
  /\ clock = 0
  /\ locks = [k \in Keys |-> NoLock]
  /\ pools = [d \in Databases |-> NoPool]
  /\ older = {}
  /\ active = {}
  /\ taken = {}
  /\ pc = [p \in Processes |-> IF p = View THEN "done" ELSE "new"]
  /\ op = [r \in Requests |-> "none"]
  /\ db = [r \in Requests |-> AnyDb]
  /\ gen = [p \in Processes |-> None]
  /\ lock = [r \in Requests |-> NoLock]
  /\ served = [r \in Requests |-> NoPool]
  /\ todo = [p \in Processes |-> {}]
  /\ retried = {}
  /\ target = [r \in Requests |-> Nobody]
  /\ evicts = 0

-----------------------------------------------------------------------------
Goto(p, next) == pc' = [pc EXCEPT ![p] = next]

Current(p) == generation # None /\ gen[p] = generation
Own(r)     == [gen |-> gen[r]]

Hit_AnyGeneration(r) == pools[db[r]] # NoPool

(* get, get_cached: a pool of the request's own generation *)
Hit(r) == pools[db[r]] # NoPool /\ pools[db[r]].gen = gen[r]

Newer_Ignored(r) == FALSE

(* insert never replaces the pool of a newer generation *)
Newer(r) == pools[db[r]].gen > gen[r]      \* NoPool is older than all

HasActive == active # {}

Without(d) == {u \in older : u[1] # d /\ u[2] # d}

(* next_access: the database is the most recently used; an LRU pass that saw the
   earlier value leaves it alone *)
Touch(d) ==
  /\ older' = Without(d) \cup {<<e, d>> : e \in {e \in Databases \ {d} : pools[e] # NoPool}}
  /\ todo'  = [p \in Processes |-> IF pc[p] = "trim" THEN todo[p] \ {d} ELSE todo[p]]

(* The call returns; its locals are dropped. *)
End(r, last) ==
  /\ Goto(r, last)
  /\ op' = [op EXCEPT ![r] = "none"]
  /\ db' = [db EXCEPT ![r] = AnyDb]
  /\ gen' = [gen EXCEPT ![r] = None]
  /\ served' = [served EXCEPT ![r] = NoPool]
  /\ target' = [target EXCEPT ![r] = Nobody]
  /\ retried' = retried \ {r}

(* The request has its pool and leaves get_pool or get_or_create, whose guard on the
   build lock is dropped; after a hit Redis first looks at the limit, under the guard. *)
Return(r, pool) ==
  /\ served' = [served EXCEPT ![r] = pool]
  /\ lock'   = [lock EXCEPT ![r] = NoLock]
  /\ Goto(r, "use")

-----------------------------------------------------------------------------
(* A view calls a service with the configuration it has; a transaction is known to it
   once begin_transaction returned. *)
Start(r, o, d, t) ==
  /\ pc[r] = "new"
  /\ Cardinality({q \in Requests : pc[q] \notin {"new", "begun", "done"}}) < MaxRunning
  /\ o \in Ops
  /\ d \in Dbs
  /\ IF o \in {"execute", "finish"}
       THEN t \in Requests /\ pc[t] = "begun"
       ELSE t = Nobody
  /\ op'   = [op EXCEPT ![r] = o]
  /\ db'   = [db EXCEPT ![r] = d]
  /\ target' = [target EXCEPT ![r] = t]
  /\ Goto(r, IF t = Nobody THEN "draw" ELSE "slot")
  /\ UNCHANGED <<driver, cacheVars, txVars, gen, lock, served, todo, retried, evicts>>

(* generation_for_request *)
Draw(r) ==
  /\ pc[r] = "draw"
  /\ IF generation # None
       THEN /\ gen' = [gen EXCEPT ![r] = generation]
            /\ UNCHANGED <<generation, clock>>
       ELSE /\ clock' = clock + 1
            /\ generation' = clock + 1
            /\ gen' = [gen EXCEPT ![r] = clock + 1]
  /\ Goto(r, "look")
  /\ UNCHANGED <<driver, locks, pools, older, txVars, requestVars, lock, served, todo,
                 retried, evicts>>

(* The first look, without a lock *)
Look(r) ==
  /\ pc[r] = "look"
  /\ IF Hit(r)
       THEN /\ served' = [served EXCEPT ![r] = pools[db[r]]]
            /\ Touch(db[r])
            /\ Goto(r, IF driver = "redis" THEN "enforce" ELSE "use")
       ELSE /\ Goto(r, "key")
            /\ UNCHANGED <<served, older, todo>>
  /\ UNCHANGED <<driver, generation, clock, locks, pools, txVars, requestVars, gen,
                 lock, retried, evicts>>

Collected_All == IF driver = "redis" THEN [k \in Keys |-> NoLock] ELSE locks

(* Redis first drops the entries nobody else has an Arc of. *)
Collected == IF driver = "redis"
             THEN [k \in Keys |-> IF \E q \in Requests : lock[q] = locks[k]
                                  THEN locks[k] ELSE NoLock]
             ELSE locks

(* build_lock: the lock in the entry of the key, a new one when there is none *)
Key(r) ==
  /\ pc[r] = "key"
  /\ LET k   == [db |-> db[r], gen |-> gen[r]]
         arc == IF Collected[k] = NoLock THEN [of |-> r, key |-> k] ELSE Collected[k]
     IN /\ locks' = [Collected EXCEPT ![k] = arc]
        /\ lock'  = [lock EXCEPT ![r] = arc]
  /\ Goto(r, "lock")
  /\ UNCHANGED <<driver, generation, clock, pools, older, txVars, requestVars, gen,
                 served, todo, retried, evicts>>

(* Requests past build_lock.lock().await hold it until they return. *)
Holding(r) == lock[r] # NoLock /\ pc[r] # "lock"

Lock(r) ==
  /\ pc[r] = "lock"
  /\ ~ \E q \in Requests : lock[q] = lock[r] /\ Holding(q)
  /\ Goto(r, "recheck")
  /\ UNCHANGED <<driver, cacheVars, txVars, requestVars, gen, lock, served, todo,
                 retried, evicts>>

(* Under the lock: a retired generation builds a pool of its own, the others look
   again before they build. *)
Recheck(r) ==
  /\ pc[r] = "recheck"
  /\ IF Current(r) /\ Hit(r)
       THEN /\ Touch(db[r])
            /\ IF driver = "redis"
                 THEN /\ served' = [served EXCEPT ![r] = pools[db[r]]]
                      /\ Goto(r, "enforce")
                      /\ UNCHANGED lock
                 ELSE Return(r, pools[db[r]])
       ELSE /\ Goto(r, IF Current(r) THEN "build" ELSE "own")
            /\ UNCHANGED <<served, lock, older, todo>>
  /\ UNCHANGED <<driver, generation, clock, locks, pools, txVars, requestVars, gen,
                 retried, evicts>>

(* build_pool, for the request alone or for the cache; it may fail *)
Build(r) ==
  /\ pc[r] \in {"own", "build"}
  /\ \/ /\ pc[r] = "own"
        /\ Return(r, Own(r))
     \/ /\ pc[r] = "build"
        /\ served' = [served EXCEPT ![r] = Own(r)]
        /\ Goto(r, "admit")
        /\ UNCHANGED lock
     \/ /\ lock' = [lock EXCEPT ![r] = NoLock]
        /\ Goto(r, "failed")
        /\ UNCHANGED served
  /\ UNCHANGED <<driver, cacheVars, txVars, requestVars, gen, todo, retried, evicts>>

(* insert, cache_if_current: current, then the entry, then current again *)
Admit(r) ==
  /\ pc[r] = "admit"
  /\ IF Current(r) THEN Goto(r, "put") /\ UNCHANGED <<lock, served>>
                   ELSE Return(r, served[r])
  /\ UNCHANGED <<driver, cacheVars, txVars, requestVars, gen, todo, retried, evicts>>

Put(r) ==
  /\ pc[r] = "put"
  /\ IF Newer(r)
       THEN Return(r, served[r]) /\ UNCHANGED <<pools, older, todo>>
       ELSE /\ pools' = [pools EXCEPT ![db[r]] = served[r]]
            /\ Touch(db[r])
            /\ Goto(r, "confirm")
            /\ UNCHANGED <<lock, served>>
  /\ UNCHANGED <<driver, generation, clock, locks, txVars, requestVars, gen, retried,
                 evicts>>

Confirm_Trusts(r) ==
  /\ pc[r] = "confirm"
  /\ IF driver = "redis" THEN Goto(r, "enforce") /\ UNCHANGED <<lock, served>>
                         ELSE Return(r, served[r])
  /\ UNCHANGED <<driver, cacheVars, txVars, requestVars, gen, todo, retried, evicts>>

Confirm(r) ==
  /\ pc[r] = "confirm"
  /\ CASE ~ Current(r)                    -> Goto(r, "undo") /\ UNCHANGED <<lock, served>>
       [] Current(r) /\ driver = "redis"  -> Goto(r, "enforce") /\ UNCHANGED <<lock, served>>
       [] OTHER                           -> Return(r, served[r])
  /\ UNCHANGED <<driver, cacheVars, txVars, requestVars, gen, todo, retried, evicts>>

Drop(d) ==
  /\ pools' = [pools EXCEPT ![d] = NoPool]
  /\ older' = Without(d)

Undo(r) ==
  /\ pc[r] = "undo"
  /\ IF Hit(r) THEN Drop(db[r]) ELSE UNCHANGED <<pools, older>>
  /\ Return(r, served[r])
  /\ UNCHANGED <<driver, generation, clock, locks, txVars, requestVars, gen, todo,
                 retried, evicts>>

-----------------------------------------------------------------------------
(* enforce_pool_limit: the least recently used databases of the generation above the
   limit, never the request's own *)
Oldest(r, n) ==
  LET mine == {d \in Databases : pools[d].gen = gen[r] /\ d # db[r]}
  IN  {d \in mine : Cardinality({e \in mine : e = d \/ <<e, d>> \in older}) <= n}

Surplus_OffByOne(r) ==
  LET cached == {d \in Databases : pools[d] # NoPool /\ pools[d].gen = gen[r]}
  IN  IF Cardinality(cached) > MaxCached + 1 THEN Cardinality(cached) - MaxCached ELSE 0

Surplus(r) ==
  LET cached == {d \in Databases : pools[d] # NoPool /\ pools[d].gen = gen[r]}
  IN  IF Cardinality(cached) > MaxCached THEN Cardinality(cached) - MaxCached ELSE 0

Enforce(r) ==
  /\ pc[r] = "enforce"
  /\ todo' = [todo EXCEPT ![r] = Oldest(r, Surplus(r))]
  /\ Goto(r, "trim")
  /\ UNCHANGED <<driver, cacheVars, txVars, requestVars, gen, lock, served, retried,
                 evicts>>

(* A candidate goes unless it was used since the pass saw it or is of another
   generation by now. *)
Trim(r) ==
  /\ pc[r] = "trim"
  /\ \/ \E d \in todo[r] :
           /\ todo' = [todo EXCEPT ![r] = todo[r] \ {d}]
           /\ IF pools[d].gen = gen[r] THEN Drop(d) ELSE UNCHANGED <<pools, older>>
           /\ UNCHANGED <<pc, lock, served>>
     \/ /\ todo[r] = {}
        /\ Return(r, served[r])
        /\ UNCHANGED <<pools, older, todo>>
  /\ UNCHANGED <<driver, generation, clock, locks, txVars, requestVars, gen, retried,
                 evicts>>

-----------------------------------------------------------------------------
(* The operation on the pool, or BEGIN; the connection may turn out to be lost. *)
Use(r) ==
  /\ pc[r] = "use"
  /\ \/ /\ op[r] # "begin"
        /\ End(r, "done")
     \/ /\ \/ Goto(r, "failed")
           \/ op[r] = "begin" /\ Goto(r, "count")
        /\ UNCHANGED <<requestVars, gen, served, retried>>
  /\ UNCHANGED <<driver, cacheVars, txVars, lock, todo, evicts>>

(* retry_idempotent_read: a read whose caller still waits evicts and runs once more,
   with the configuration it came with; SQL reads only while no transaction is open. *)
Fail(r) ==
  /\ pc[r] = "failed"
  /\ \/ /\ op[r] = "call" /\ r \notin retried
        /\ driver = "sql" => ~ HasActive
        /\ evicts < MaxEvicts
        /\ evicts'  = evicts + 1
        /\ retried' = retried \cup {r}
        /\ served'  = [served EXCEPT ![r] = NoPool]
        /\ Goto(r, "evict")
        /\ UNCHANGED <<requestVars, gen>>
     \/ End(r, "done") /\ UNCHANGED evicts
  /\ UNCHANGED <<driver, cacheVars, txVars, lock, todo>>

(* TransactionStore::insert counts, then inserts; over the limit the transaction is
   rolled back *)
Count(r) ==
  /\ pc[r] = "count"
  /\ IF Cardinality(active) >= MaxActive
       THEN End(r, "done")
       ELSE Goto(r, "store") /\ UNCHANGED <<requestVars, gen, served, retried>>
  /\ UNCHANGED <<driver, cacheVars, txVars, lock, todo, evicts>>

Store(r) ==
  /\ pc[r] = "store"
  /\ active' = active \cup {r}
  /\ End(r, "begun")
  /\ UNCHANGED <<driver, cacheVars, taken, lock, todo, evicts>>

InStatement(t) == \E q \in Requests : target[q] = t /\ pc[q] = "statement"

(* The slot of the transaction: a statement takes an Arc of it, the end takes it out
   of the store. *)
Slot(r) ==
  /\ pc[r] = "slot"
  /\ IF target[r] \in active
       THEN /\ Goto(r, IF op[r] = "execute" THEN "waiting" ELSE "take")
            /\ UNCHANGED <<requestVars, gen, served, retried>>
       ELSE End(r, "done")
  /\ active' = IF op[r] = "finish" THEN active \ {target[r]} ELSE active
  /\ UNCHANGED <<driver, cacheVars, taken, lock, todo, evicts>>

(* A statement runs under the lock of the slot, unless the transaction was taken. *)
Statement(r) ==
  /\ \/ /\ pc[r] = "waiting"
        /\ ~ InStatement(target[r])
        /\ target[r] \notin taken
        /\ Goto(r, "statement")
        /\ UNCHANGED <<requestVars, gen, served, retried>>
     \/ /\ pc[r] = "waiting"
        /\ ~ InStatement(target[r])
        /\ target[r] \in taken
        /\ End(r, "done")
     \/ /\ pc[r] = "statement"
        /\ End(r, "done")
  /\ UNCHANGED <<driver, cacheVars, txVars, lock, todo, evicts>>

Take_NoLock(r) ==
  /\ pc[r] = "take"
  /\ taken' = taken \cup {target[r]}
  /\ End(r, "done")
  /\ UNCHANGED <<driver, cacheVars, active, lock, todo, evicts>>

(* finish_transaction takes the transaction under the lock and commits or rolls back. *)
Take(r) ==
  /\ pc[r] = "take"
  /\ ~ InStatement(target[r])
  /\ taken' = taken \cup {target[r]}
  /\ End(r, "done")
  /\ UNCHANGED <<driver, cacheVars, active, lock, todo, evicts>>

-----------------------------------------------------------------------------
(* The view saves an edited connection, or closes its last tab or deletes it, and evicts
   the pools of its id. *)
Ask ==
  /\ pc[View] = "done"
  /\ evicts < MaxEvicts
  /\ evicts' = evicts + 1
  /\ Goto(View, "evict")
  /\ UNCHANGED <<driver, cacheVars, txVars, requestVars, gen, lock, served, todo, retried>>

(* A retry goes on with a new generation, the view with its next event. *)
Evicted(p) ==
  /\ Goto(p, IF p = View THEN "done" ELSE "draw")
  /\ gen' = [gen EXCEPT ![p] = None]

(* evict_pool: nothing while a transaction is open *)
Evict(p) ==
  /\ pc[p] = "evict"
  /\ IF driver = "sql" /\ HasActive THEN Evicted(p) ELSE Goto(p, "retire") /\ UNCHANGED gen
  /\ UNCHANGED <<driver, cacheVars, txVars, requestVars, lock, served, todo, retried, evicts>>

(* PoolCache::evict: the generation first, *)
Retire(p) ==
  /\ pc[p] = "retire"
  /\ generation' = None
  /\ CASE generation # None -> gen' = [gen EXCEPT ![p] = generation] /\ Goto(p, "forget")
       [] generation = None /\ driver = "sql" -> Goto(p, "clear") /\ UNCHANGED gen
       [] OTHER -> Evicted(p)
  /\ UNCHANGED <<driver, clock, locks, pools, older, txVars, requestVars, lock, served, todo,
                 retried, evicts>>

(* then its build locks, *)
Forget(p) ==
  /\ pc[p] = "forget"
  /\ locks' = [k \in Keys |-> IF k.gen = gen[p] THEN NoLock ELSE locks[k]]
  /\ todo'  = [todo EXCEPT ![p] = Dbs]
  /\ Goto(p, "sweep")
  /\ UNCHANGED <<driver, generation, clock, pools, older, txVars, requestVars, gen, lock,
                 served, retried, evicts>>

(* then its pools, one entry at a time, *)
Sweep(p) ==
  /\ pc[p] = "sweep"
  /\ \/ \E d \in todo[p] :
           /\ todo' = [todo EXCEPT ![p] = todo[p] \ {d}]
           /\ IF pools[d].gen = gen[p] THEN Drop(d) ELSE UNCHANGED <<pools, older>>
           /\ UNCHANGED <<pc, gen>>
     \/ /\ todo[p] = {}
        /\ IF driver = "sql" THEN Goto(p, "clear") /\ UNCHANGED gen ELSE Evicted(p)
        /\ UNCHANGED <<pools, older, todo>>
  /\ UNCHANGED <<driver, generation, clock, locks, txVars, requestVars, lock, served, retried,
                 evicts>>

(* and last what transactions there are now. *)
Clear(p) ==
  /\ pc[p] = "clear"
  /\ active' = {}
  /\ Evicted(p)
  /\ UNCHANGED <<driver, cacheVars, taken, requestVars, lock, served, todo, retried, evicts>>

-----------------------------------------------------------------------------
Terminated ==
  /\ \A p \in Processes : pc[p] \in {"begun", "done"}
  /\ UNCHANGED vars

Next ==
  \/ \E r \in Requests :
       \/ \E o \in Ops, d \in Dbs, t \in Processes : Start(r, o, d, t)
       \/ Draw(r) \/ Look(r) \/ Key(r) \/ Lock(r) \/ Recheck(r) \/ Build(r)
       \/ Admit(r) \/ Put(r) \/ Confirm(r) \/ Undo(r) \/ Enforce(r) \/ Trim(r)
       \/ Use(r) \/ Fail(r) \/ Count(r) \/ Store(r)
       \/ Slot(r) \/ Statement(r) \/ Take(r)
  \/ Ask
  \/ \E p \in Processes :
       Evict(p) \/ Retire(p) \/ Forget(p) \/ Sweep(p) \/ Clear(p)
  \/ Terminated

Spec == Init /\ [][Next]_vars

-----------------------------------------------------------------------------
(* A cached pool is of the current generation, unless an eviction that retired its
   generation has still to sweep it or the request that put it there has still to
   confirm it: no order of insert and evict leaves a retired pool behind. *)
RetiredIsSwept ==
  \A d \in Databases :
    pools[d] # NoPool /\ pools[d].gen # generation =>
      \E p \in Processes :
        /\ gen[p] = pools[d].gen
        /\ \/ pc[p] = "forget"
           \/ pc[p] = "sweep" /\ d \in todo[p]
           \/ p \in Requests /\ db[p] = d /\ pc[p] \in {"confirm", "undo"}

(* Two requests never build a pool for the same database and the same current
   generation at once: the second waits for the first. *)
OneBuild ==
  \A q, r \in Requests :
    /\ q # r /\ db[q] = db[r] /\ gen[q] = gen[r]
    /\ pc[q] \in {"build", "admit", "put"} /\ pc[r] \in {"build", "admit", "put"}
    => ~ Current(r)

(* A pool of the current generation leaves the cache only by an eviction or by the
   limit: a request of a retired generation never replaces or removes it. *)
NewPoolStays ==
  [][\A d \in Databases :
       pools[d] # NoPool /\ pools[d].gen = generation /\ pools'[d] # pools[d] =>
         \E r \in Requests : pc[r] = "trim" /\ d \in todo[r]]_vars

(* Redis keeps no more pools than the limit once no pass over them is under way. *)
LruBound ==
  (driver = "redis" /\ \A r \in Requests : pc[r] \notin {"confirm", "undo", "enforce", "trim"}) =>
    Cardinality({d \in Databases : pools[d] # NoPool /\ pools[d].gen = generation}) <= MaxCached

(* No statement of a transaction runs after it was taken for its commit or rollback. *)
StatementsInside == \A t \in taken : ~ InStatement(t)
=============================================================================
