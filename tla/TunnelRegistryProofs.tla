------------------------ MODULE TunnelRegistryProofs ------------------------
(***************************************************************************)
(* The two safety invariants of TunnelRegistry, for any threads,           *)
(* connections, ports and limits.  Neither is inductive: that no process   *)
(* goes astray rests on the slot locks (LocksOK) and on call numbers being *)
(* used once (CallsOK), and that a slot nobody shares keeps its place in   *)
(* the registry on what the one thread that works on it has seen           *)
(* (UnsharedOK).                                                           *)
(***************************************************************************)
EXTENDS TunnelRegistry, TLAPS

InEnsure(t) == pc[t] \in {"lock", "spawn", "probe", "cleanup", "look", "remove"}
Uses(t, s)  == slot[t] = s \/ s \in drained[t]

CallsOK ==
  /\ \A t \in Threads : /\ call[t] <= calls
                        /\ slot[t] <= calls
                        /\ \A s \in drained[t] : s <= calls
  /\ \A i \in Ids : registry[i] <= calls
  /\ \A s \in Calls : tunnel[s] <= calls
  /\ \A t, u \in Threads : call[t] = call[u] /\ call[t] # None => t = u

LocalsOK ==
  \A t \in Threads :
    /\ pc[t] = "idle" => slot[t] = None /\ drained[t] = {}
    /\ pc[t] # "idle" => slot[t] # None /\ call[t] # None
    /\ InEnsure(t) => drained[t] = {} /\ request[t] # NoRequest
    /\ pc[t] = "probe" => request[t] \in Building
    /\ pc[t] \in {"lock", "spawn", "probe"} => \A s \in Calls : tunnel[s] # call[t]

LocksOK ==
  /\ \A t \in Threads : pc[t] \in {"spawn", "probe"} =>
        lockedBy[slot[t]] = t /\ tunnel[slot[t]] = None
  /\ \A t \in Threads : pc[t] \in {"look", "remove"} => cleaner = t
  /\ \A t \in Threads : pc[t] = "remove" => registry[request[t].conn] = slot[t]

UnsharedOK ==
  /\ \A t, u \in Threads, s \in Calls \ shared : Uses(t, s) /\ Uses(u, s) => t = u
  /\ \A t \in Threads : InEnsure(t) /\ slot[t] \notin shared =>
        /\ registry[request[t].conn] = slot[t]
        /\ pc[t] = "remove" => tunnel[slot[t]] = None

IInv == TypeOK /\ CallsOK /\ LocalsOK /\ LocksOK /\ UnsharedOK /\ NoStrayProcess
          /\ UnsharedNeverLeaks

-----------------------------------------------------------------------------
(* The bound on calls is a number and nobody is not a thread, so a slot or a
   process number is never None. *)
LEMMA CallNumbers == /\ Calls \subseteq Nat /\ None \notin Calls
                     /\ \A n \in 0..MaxCalls : n # None => n \in Calls
                     /\ None \in 0..MaxCalls /\ Calls \subseteq 0..MaxCalls
                     /\ NoThread \notin Threads /\ MaxCalls \in Nat
BY TunnelConstants DEF Calls, None

(* A request that is not NoRequest names a connection and a configuration. *)
LEMMA RequestFields ==
  ASSUME NEW r \in Request \cup Building \cup {NoRequest}, r # NoRequest
  PROVE  r.conn \in Ids /\ r.conf \in Configs
BY DEF Request, Building, NoRequest

(* Killing keeps the table of processes well-typed and revives nobody. *)
LEMMA KilledType ==
  ASSUME TypeOK, NEW n \in 0..MaxCalls
  PROVE  /\ Killed(n) \in [Calls -> Processes]
         /\ \A m \in Calls : m # n => Killed(n)[m] = process[m]
         /\ n # None => Killed(n)[n] = NoProcess
BY CallNumbers DEF TypeOK, Killed, Processes

(* The table after a spawn *)
LEMMA SpawnType ==
  ASSUME TypeOK, NEW n \in Calls, NEW c \in Configs, NEW q \in Ports
  PROVE  [process EXCEPT ![n] = [up |-> FALSE, conf |-> c, port |-> q]]
            \in [Calls -> Processes]
BY DEF TypeOK, Processes

(* The table when ssh starts to listen *)
LEMMA ListenType ==
  ASSUME TypeOK, NEW n \in Calls, Alive(n)
  PROVE  /\ [process EXCEPT ![n].up = TRUE]
              \in [Calls -> Processes]
         /\ \A m \in Calls : m # n => [process EXCEPT ![n].up = TRUE][m] = process[m]
<1> DEFINE P == [up : BOOLEAN, conf : Configs, port : Ports]
<1>1. process[n] \in P
  BY DEF TypeOK, Alive, Processes
<1>2. [process[n] EXCEPT !.up = TRUE] \in P
  BY <1>1
<1>. QED  BY <1>2 DEF TypeOK, Processes

(* The initial state satisfies the invariant. *)
LEMMA InitOK == Init => IInv
<1>. SUFFICES ASSUME Init PROVE IInv
  OBVIOUS
<1>. USE CallNumbers DEF Init
<1>1. TypeOK
  BY DEF TypeOK, PCs, None, Processes
<1>2. CallsOK /\ LocalsOK /\ LocksOK
  BY DEF CallsOK, LocalsOK, LocksOK, InEnsure, None
<1>3. UnsharedOK /\ NoStrayProcess /\ UnsharedNeverLeaks
  BY DEF UnsharedOK, Uses, InEnsure, NoStrayProcess, UnsharedNeverLeaks, Alive, None
<1>. QED  BY <1>1, <1>2, <1>3 DEF IInv

(* A step of the operating system leaves the threads alone and revives no
   process. *)
LEMMA ProcessStep ==
  ASSUME IInv, NEW n \in Calls, SshListens(n) \/ SshDies(n)
  PROVE  IInv'
<1>. USE CallNumbers
<1>0. TypeOK /\ n \in 0..MaxCalls /\ n # None
  BY DEF IInv, Calls, None
<1>1. /\ UNCHANGED <<registry, cleaner, lockedBy, tunnel, threadVars>>
      /\ process' \in [Calls -> Processes]
      /\ \A m \in Calls : Alive(m)' => Alive(m)
  <2>1. /\ UNCHANGED <<registry, cleaner, lockedBy, tunnel, threadVars>>
        /\ \/ process' = Killed(n)
           \/ Alive(n) /\ process' = [process EXCEPT ![n].up = TRUE]
    BY DEF SshListens, SshDies
  <2>2. /\ process' \in [Calls -> Processes]
        /\ \A m \in Calls : m # n => process'[m] = process[m]
        /\ Alive(n)' => Alive(n)
    <3>1. CASE process' = Killed(n)
      BY <1>0, <3>1, KilledType DEF Alive
    <3>2. CASE Alive(n) /\ process' = [process EXCEPT ![n].up = TRUE]
      BY <1>0, <3>2, ListenType
    <3>. QED  BY <2>1, <3>1, <3>2
  <2>. QED  BY <2>1, <2>2 DEF Alive
<1>2. TypeOK'
  BY <1>1 DEF TypeOK, threadVars, IInv
<1>3. CallsOK' /\ LocalsOK' /\ LocksOK' /\ UnsharedOK'
  BY <1>1 DEF threadVars, IInv, CallsOK, LocalsOK, LocksOK, UnsharedOK, InEnsure, Uses
<1>4. NoStrayProcess'
  BY <1>1 DEF threadVars, IInv, NoStrayProcess
<1>5. UnsharedNeverLeaks'
  <2>1. \A s \in Calls : Alive(tunnel[s])' => Alive(tunnel[s])
    BY <1>1 DEF IInv, TypeOK, Alive
  <2>. QED  BY <1>1, <2>1 DEF threadVars, IInv, UnsharedNeverLeaks, Registered
<1>. QED  BY <1>2, <1>3, <1>4, <1>5 DEF IInv
(* slot_for gives the thread a slot: the registered one, or a new one that
   carries the call's fresh number. *)
LEMMA SlotForStep ==
  ASSUME IInv, NEW t \in Threads, NEW r \in Request, SlotFor(t, r)
  PROVE  IInv'
<1>. USE CallNumbers
<1>0. TypeOK /\ CallsOK /\ LocalsOK /\ LocksOK /\ UnsharedOK /\ NoStrayProcess /\ UnsharedNeverLeaks
  BY DEF IInv
<1>r. r.conn \in Ids /\ r # NoRequest
  BY DEF Request, NoRequest
<1>1. PICK s \in Calls :
        /\ pc[t] = "idle" /\ cleaner = NoThread
        /\ calls \in Nat /\ calls + 1 \in Calls
        /\ s = registry[r.conn] \/ (registry[r.conn] = None /\ s = calls + 1)
        /\ registry' = [registry EXCEPT ![r.conn] = s]
        /\ slot'     = [slot EXCEPT ![t] = s]
        /\ drained'  = [drained EXCEPT ![t] = {}]
        /\ shared'   = shared \cup {x \in {s} : Others(t, x) # {}}
        /\ request'  = [request EXCEPT ![t] = r]
        /\ pc'       = [pc EXCEPT ![t] = "lock"]
        /\ call'     = [call EXCEPT ![t] = calls + 1]
        /\ calls'    = calls + 1
        /\ UNCHANGED <<cleaner, lockedBy, tunnel, process>>
  <2> DEFINE s == IF registry[r.conn] # None THEN registry[r.conn] ELSE calls + 1
  <2>1. calls \in Nat /\ calls + 1 \in Calls
    BY <1>0 DEF SlotFor, BeginCall, TypeOK, Calls
  <2>2. s \in Calls
    BY <1>0, <1>r, <2>1 DEF TypeOK
  <2>3. {s} \ {s} = {}
    OBVIOUS
  <2>. QED  BY <2>1, <2>2, <2>3 DEF SlotFor, BeginCall, Hold, At
<1>2. TypeOK'
  <2>1. shared' \in SUBSET Calls /\ calls' \in 0..MaxCalls
    <3>1. {x \in {s} : Others(t, x) # {}} \subseteq Calls
      OBVIOUS
    <3>. QED  BY <1>0, <1>1, <3>1 DEF TypeOK
  <2>2. call' \in [Threads -> 0..MaxCalls] /\ slot' \in [Threads -> 0..MaxCalls]
    BY <1>0, <1>1 DEF TypeOK, Calls
  <2>3. request' \in [Threads -> Request \cup Building \cup {NoRequest}]
    BY <1>0, <1>1 DEF TypeOK
  <2>4. registry' \in [Ids -> 0..MaxCalls]
    BY <1>0, <1>1, <1>r DEF TypeOK
  <2>6. drained' \in [Threads -> SUBSET Calls]
    BY <1>0, <1>1 DEF TypeOK
  <2>5. pc' \in [Threads -> PCs]
    BY <1>0, <1>1 DEF TypeOK, PCs
  <2>. QED  BY <1>0, <1>1, <2>1, <2>2, <2>3, <2>4, <2>5, <2>6 DEF TypeOK
<1>3. CallsOK'
  BY <1>0, <1>1, <1>2 DEF CallsOK, TypeOK, None
<1>4. LocalsOK'
  <2>1. \A x \in Calls : tunnel[x] # calls + 1
    BY <1>0, <1>1 DEF CallsOK, TypeOK
  <2>2. ASSUME NEW u \in Threads, u # t PROVE
          /\ pc'[u] = pc[u] /\ slot'[u] = slot[u] /\ drained'[u] = drained[u]
          /\ call'[u] = call[u] /\ request'[u] = request[u]
    BY <1>0, <1>1, <2>2 DEF TypeOK
  <2>3. /\ pc'[t] = "lock" /\ slot'[t] = s /\ drained'[t] = {} /\ call'[t] = calls + 1
        /\ request'[t] = r
    BY <1>0, <1>1 DEF TypeOK
  <2>. QED  BY <1>0, <1>1, <1>r, <2>1, <2>2, <2>3 DEF LocalsOK, InEnsure
<1>5. LocksOK'
  <2>1. \A u \in Threads : pc'[u] = "remove" => pc[u] = "remove" /\ cleaner = u
    BY <1>0, <1>1 DEF LocksOK, TypeOK
  <2>. QED  BY <1>0, <1>1, <2>1 DEF LocksOK, TypeOK
<1>6. UnsharedOK'
  <2>1. \A x \in Calls \ shared' : \A u \in Threads : Uses(u, x)' /\ x = s => u = t
    BY <1>0, <1>1 DEF Uses, Others, TypeOK
  <2>2. \A x \in Calls \ shared' : x # s => \A u \in Threads : Uses(u, x)' => Uses(u, x)
    BY <1>0, <1>1 DEF Uses, TypeOK
  <2>3. \A u, v \in Threads, x \in Calls \ shared' : Uses(u, x)' /\ Uses(v, x)' => u = v
    BY <1>0, <1>1, <2>1, <2>2 DEF UnsharedOK
  <2>4. ASSUME NEW u \in Threads, InEnsure(u)', slot'[u] \notin shared'
        PROVE  registry'[request'[u].conn] = slot'[u] /\ (pc'[u] = "remove" => tunnel'[slot'[u]] = None)
    <3>1. CASE u = t
      BY <1>0, <1>1, <1>r, <3>1 DEF TypeOK
    <3>2. CASE u # t
      <4>1. InEnsure(u) /\ slot'[u] = slot[u] /\ request'[u] = request[u] /\ pc'[u] = pc[u]
        BY <1>0, <1>1, <2>4, <3>2 DEF InEnsure, TypeOK
      <4>2. registry[request[u].conn] = slot[u] /\ (pc[u] = "remove" => tunnel[slot[u]] = None)
        BY <1>0, <1>1, <2>4, <4>1 DEF UnsharedOK
      <4>3. request[u].conn \in Ids /\ slot[u] # None
        BY <1>0, <4>1, RequestFields DEF LocalsOK, TypeOK, InEnsure
      <4>. QED  BY <1>0, <1>1, <4>1, <4>2, <4>3 DEF TypeOK
    <3>. QED  BY <3>1, <3>2
  <2>. QED  BY <2>3, <2>4 DEF UnsharedOK
<1>7. NoStrayProcess'
  BY <1>0, <1>1 DEF NoStrayProcess, Alive, TypeOK
<1>8. UnsharedNeverLeaks'
  <2>1. \A x \in Calls : Registered(x) => Registered(x)'
    BY <1>0, <1>1 DEF Registered, TypeOK
  <2>2. \A u \in Threads, x \in Calls : slot[u] = x \/ x \in drained[u] => slot'[u] = x \/ x \in drained'[u]
    BY <1>0, <1>1 DEF TypeOK, LocalsOK
  <2>. QED  BY <1>0, <1>1, <2>1, <2>2 DEF UnsharedNeverLeaks, Alive
<1>. QED  BY <1>2, <1>3, <1>4, <1>5, <1>6, <1>7, <1>8 DEF IInv

(* The tunnel in the slot is used again. *)
LEMMA LockSlotReuse ==
  ASSUME IInv, NEW t \in Threads, pc[t] = "lock", Return(t),
         UNCHANGED <<registry, cleaner, lockedBy, tunnel, process>>
  PROVE  IInv'
<1>. USE CallNumbers
<1>0. TypeOK /\ CallsOK /\ LocalsOK /\ LocksOK /\ UnsharedOK /\ NoStrayProcess /\ UnsharedNeverLeaks
  BY DEF IInv
<1>1. /\ pc' = [pc EXCEPT ![t] = "idle"]
      /\ call' = [call EXCEPT ![t] = None]
      /\ request' = [request EXCEPT ![t] = NoRequest]
      /\ slot' = [slot EXCEPT ![t] = None]
      /\ UNCHANGED <<registry, cleaner, lockedBy, tunnel, process, drained, calls, shared>>
  BY DEF Return
<1>2. /\ pc'[t] = "idle" /\ slot'[t] = None /\ drained'[t] = {} /\ call'[t] = None
      /\ request'[t] = NoRequest
      /\ \A u \in Threads : u # t => /\ pc'[u] = pc[u] /\ slot'[u] = slot[u]
                                     /\ drained'[u] = drained[u] /\ call'[u] = call[u]
                                     /\ request'[u] = request[u]
  BY <1>0, <1>1 DEF TypeOK, LocalsOK, InEnsure
<1>3. TypeOK'
  BY <1>0, <1>1 DEF TypeOK, PCs
<1>4. CallsOK'
  BY <1>0, <1>1, <1>2 DEF CallsOK, TypeOK, None
<1>5. LocalsOK'
  BY <1>0, <1>1, <1>2 DEF LocalsOK, InEnsure, TypeOK
<1>6. LocksOK'
  BY <1>0, <1>1, <1>2 DEF LocksOK, LocalsOK, InEnsure, TypeOK
<1>7. UnsharedOK'
  BY <1>0, <1>1, <1>2 DEF UnsharedOK, LocalsOK, InEnsure, Uses, TypeOK
<1>8. NoStrayProcess'
  BY <1>0, <1>1, <1>2 DEF NoStrayProcess, Alive, LocalsOK, LocksOK, TypeOK
<1>9. UnsharedNeverLeaks'
  <2>1. slot[t] \notin shared => Registered(slot[t])
    BY <1>0, <1>1, RequestFields DEF UnsharedOK, InEnsure, LocalsOK, Registered, TypeOK
  <2>2. drained[t] = {}
    BY <1>0, <1>1 DEF LocalsOK, InEnsure
  <2>. QED  BY <1>0, <1>1, <1>2, <2>1, <2>2 DEF UnsharedNeverLeaks, Registered, Alive, TypeOK
<1>. QED  BY <1>3, <1>4, <1>5, <1>6, <1>7, <1>8, <1>9 DEF IInv

(* The slot is locked and what was in it is stopped. *)
LEMMA LockSlotTake ==
  ASSUME IInv, NEW t \in Threads, pc[t] = "lock", lockedBy[slot[t]] = NoThread,
         lockedBy' = [lockedBy EXCEPT ![slot[t]] = t],
         tunnel' = [tunnel EXCEPT ![slot[t]] = None],
         process' = Killed(tunnel[slot[t]]), At(t, "spawn"),
         UNCHANGED <<registry, cleaner, call, request, slot, drained, calls, shared>>
  PROVE  IInv'
<1>. USE CallNumbers
<1>0. TypeOK /\ CallsOK /\ LocalsOK /\ LocksOK /\ UnsharedOK /\ NoStrayProcess /\ UnsharedNeverLeaks
  BY DEF IInv
<1>1. /\ slot[t] \in Calls /\ tunnel[slot[t]] \in 0..MaxCalls
      /\ lockedBy' = [lockedBy EXCEPT ![slot[t]] = t]
      /\ tunnel' = [tunnel EXCEPT ![slot[t]] = None]
      /\ process' \in [Calls -> Processes]
      /\ \A m \in Calls : m # tunnel[slot[t]] => process'[m] = process[m]
      /\ tunnel[slot[t]] # None => process'[tunnel[slot[t]]] = NoProcess
      /\ pc' = [pc EXCEPT ![t] = "spawn"]
      /\ UNCHANGED <<registry, cleaner, call, request, slot, drained, calls, shared>>
  <2>1. slot[t] \in Calls /\ tunnel[slot[t]] \in 0..MaxCalls
    BY <1>0 DEF TypeOK, LocalsOK
  <2>. QED  BY <1>0, <2>1, KilledType DEF At
<1>2. /\ pc'[t] = "spawn"
      /\ call'[t] = call[t] /\ slot'[t] = slot[t] /\ drained'[t] = drained[t]
      /\ request'[t] = request[t]
      /\ tunnel'[slot[t]] = None
      /\ \A x \in Calls : x # slot[t] => tunnel'[x] = tunnel[x]
      /\ \A u \in Threads : u # t => /\ pc'[u] = pc[u] /\ slot'[u] = slot[u]
                                     /\ drained'[u] = drained[u] /\ call'[u] = call[u]
                                     /\ request'[u] = request[u]
  BY <1>0, <1>1 DEF TypeOK, LocalsOK, InEnsure
<1>3. TypeOK'
  BY <1>0, <1>1 DEF TypeOK, PCs
<1>4. CallsOK'
  BY <1>0, <1>1, <1>2 DEF CallsOK, TypeOK, None
<1>5. LocalsOK'
  BY <1>0, <1>1, <1>2 DEF LocalsOK, InEnsure, TypeOK
<1>6. LocksOK'
  BY <1>0, <1>1, <1>2 DEF LocksOK, LocalsOK, InEnsure, TypeOK
<1>7. UnsharedOK'
  BY <1>0, <1>1, <1>2 DEF UnsharedOK, LocalsOK, InEnsure, Uses, TypeOK
<1>8. NoStrayProcess'
  BY <1>0, <1>1, <1>2 DEF NoStrayProcess, Alive, LocalsOK, LocksOK, TypeOK
<1>9. UnsharedNeverLeaks'
  BY <1>0, <1>1, <1>2 DEF UnsharedNeverLeaks, Registered, Alive, LocalsOK, UnsharedOK, InEnsure, TypeOK
<1>. QED  BY <1>3, <1>4, <1>5, <1>6, <1>7, <1>8, <1>9 DEF IInv

(* ssh is started for the thread's call. *)
LEMMA SpawnStep ==
  ASSUME IInv, NEW t \in Threads, Spawn(t)
  PROVE  IInv'
<1>. USE CallNumbers
<1>0. TypeOK /\ CallsOK /\ LocalsOK /\ LocksOK /\ UnsharedOK /\ NoStrayProcess /\ UnsharedNeverLeaks
  BY DEF IInv
<1>1. /\ slot[t] \in Calls /\ call[t] \in Calls
      /\ pc[t] = "spawn"
      /\ process' \in [Calls -> Processes]
      /\ \A m \in Calls : m # call[t] => process'[m] = process[m]
      /\ request'[t] \in Building /\ request'[t].conn = request[t].conn
      /\ request' \in [Threads -> Request \cup Building \cup {NoRequest}]
      /\ \A u \in Threads : u # t => request'[u] = request[u]
      /\ pc' = [pc EXCEPT ![t] = "probe"]
      /\ UNCHANGED <<registry, cleaner, lockedBy, tunnel, call, slot, drained, calls, shared>>
  <2>1. slot[t] \in Calls /\ call[t] \in Calls /\ request[t].conn \in Ids /\ request[t].conf \in Configs
    BY <1>0, RequestFields DEF Spawn, TypeOK, LocalsOK, InEnsure
  <2>2. PICK q \in Ports :
          /\ process' = [process EXCEPT ![call[t]] = [up |-> FALSE, conf |-> request[t].conf, port |-> q]]
          /\ request' = [request EXCEPT ![t] = [conn |-> request[t].conn, conf |-> request[t].conf, port |-> q]]
    BY <1>0 DEF Spawn, TypeOK
  <2>3. process' \in [Calls -> Processes]
    BY <1>0, <2>1, <2>2, SpawnType
  <2>4. [conn |-> request[t].conn, conf |-> request[t].conf, port |-> q] \in Building
    BY <2>1 DEF Building
  <2>5. request'[t] = [conn |-> request[t].conn, conf |-> request[t].conf, port |-> q]
    BY <1>0, <2>2 DEF TypeOK
  <2>. QED  BY <1>0, <2>1, <2>2, <2>3, <2>4, <2>5 DEF Spawn, At, TypeOK
<1>2. /\ pc'[t] = "probe"
      /\ call'[t] = call[t] /\ slot'[t] = slot[t] /\ drained'[t] = drained[t]
      /\ request'[t] # NoRequest
      /\ \A u \in Threads : u # t => /\ pc'[u] = pc[u] /\ slot'[u] = slot[u]
                                     /\ drained'[u] = drained[u] /\ call'[u] = call[u]
                                     /\ request'[u] = request[u]
  <2>1. request'[t] # NoRequest
    BY <1>1 DEF Building, NoRequest
  <2>. QED  BY <1>0, <1>1, <2>1 DEF TypeOK
<1>3. TypeOK'
  BY <1>0, <1>1 DEF TypeOK, PCs
<1>4. CallsOK'
  BY <1>0, <1>1, <1>2 DEF CallsOK, TypeOK, None
<1>5. LocalsOK'
  BY <1>0, <1>1, <1>2 DEF LocalsOK, InEnsure, TypeOK
<1>6. LocksOK'
  BY <1>0, <1>1, <1>2 DEF LocksOK, LocalsOK, InEnsure, TypeOK
<1>7. UnsharedOK'
  BY <1>0, <1>1, <1>2 DEF UnsharedOK, LocalsOK, InEnsure, Uses, TypeOK
<1>8. NoStrayProcess'
  BY <1>0, <1>1, <1>2 DEF NoStrayProcess, Alive, LocalsOK, LocksOK, TypeOK
<1>9. UnsharedNeverLeaks'
  BY <1>0, <1>1, <1>2 DEF UnsharedNeverLeaks, Registered, Alive, LocalsOK, UnsharedOK, InEnsure, TypeOK
<1>. QED  BY <1>3, <1>4, <1>5, <1>6, <1>7, <1>8, <1>9 DEF IInv

(* The finished tunnel goes into the slot and the slot is unlocked. *)
LEMMA ProbeStep ==
  ASSUME IInv, NEW t \in Threads, Probe(t)
  PROVE  IInv'
<1>. USE CallNumbers
<1>0. TypeOK /\ CallsOK /\ LocalsOK /\ LocksOK /\ UnsharedOK /\ NoStrayProcess /\ UnsharedNeverLeaks
  BY DEF IInv
<1>1. /\ slot[t] \in Calls /\ call[t] \in Calls
      /\ pc[t] = "probe"
      /\ tunnel' = [tunnel EXCEPT ![slot[t]] = call[t]]
      /\ lockedBy' = [lockedBy EXCEPT ![slot[t]] = NoThread]
      /\ pc' = [pc EXCEPT ![t] = "idle"]
      /\ call' = [call EXCEPT ![t] = None]
      /\ request' = [request EXCEPT ![t] = NoRequest]
      /\ slot' = [slot EXCEPT ![t] = None]
      /\ UNCHANGED <<registry, cleaner, process, drained, calls, shared>>
  BY <1>0 DEF Probe, Return, TypeOK, LocalsOK
<1>2. /\ pc'[t] = "idle" /\ slot'[t] = None /\ drained'[t] = {} /\ call'[t] = None
      /\ request'[t] = NoRequest
      /\ tunnel'[slot[t]] = call[t]
      /\ \A x \in Calls : x # slot[t] => tunnel'[x] = tunnel[x]
      /\ \A u \in Threads : u # t /\ pc[u] \in {"spawn", "probe"} => slot[u] # slot[t]
      /\ \A u \in Threads : u # t => /\ pc'[u] = pc[u] /\ slot'[u] = slot[u]
                                     /\ drained'[u] = drained[u] /\ call'[u] = call[u]
                                     /\ request'[u] = request[u]
  BY <1>0, <1>1 DEF TypeOK, LocalsOK, LocksOK, InEnsure
<1>3. TypeOK'
  BY <1>0, <1>1 DEF TypeOK, PCs
<1>4. CallsOK'
  BY <1>0, <1>1, <1>2 DEF CallsOK, TypeOK, None
<1>5. LocalsOK'
  BY <1>0, <1>1, <1>2 DEF CallsOK, LocalsOK, InEnsure, TypeOK, None
<1>6. LocksOK'
  BY <1>0, <1>1, <1>2 DEF LocksOK, LocalsOK, InEnsure, TypeOK
<1>7. UnsharedOK'
  BY <1>0, <1>1, <1>2 DEF UnsharedOK, LocalsOK, InEnsure, Uses, TypeOK
<1>8. NoStrayProcess'
  BY <1>0, <1>1, <1>2 DEF NoStrayProcess, Alive, LocalsOK, LocksOK, TypeOK
<1>9. UnsharedNeverLeaks'
  <2>1. slot[t] \notin shared => Registered(slot[t])
    BY <1>0, <1>1, RequestFields DEF UnsharedOK, InEnsure, LocalsOK, Registered, TypeOK
  <2>2. drained[t] = {}
    BY <1>0, <1>1 DEF LocalsOK, InEnsure
  <2>. QED  BY <1>0, <1>1, <1>2, <2>1, <2>2 DEF UnsharedNeverLeaks, Registered, Alive, TypeOK
<1>. QED  BY <1>3, <1>4, <1>5, <1>6, <1>7, <1>8, <1>9 DEF IInv

(* The process of a failed build is terminated and the slot unlocked. *)
LEMMA BuildFailsStep ==
  ASSUME IInv, NEW t \in Threads, BuildFails(t)
  PROVE  IInv'
<1>. USE CallNumbers
<1>0. TypeOK /\ CallsOK /\ LocalsOK /\ LocksOK /\ UnsharedOK /\ NoStrayProcess /\ UnsharedNeverLeaks
  BY DEF IInv
<1>1. /\ slot[t] \in Calls /\ call[t] \in Calls
      /\ pc[t] \in {"spawn", "probe"}
      /\ process' \in [Calls -> Processes]
      /\ \A m \in Calls : m # call[t] => process'[m] = process[m]
      /\ process'[call[t]] \in {process[call[t]], NoProcess}
      /\ pc[t] = "probe" => process'[call[t]] = NoProcess
      /\ lockedBy' = [lockedBy EXCEPT ![slot[t]] = NoThread]
      /\ pc' = [pc EXCEPT ![t] = "cleanup"]
      /\ UNCHANGED <<registry, cleaner, tunnel, call, request, slot, drained, calls, shared>>
  <2>1. slot[t] \in Calls /\ call[t] \in Calls /\ call[t] \in 0..MaxCalls /\ call[t] # None
    BY <1>0 DEF BuildFails, TypeOK, LocalsOK
  <2>. QED  BY <1>0, <2>1, KilledType DEF BuildFails, At, TypeOK
<1>2. /\ pc'[t] = "cleanup"
      /\ call'[t] = call[t] /\ slot'[t] = slot[t] /\ drained'[t] = drained[t]
      /\ request'[t] = request[t]
      /\ \A u \in Threads : u # t /\ pc[u] \in {"spawn", "probe"} => slot[u] # slot[t]
      /\ \A u \in Threads : u # t => /\ pc'[u] = pc[u] /\ slot'[u] = slot[u]
                                     /\ drained'[u] = drained[u] /\ call'[u] = call[u]
                                     /\ request'[u] = request[u]
  BY <1>0, <1>1 DEF TypeOK, LocksOK
<1>3. TypeOK'
  BY <1>0, <1>1 DEF TypeOK, PCs
<1>4. CallsOK'
  BY <1>0, <1>1, <1>2 DEF CallsOK, TypeOK, None
<1>5. LocalsOK'
  BY <1>0, <1>1, <1>2 DEF LocalsOK, InEnsure, TypeOK
<1>6. LocksOK'
  BY <1>0, <1>1, <1>2 DEF LocksOK, LocalsOK, InEnsure, TypeOK
<1>7. UnsharedOK'
  BY <1>0, <1>1, <1>2 DEF UnsharedOK, LocalsOK, InEnsure, Uses, TypeOK
<1>8. NoStrayProcess'
  BY <1>0, <1>1, <1>2 DEF NoStrayProcess, Alive, LocalsOK, LocksOK, TypeOK
<1>9. UnsharedNeverLeaks'
  BY <1>0, <1>1, <1>2 DEF UnsharedNeverLeaks, Registered, Alive, LocalsOK, UnsharedOK, InEnsure, TypeOK
<1>. QED  BY <1>3, <1>4, <1>5, <1>6, <1>7, <1>8, <1>9 DEF IInv

(* remove_unused_slot takes the registry lock. *)
LEMMA LockRegistryStep ==
  ASSUME IInv, NEW t \in Threads, LockRegistry(t)
  PROVE  IInv'
<1>. USE CallNumbers
<1>0. TypeOK /\ CallsOK /\ LocalsOK /\ LocksOK /\ UnsharedOK /\ NoStrayProcess /\ UnsharedNeverLeaks
  BY DEF IInv
<1>1. /\ slot[t] \in Calls /\ call[t] \in Calls
      /\ pc[t] = "cleanup" /\ cleaner = NoThread
      /\ cleaner' = t
      /\ pc' = [pc EXCEPT ![t] = "look"]
      /\ UNCHANGED <<registry, lockedBy, tunnel, process, call, request, slot, drained, calls, shared>>
  BY <1>0 DEF LockRegistry, At, TypeOK, LocalsOK
<1>2. /\ pc'[t] = "look"
      /\ call'[t] = call[t] /\ slot'[t] = slot[t] /\ drained'[t] = drained[t]
      /\ request'[t] = request[t]
      /\ \A u \in Threads : u # t => /\ pc'[u] = pc[u] /\ slot'[u] = slot[u]
                                     /\ drained'[u] = drained[u] /\ call'[u] = call[u]
                                     /\ request'[u] = request[u]
  BY <1>0, <1>1 DEF TypeOK, LocalsOK, InEnsure
<1>3. TypeOK'
  BY <1>0, <1>1 DEF TypeOK, PCs
<1>4. CallsOK'
  BY <1>0, <1>1, <1>2 DEF CallsOK, TypeOK, None
<1>5. LocalsOK'
  BY <1>0, <1>1, <1>2 DEF LocalsOK, InEnsure, TypeOK
<1>6. LocksOK'
  BY <1>0, <1>1, <1>2 DEF LocksOK, LocalsOK, InEnsure, TypeOK
<1>7. UnsharedOK'
  BY <1>0, <1>1, <1>2 DEF UnsharedOK, LocalsOK, InEnsure, Uses, TypeOK
<1>8. NoStrayProcess'
  BY <1>0, <1>1, <1>2 DEF NoStrayProcess, Alive, LocalsOK, LocksOK, TypeOK
<1>9. UnsharedNeverLeaks'
  BY <1>0, <1>1, <1>2 DEF UnsharedNeverLeaks, Registered, Alive, LocalsOK, UnsharedOK, InEnsure, TypeOK
<1>. QED  BY <1>3, <1>4, <1>5, <1>6, <1>7, <1>8, <1>9 DEF IInv

(* The slot is the registered one and empty. *)
LEMMA LookKeeps ==
  ASSUME IInv, NEW t \in Threads, pc[t] = "look", registry[request[t].conn] = slot[t], tunnel[slot[t]] = None,
         At(t, "remove"), UNCHANGED <<cleaner, call, request, slot, drained, calls, shared>>,
         UNCHANGED <<registry, lockedBy, tunnel, process>>
  PROVE  IInv'
<1>. USE CallNumbers
<1>0. TypeOK /\ CallsOK /\ LocalsOK /\ LocksOK /\ UnsharedOK /\ NoStrayProcess /\ UnsharedNeverLeaks
  BY DEF IInv
<1>1. /\ slot[t] \in Calls /\ call[t] \in Calls
      /\ pc' = [pc EXCEPT ![t] = "remove"]
      /\ UNCHANGED <<registry, cleaner, lockedBy, tunnel, process, call, request, slot, drained, calls, shared>>
  BY <1>0 DEF At, TypeOK, LocalsOK
<1>2. /\ pc'[t] = "remove"
      /\ call'[t] = call[t] /\ slot'[t] = slot[t] /\ drained'[t] = drained[t]
      /\ request'[t] = request[t]
      /\ \A u \in Threads : u # t => /\ pc'[u] = pc[u] /\ slot'[u] = slot[u]
                                     /\ drained'[u] = drained[u] /\ call'[u] = call[u]
                                     /\ request'[u] = request[u]
  BY <1>0, <1>1 DEF TypeOK, LocalsOK, InEnsure
<1>3. TypeOK'
  BY <1>0, <1>1 DEF TypeOK, PCs
<1>4. CallsOK'
  BY <1>0, <1>1, <1>2 DEF CallsOK, TypeOK, None
<1>5. LocalsOK'
  BY <1>0, <1>1, <1>2 DEF LocalsOK, InEnsure, TypeOK
<1>6. LocksOK'
  BY <1>0, <1>1, <1>2 DEF LocksOK, LocalsOK, InEnsure, TypeOK
<1>7. UnsharedOK'
  BY <1>0, <1>1, <1>2 DEF UnsharedOK, LocalsOK, InEnsure, Uses, TypeOK
<1>8. NoStrayProcess'
  BY <1>0, <1>1, <1>2 DEF NoStrayProcess, Alive, LocalsOK, LocksOK, TypeOK
<1>9. UnsharedNeverLeaks'
  BY <1>0, <1>1, <1>2 DEF UnsharedNeverLeaks, Registered, Alive, LocalsOK, UnsharedOK, InEnsure, TypeOK
<1>. QED  BY <1>3, <1>4, <1>5, <1>6, <1>7, <1>8, <1>9 DEF IInv

(* The slot is not the registered one, or not empty. *)
LEMMA LookGivesUp ==
  ASSUME IInv, NEW t \in Threads, pc[t] = "look", cleaner' = NoThread, Return(t),
         UNCHANGED <<registry, lockedBy, tunnel, process>>
  PROVE  IInv'
<1>. USE CallNumbers
<1>0. TypeOK /\ CallsOK /\ LocalsOK /\ LocksOK /\ UnsharedOK /\ NoStrayProcess /\ UnsharedNeverLeaks
  BY DEF IInv
<1>1. /\ slot[t] \in Calls /\ call[t] \in Calls
      /\ cleaner' = NoThread /\ cleaner = t
      /\ pc' = [pc EXCEPT ![t] = "idle"]
      /\ call' = [call EXCEPT ![t] = None]
      /\ request' = [request EXCEPT ![t] = NoRequest]
      /\ slot' = [slot EXCEPT ![t] = None]
      /\ UNCHANGED <<registry, lockedBy, tunnel, process, drained, calls, shared>>
  BY <1>0 DEF Return, TypeOK, LocalsOK, LocksOK
<1>2. /\ pc'[t] = "idle" /\ slot'[t] = None /\ drained'[t] = {} /\ call'[t] = None
      /\ request'[t] = NoRequest
      /\ \A u \in Threads : u # t => /\ pc'[u] = pc[u] /\ slot'[u] = slot[u]
                                     /\ drained'[u] = drained[u] /\ call'[u] = call[u]
                                     /\ request'[u] = request[u]
  BY <1>0, <1>1 DEF TypeOK, LocalsOK, InEnsure
<1>3. TypeOK'
  BY <1>0, <1>1 DEF TypeOK, PCs
<1>4. CallsOK'
  BY <1>0, <1>1, <1>2 DEF CallsOK, TypeOK, None
<1>5. LocalsOK'
  BY <1>0, <1>1, <1>2 DEF LocalsOK, InEnsure, TypeOK
<1>6. LocksOK'
  BY <1>0, <1>1, <1>2 DEF LocksOK, LocalsOK, InEnsure, TypeOK
<1>7. UnsharedOK'
  BY <1>0, <1>1, <1>2 DEF UnsharedOK, LocalsOK, InEnsure, Uses, TypeOK
<1>8. NoStrayProcess'
  BY <1>0, <1>1, <1>2 DEF NoStrayProcess, Alive, LocalsOK, LocksOK, TypeOK
<1>9. UnsharedNeverLeaks'
  <2>1. slot[t] \notin shared => Registered(slot[t])
    BY <1>0, <1>1, RequestFields DEF UnsharedOK, InEnsure, LocalsOK, Registered, TypeOK
  <2>2. drained[t] = {}
    BY <1>0, <1>1 DEF LocalsOK, InEnsure
  <2>. QED  BY <1>0, <1>1, <1>2, <2>1, <2>2 DEF UnsharedNeverLeaks, Registered, Alive, TypeOK
<1>. QED  BY <1>3, <1>4, <1>5, <1>6, <1>7, <1>8, <1>9 DEF IInv

(* A slot no other thread holds leaves the registry. *)
LEMMA RemoveSlotStep ==
  ASSUME IInv, NEW t \in Threads, RemoveSlot(t)
  PROVE  IInv'
<1>. USE CallNumbers
<1>0. TypeOK /\ CallsOK /\ LocalsOK /\ LocksOK /\ UnsharedOK /\ NoStrayProcess /\ UnsharedNeverLeaks
  BY DEF IInv
<1>1. /\ slot[t] \in Calls /\ call[t] \in Calls
      /\ pc[t] = "remove"
      /\ registry[request[t].conn] = slot[t] /\ request[t].conn \in Ids
      /\ cleaner' = NoThread /\ cleaner = t
      /\ registry' = registry \/ registry' = [registry EXCEPT ![request[t].conn] = None]
      /\ registry' # registry => Others(t, slot[t]) = {}
      /\ pc' = [pc EXCEPT ![t] = "idle"]
      /\ call' = [call EXCEPT ![t] = None]
      /\ request' = [request EXCEPT ![t] = NoRequest]
      /\ slot' = [slot EXCEPT ![t] = None]
      /\ UNCHANGED <<lockedBy, tunnel, process, drained, calls, shared>>
  <2>1. request[t].conn \in Ids
    BY <1>0, RequestFields DEF RemoveSlot, TypeOK, LocalsOK, InEnsure
  <2>. QED  BY <1>0, <2>1 DEF RemoveSlot, Return, TypeOK, LocalsOK, LocksOK
<1>2. /\ pc'[t] = "idle" /\ slot'[t] = None /\ drained'[t] = {} /\ call'[t] = None
      /\ request'[t] = NoRequest
      /\ \A u \in Threads : u # t => pc[u] \notin {"look", "remove"}
      /\ \A i \in Ids : registry'[i] = registry[i] \/ (registry[i] = slot[t] /\ registry'[i] = None)
      /\ registry' # registry => \A u \in Threads : u # t => slot[u] # slot[t] /\ slot[t] \notin drained[u]
      /\ \A u \in Threads : u # t => /\ pc'[u] = pc[u] /\ slot'[u] = slot[u]
                                     /\ drained'[u] = drained[u] /\ call'[u] = call[u]
                                     /\ request'[u] = request[u]
  BY <1>0, <1>1 DEF TypeOK, LocalsOK, LocksOK, InEnsure, Others
<1>3. TypeOK'
  BY <1>0, <1>1 DEF TypeOK, PCs
<1>4. CallsOK'
  BY <1>0, <1>1, <1>2 DEF CallsOK, TypeOK, None
<1>5. LocalsOK'
  BY <1>0, <1>1, <1>2 DEF LocalsOK, InEnsure, TypeOK
<1>6. LocksOK'
  BY <1>0, <1>1, <1>2 DEF LocksOK, LocalsOK, InEnsure, TypeOK
<1>7. UnsharedOK'
  <2>1. \A u, v \in Threads, x \in Calls \ shared' : Uses(u, x)' /\ Uses(v, x)' => u = v
    BY <1>0, <1>1, <1>2 DEF UnsharedOK, Uses, None
  <2>2. ASSUME NEW u \in Threads, InEnsure(u)', slot'[u] \notin shared'
        PROVE  registry'[request'[u].conn] = slot'[u] /\ pc'[u] # "remove"
    <3>1. u # t /\ InEnsure(u) /\ slot[u] \notin shared
      BY <1>1, <1>2, <2>2 DEF InEnsure
    <3>2. request[u].conn \in Ids /\ registry[request[u].conn] = slot[u]
      BY <1>0, <3>1, RequestFields DEF UnsharedOK, LocalsOK, TypeOK
    <3>. QED  BY <1>1, <1>2, <3>1, <3>2
  <2>. QED  BY <2>1, <2>2 DEF UnsharedOK
<1>8. NoStrayProcess'
  BY <1>0, <1>1, <1>2 DEF NoStrayProcess, Alive, LocalsOK, LocksOK, TypeOK
<1>9. UnsharedNeverLeaks'
  BY <1>0, <1>1, <1>2 DEF UnsharedNeverLeaks, Registered, Alive, LocalsOK, UnsharedOK, InEnsure, TypeOK
<1>. QED  BY <1>3, <1>4, <1>5, <1>6, <1>7, <1>8, <1>9 DEF IInv

(* evict takes the slot out of the registry. *)
LEMMA EvictStep ==
  ASSUME IInv, NEW t \in Threads, NEW i \in Ids, Evict(t, i)
  PROVE  IInv'
<1>. USE CallNumbers
<1>0. TypeOK /\ CallsOK /\ LocalsOK /\ LocksOK /\ UnsharedOK /\ NoStrayProcess /\ UnsharedNeverLeaks
  BY DEF IInv
<1>1. /\ pc[t] = "idle" /\ cleaner = NoThread
      /\ calls \in Nat /\ calls + 1 \in Calls
      /\ call' = [call EXCEPT ![t] = calls + 1] /\ calls' = calls + 1
      /\ pc' = [pc EXCEPT ![t] = "close"]
      /\ registry[i] \in Calls
      /\ registry' = [registry EXCEPT ![i] = None]
      /\ slot' = [slot EXCEPT ![t] = registry[i]]
      /\ drained' = [drained EXCEPT ![t] = {}]
      /\ shared' = shared \cup {x \in {registry[i]} : Others(t, x) # {}}
      /\ UNCHANGED <<cleaner, lockedBy, tunnel, process, request>>
  <2>1. {registry[i]} \ {registry[i]} = {}
    OBVIOUS
  <2>2. calls \in Nat /\ calls + 1 \in Calls /\ registry[i] \in Calls
    BY <1>0 DEF Evict, BeginCall, TypeOK, Calls, None
  <2>. QED  BY <2>1, <2>2 DEF Evict, BeginCall, Hold, At
<1>2. /\ pc'[t] = "close" /\ call'[t] = calls + 1 /\ request'[t] = request[t]
      /\ \A u \in Threads : pc[u] \notin {"look", "remove"}
      /\ slot'[t] = registry[i] /\ drained'[t] = {}
      /\ shared \subseteq shared' /\ shared' \subseteq Calls
      /\ registry[i] \notin shared' => \A u \in Threads : u # t => slot[u] # registry[i] /\ registry[i] \notin drained[u]
      /\ \A u \in Threads : u # t => /\ pc'[u] = pc[u] /\ slot'[u] = slot[u]
                                     /\ drained'[u] = drained[u] /\ call'[u] = call[u]
                                     /\ request'[u] = request[u]
  BY <1>0, <1>1 DEF TypeOK, LocksOK, Others
<1>3. TypeOK'
  <2>1. {x \in {registry[i]} : Others(t, x) # {}} \subseteq Calls
    BY <1>1
  <2>. QED  BY <1>0, <1>1, <2>1 DEF TypeOK, PCs
<1>4. CallsOK'
  BY <1>0, <1>1, <1>2 DEF CallsOK, TypeOK, None
<1>5. LocalsOK'
  BY <1>0, <1>1, <1>2 DEF LocalsOK, InEnsure, TypeOK
<1>6. LocksOK'
  BY <1>0, <1>1, <1>2 DEF LocksOK, LocalsOK, InEnsure, TypeOK
<1>7. UnsharedOK'
  BY <1>0, <1>1, <1>2 DEF UnsharedOK, LocalsOK, InEnsure, Uses, TypeOK
<1>8. NoStrayProcess'
  BY <1>0, <1>1, <1>2 DEF NoStrayProcess, Alive, LocalsOK, LocksOK, TypeOK
<1>9. UnsharedNeverLeaks'
  BY <1>0, <1>1, <1>2 DEF UnsharedNeverLeaks, Registered, Alive, LocalsOK, UnsharedOK, InEnsure, TypeOK
<1>. QED  BY <1>3, <1>4, <1>5, <1>6, <1>7, <1>8, <1>9 DEF IInv

(* shutdown_all takes every slot out of the registry. *)
LEMMA ShutdownAllStep ==
  ASSUME IInv, NEW t \in Threads, ShutdownAll(t)
  PROVE  IInv'
<1>. USE CallNumbers
<1>0. TypeOK /\ CallsOK /\ LocalsOK /\ LocksOK /\ UnsharedOK /\ NoStrayProcess /\ UnsharedNeverLeaks
  BY DEF IInv
<1>1. /\ pc[t] = "idle" /\ cleaner = NoThread
      /\ calls \in Nat /\ calls + 1 \in Calls
      /\ call' = [call EXCEPT ![t] = calls + 1] /\ calls' = calls + 1
      /\ pc' = [pc EXCEPT ![t] = "close"]
      /\ registry' = [i \in Ids |-> None]
      /\ slot'[t] \in Calls /\ drained'[t] \subseteq Calls
      /\ slot' = [slot EXCEPT ![t] = slot'[t]]
      /\ drained' = [drained EXCEPT ![t] = drained'[t]]
      /\ \A x \in Calls : Registered(x) <=> slot'[t] = x \/ x \in drained'[t]
      /\ shared' = shared \cup {x \in Calls : Registered(x) /\ Others(t, x) # {}}
      /\ UNCHANGED <<cleaner, lockedBy, tunnel, process, request>>
  <2> DEFINE ss == {s \in Calls : Registered(s)}
  <2>1. PICK s \in ss : Hold(t, s, ss)
    BY DEF ShutdownAll
  <2>2. slot'[t] = s /\ drained'[t] = ss \ {s}
    BY <1>0, <2>1 DEF Hold, TypeOK
  <2>3. {x \in ss : Others(t, x) # {}} = {x \in Calls : Registered(x) /\ Others(t, x) # {}}
    OBVIOUS
  <2>. QED  BY <1>0, <2>1, <2>2, <2>3 DEF ShutdownAll, BeginCall, Hold, At, TypeOK, Calls
<1>2. /\ pc'[t] = "close" /\ call'[t] = calls + 1 /\ request'[t] = request[t]
      /\ \A u \in Threads : pc[u] \notin {"look", "remove"}
      /\ shared \subseteq shared' /\ shared' \subseteq Calls
      /\ \A x \in Calls \ shared' : slot'[t] = x \/ x \in drained'[t] =>
            \A u \in Threads : u # t => slot[u] # x /\ x \notin drained[u]
      /\ \A u \in Threads : u # t => /\ pc'[u] = pc[u] /\ slot'[u] = slot[u]
                                     /\ drained'[u] = drained[u] /\ call'[u] = call[u]
                                     /\ request'[u] = request[u]
  BY <1>0, <1>1 DEF TypeOK, LocksOK, Others
<1>3. TypeOK'
  <2>1. {x \in Calls : Registered(x) /\ Others(t, x) # {}} \subseteq Calls
    OBVIOUS
  <2>2. registry' \in [Ids -> 0..MaxCalls]
    BY <1>1
  <2>. QED  BY <1>0, <1>1, <2>1, <2>2 DEF TypeOK, PCs
<1>4. CallsOK'
  <2>1. \A x \in Calls : Registered(x) => x <= calls
    BY <1>0 DEF CallsOK, Registered
  <2>2. slot'[t] <= calls /\ \A x \in drained'[t] : x <= calls
    BY <1>1, <2>1
  <2>3. \A i \in Ids : registry'[i] = None
    BY <1>1
  <2>4. \A u, v \in Threads : call'[u] = call'[v] /\ call'[u] # None => u = v
    BY <1>0, <1>1, <1>2 DEF CallsOK, TypeOK
  <2>5. ASSUME NEW u \in Threads
        PROVE  call'[u] <= calls' /\ slot'[u] <= calls' /\ \A x \in drained'[u] : x <= calls'
    <3>1. CASE u = t
      BY <1>0, <1>1, <1>2, <2>2, <3>1 DEF TypeOK, Calls
    <3>2. CASE u # t
      BY <1>0, <1>1, <1>2, <3>2 DEF CallsOK, TypeOK, Calls
    <3>. QED  BY <3>1, <3>2
  <2>6. None <= calls' /\ \A x \in Calls : tunnel'[x] <= calls'
    BY <1>0, <1>1 DEF CallsOK, TypeOK, None
  <2>. QED  BY <2>3, <2>4, <2>5, <2>6 DEF CallsOK
<1>5. LocalsOK'
  BY <1>0, <1>1, <1>2 DEF LocalsOK, InEnsure, TypeOK
<1>6. LocksOK'
  BY <1>0, <1>1, <1>2 DEF LocksOK, LocalsOK, InEnsure, TypeOK
<1>7. UnsharedOK'
  <2>1. \A u, v \in Threads, x \in Calls \ shared' : Uses(u, x)' /\ Uses(v, x)' => u = v
    BY <1>0, <1>1, <1>2 DEF UnsharedOK, Uses
  <2>2. ASSUME NEW u \in Threads, InEnsure(u)', slot'[u] \notin shared' PROVE FALSE
    <3>1. u # t /\ InEnsure(u) /\ slot[u] \notin shared
      BY <1>1, <1>2, <2>2 DEF InEnsure
    <3>2. request[u].conn \in Ids /\ registry[request[u].conn] = slot[u] /\ slot[u] \in Calls
      BY <1>0, <3>1, RequestFields DEF UnsharedOK, LocalsOK, TypeOK, InEnsure
    <3>3. Registered(slot[u])
      BY <3>2 DEF Registered
    <3>. QED  BY <1>1, <1>2, <2>2, <3>1, <3>2, <3>3
  <2>. QED  BY <2>1, <2>2 DEF UnsharedOK
<1>8. NoStrayProcess'
  BY <1>0, <1>1, <1>2 DEF NoStrayProcess, Alive, LocalsOK, LocksOK, TypeOK
<1>9. UnsharedNeverLeaks'
  BY <1>0, <1>1, <1>2 DEF UnsharedNeverLeaks, Alive, LocalsOK, TypeOK
<1>. QED  BY <1>3, <1>4, <1>5, <1>6, <1>7, <1>8, <1>9 DEF IInv

(* The last slot is closed. *)
LEMMA CloseLastStep ==
  ASSUME IInv, NEW t \in Threads, CloseSlot(t), drained[t] = {}
  PROVE  IInv'
<1>. USE CallNumbers
<1>0. TypeOK /\ CallsOK /\ LocalsOK /\ LocksOK /\ UnsharedOK /\ NoStrayProcess /\ UnsharedNeverLeaks
  BY DEF IInv
<1>1. /\ slot[t] \in Calls /\ tunnel[slot[t]] \in 0..MaxCalls
      /\ pc[t] = "close"
      /\ lockedBy[slot[t]] = NoThread
      /\ tunnel' = [tunnel EXCEPT ![slot[t]] = None]
      /\ process' \in [Calls -> Processes]
      /\ \A m \in Calls : m # tunnel[slot[t]] => process'[m] = process[m]
      /\ tunnel[slot[t]] # None => process'[tunnel[slot[t]]] = NoProcess
      /\ pc' = [pc EXCEPT ![t] = "idle"]
      /\ call' = [call EXCEPT ![t] = None]
      /\ request' = [request EXCEPT ![t] = NoRequest]
      /\ slot' = [slot EXCEPT ![t] = None]
      /\ UNCHANGED <<registry, cleaner, lockedBy, drained, calls, shared>>
  <2>1. slot[t] \in Calls /\ tunnel[slot[t]] \in 0..MaxCalls
    BY <1>0 DEF CloseSlot, TypeOK, LocalsOK
  <2>. QED  BY <1>0, <2>1, KilledType DEF CloseSlot, Return
<1>2. /\ pc'[t] = "idle" /\ slot'[t] = None /\ drained'[t] = {} /\ call'[t] = None
      /\ request'[t] = NoRequest
      /\ tunnel'[slot[t]] = None
      /\ \A x \in Calls : x # slot[t] => tunnel'[x] = tunnel[x]
      /\ \A u \in Threads : u # t => /\ pc'[u] = pc[u] /\ slot'[u] = slot[u]
                                     /\ drained'[u] = drained[u] /\ call'[u] = call[u]
                                     /\ request'[u] = request[u]
  BY <1>0, <1>1 DEF TypeOK, LocalsOK, InEnsure
<1>3. TypeOK'
  BY <1>0, <1>1 DEF TypeOK, PCs
<1>4. CallsOK'
  BY <1>0, <1>1, <1>2 DEF CallsOK, TypeOK, None
<1>5. LocalsOK'
  BY <1>0, <1>1, <1>2 DEF LocalsOK, InEnsure, TypeOK
<1>6. LocksOK'
  BY <1>0, <1>1, <1>2 DEF LocksOK, LocalsOK, InEnsure, TypeOK
<1>7. UnsharedOK'
  BY <1>0, <1>1, <1>2 DEF UnsharedOK, LocalsOK, InEnsure, Uses, TypeOK
<1>8. NoStrayProcess'
  BY <1>0, <1>1, <1>2 DEF NoStrayProcess, Alive, LocalsOK, LocksOK, TypeOK
<1>9. UnsharedNeverLeaks'
  BY <1>0, <1>1, <1>2 DEF UnsharedNeverLeaks, Registered, Alive, LocalsOK, UnsharedOK, InEnsure, TypeOK
<1>. QED  BY <1>3, <1>4, <1>5, <1>6, <1>7, <1>8, <1>9 DEF IInv

(* A slot is closed and shutdown_all goes on with another. *)
LEMMA CloseMoreStep ==
  ASSUME IInv, NEW t \in Threads, CloseSlot(t), drained[t] # {}
  PROVE  IInv'
<1>. USE CallNumbers
<1>0. TypeOK /\ CallsOK /\ LocalsOK /\ LocksOK /\ UnsharedOK /\ NoStrayProcess /\ UnsharedNeverLeaks
  BY DEF IInv
<1>1. /\ slot[t] \in Calls /\ tunnel[slot[t]] \in 0..MaxCalls
      /\ pc[t] = "close"
      /\ lockedBy[slot[t]] = NoThread
      /\ tunnel' = [tunnel EXCEPT ![slot[t]] = None]
      /\ process' \in [Calls -> Processes]
      /\ \A m \in Calls : m # tunnel[slot[t]] => process'[m] = process[m]
      /\ tunnel[slot[t]] # None => process'[tunnel[slot[t]]] = NoProcess
      /\ slot'[t] \in drained[t] /\ drained'[t] = drained[t] \ {slot'[t]}
      /\ slot' = [slot EXCEPT ![t] = slot'[t]]
      /\ drained' = [drained EXCEPT ![t] = drained'[t]]
      /\ UNCHANGED <<registry, cleaner, lockedBy, pc, call, request, calls, shared>>
  <2>1. slot[t] \in Calls /\ tunnel[slot[t]] \in 0..MaxCalls
    BY <1>0 DEF CloseSlot, TypeOK, LocalsOK
  <2>2. PICK s \in drained[t] : /\ slot' = [slot EXCEPT ![t] = s]
                               /\ drained' = [drained EXCEPT ![t] = drained[t] \ {s}]
    BY <1>0 DEF CloseSlot, TypeOK
  <2>3. slot'[t] = s /\ drained'[t] = drained[t] \ {s}
    BY <1>0, <2>2 DEF TypeOK
  <2>. QED  BY <1>0, <2>1, <2>2, <2>3, KilledType DEF CloseSlot
<1>2. /\ tunnel'[slot[t]] = None
      /\ \A x \in Calls : x # slot[t] => tunnel'[x] = tunnel[x]
      /\ pc'[t] = "close" /\ slot'[t] \in Calls /\ drained'[t] \subseteq Calls
      /\ call'[t] = call[t] /\ request'[t] = request[t]
      /\ \A u \in Threads : u # t => /\ pc'[u] = pc[u] /\ slot'[u] = slot[u]
                                     /\ drained'[u] = drained[u] /\ call'[u] = call[u]
                                     /\ request'[u] = request[u]
  BY <1>0, <1>1 DEF TypeOK, LocalsOK, InEnsure
<1>3. TypeOK'
  <2>1. slot'[t] \in 0..MaxCalls /\ drained'[t] \in SUBSET Calls
    BY <1>2
  <2>. QED  BY <1>0, <1>1, <2>1 DEF TypeOK
<1>4. CallsOK'
  <2>1. slot'[t] <= calls /\ \A x \in drained'[t] : x <= calls
    BY <1>0, <1>1 DEF CallsOK
  <2>2. \A u \in Threads : slot'[u] <= calls /\ \A x \in drained'[u] : x <= calls
    BY <1>0, <1>2, <2>1 DEF CallsOK
  <2>3. None <= calls
    BY <1>0 DEF TypeOK, None
  <2>4. \A x \in Calls : tunnel'[x] <= calls
    BY <1>0, <1>1, <1>2, <2>3 DEF CallsOK
  <2>. QED  BY <1>0, <1>1, <2>2, <2>4 DEF CallsOK
<1>5. LocalsOK'
  BY <1>0, <1>1, <1>2 DEF LocalsOK, InEnsure, TypeOK
<1>6. LocksOK'
  BY <1>0, <1>1, <1>2 DEF LocksOK, LocalsOK, InEnsure, TypeOK
<1>7. UnsharedOK'
  <2>1. \A u \in Threads, x \in Calls : Uses(u, x)' => Uses(u, x)
    BY <1>0, <1>1, <1>2 DEF Uses
  <2>2. ~InEnsure(t)' /\ \A u \in Threads : u # t => (InEnsure(u)' <=> InEnsure(u))
    BY <1>1, <1>2 DEF InEnsure
  <2>3. \A u \in Threads : InEnsure(u)' /\ slot[u] = slot[t] => slot[u] \in shared
    BY <1>0, <1>1, <2>2 DEF UnsharedOK, Uses, InEnsure
  <2>. QED  BY <1>0, <1>1, <1>2, <2>1, <2>2, <2>3 DEF UnsharedOK, TypeOK
<1>8. NoStrayProcess'
  BY <1>0, <1>1, <1>2 DEF NoStrayProcess, Alive, LocalsOK, LocksOK, TypeOK
<1>9. UnsharedNeverLeaks'
  BY <1>0, <1>1, <1>2 DEF UnsharedNeverLeaks, Registered, Alive, LocalsOK, UnsharedOK, InEnsure, TypeOK
<1>. QED  BY <1>3, <1>4, <1>5, <1>6, <1>7, <1>8, <1>9 DEF IInv

(* Every step keeps the invariant. *)
LEMMA NextOK == IInv /\ [Next]_vars => IInv'
<1>. SUFFICES ASSUME IInv, [Next]_vars PROVE IInv'
  OBVIOUS
<1>1. CASE UNCHANGED vars
  BY <1>1 DEF vars, threadVars, IInv, TypeOK, CallsOK, LocalsOK, LocksOK, UnsharedOK, InEnsure,
              Uses, NoStrayProcess, UnsharedNeverLeaks, Registered, Alive
<1>2. ASSUME NEW n \in Calls, SshListens(n) \/ SshDies(n) PROVE IInv'
  BY <1>2, ProcessStep
<1>3. ASSUME NEW t \in Threads, Step(t) PROVE IInv'
  <2>1. CASE LockSlot(t)
    BY <2>1, LockSlotReuse, LockSlotTake DEF LockSlot
  <2>2. CASE Spawn(t)
    BY <2>2, SpawnStep
  <2>3. CASE Probe(t)
    BY <2>3, ProbeStep
  <2>4. CASE BuildFails(t)
    BY <2>4, BuildFailsStep
  <2>5. CASE LockRegistry(t)
    BY <2>5, LockRegistryStep
  <2>6. CASE LookAtSlot(t)
    BY <2>6, LookKeeps, LookGivesUp DEF LookAtSlot
  <2>7. CASE RemoveSlot(t)
    BY <2>7, RemoveSlotStep
  <2>8. CASE CloseSlot(t)
    BY <2>8, CloseLastStep, CloseMoreStep
  <2>. QED  BY <1>3, <2>1, <2>2, <2>3, <2>4, <2>5, <2>6, <2>7, <2>8 DEF Step
<1>4. ASSUME NEW t \in Threads,
             (\E r \in Request : SlotFor(t, r)) \/ (\E i \in Ids : Evict(t, i)) \/ ShutdownAll(t)
      PROVE  IInv'
  BY <1>4, SlotForStep, EvictStep, ShutdownAllStep
<1>5. CASE Rest
  BY <1>1, <1>5 DEF Rest
<1>. QED  BY <1>1, <1>2, <1>3, <1>4, <1>5 DEF Next

(* The inductive invariant holds of every behaviour of the registry. *)
THEOREM Invariance == Spec => []IInv
<1>1. Init => IInv
  BY InitOK
<1>2. IInv /\ [Next]_vars => IInv'
  BY NextOK
<1>. QED  BY <1>1, <1>2, PTL DEF Spec

(* Every live ssh process is in a slot or in the hands of the one thread that
   builds it (ensure, build_tunnel, evict and shutdown_all of lib.rs). *)
THEOREM NoStray == Spec => []NoStrayProcess
<1>1. IInv => NoStrayProcess
  BY DEF IInv
<1>. QED  BY <1>1, Invariance, PTL

(* A slot never used by two threads at a time does not leave the registry with
   a live tunnel in it (remove_unused_slot, evict and shutdown_all of lib.rs). *)
THEOREM UnsharedSafe == Spec => []UnsharedNeverLeaks
<1>1. IInv => UnsharedNeverLeaks
  BY DEF IInv
<1>. QED  BY <1>1, Invariance, PTL
=============================================================================
