--------------------------- MODULE TunnelRegistry ---------------------------
(***************************************************************************)
(* The SSH tunnels of ramag-infra-tunnel (lib.rs): a registry, under one   *)
(* lock, of slots, each under a lock of its own, and the ssh processes in  *)
(* them.  ensure, evict and shutdown_all run on threads of the blocking    *)
(* pool; a thread that waits for a lock keeps its Arc of the slot.         *)
(*                                                                         *)
(* The registry lock is held over one action except by remove_unused_slot, *)
(* which locks the slot under it.  Calls are numbered; a slot and an ssh   *)
(* process carry the number of the ensure that made them.                  *)
(***************************************************************************)
EXTENDS Naturals, FiniteSets

CONSTANTS
  Threads,
  Ids,         \* connections
  Configs,     \* fingerprints: ssh target, ssh port, host and port of a configuration
  Ports,       \* local ports the system hands out
  MaxTunnels,  \* MAX_ACTIVE_TUNNELS
  MaxCalls     \* bound of the model: calls of ensure, evict and shutdown_all

NoThread == "nobody"

ASSUME TunnelConstants ==
  /\ MaxTunnels \in Nat
  /\ MaxCalls \in Nat
  /\ NoThread \notin Threads

Calls == 1..MaxCalls    \* also the slots and the processes
None  == 0

VARIABLES
  registry,  \* registry[i]: slot of connection i
  cleaner,   \* thread in remove_unused_slot, which holds the registry lock
  lockedBy,  \* lockedBy[s]: thread that holds the lock of slot s
  tunnel,    \* tunnel[s]: process in the slot
  process,   \* process[n]: what a live ssh process is, NoProcess before and after
  pc,        \* where a thread stands
  call,      \* number of its call
  request,   \* configuration its ensure is for, and the port it builds on
  slot,      \* slot it holds an Arc of
  drained,   \* further slots a shutdown_all has still to close
  calls,     \* calls begun
  shared     \* history: slots two threads held at one time

threadVars == <<pc, call, request, slot, drained, calls, shared>>
vars == <<registry, cleaner, lockedBy, tunnel, process, threadVars>>

NoProcess == [up |-> FALSE]
Processes == [up : BOOLEAN, conf : Configs, port : Ports] \cup {NoProcess}
Request   == [conn : Ids, conf : Configs]
Building  == [conn : Ids, conf : Configs, port : Ports]
NoRequest == [none |-> TRUE]

PCs == {"idle", "lock", "spawn", "probe", "cleanup", "look", "remove", "close"}

TypeOK ==
  /\ registry \in [Ids -> 0..MaxCalls]
  /\ cleaner  \in Threads \cup {NoThread}
  /\ lockedBy \in [Calls -> Threads \cup {NoThread}]
  /\ tunnel   \in [Calls -> 0..MaxCalls]
  /\ process  \in [Calls -> Processes]
  /\ pc       \in [Threads -> PCs]
  /\ call     \in [Threads -> 0..MaxCalls]
  /\ request  \in [Threads -> Request \cup Building \cup {NoRequest}]
  /\ slot     \in [Threads -> 0..MaxCalls]
  /\ drained  \in [Threads -> SUBSET Calls]
  /\ calls    \in 0..MaxCalls
  /\ shared   \in SUBSET Calls

Init ==
  /\ registry = [i \in Ids |-> None]
  /\ cleaner  = NoThread
  /\ lockedBy = [s \in Calls |-> NoThread]
  /\ tunnel   = [s \in Calls |-> None]
  /\ process  = [n \in Calls |-> NoProcess]
  /\ pc       = [t \in Threads |-> "idle"]
  /\ call     = [t \in Threads |-> None]
  /\ request  = [t \in Threads |-> NoRequest]
  /\ slot     = [t \in Threads |-> None]
  /\ drained  = [t \in Threads |-> {}]
  /\ calls    = 0
  /\ shared   = {}

-----------------------------------------------------------------------------
Alive(n)      == n # None /\ process[n] # NoProcess
Registered(s) == \E i \in Ids : registry[i] = s

(* Threads other than t with an Arc of slot s; Arc::strong_count is one more for
   t and one for the registry *)
Others(t, s) == {u \in Threads \ {t} : slot[u] = s \/ s \in drained[u]}

(* A process listens on a port: connect() succeeds, whoever it is *)
Answers(q) == \E n \in Calls : Alive(n) /\ process[n].up /\ process[n].port = q

(* kill and wait *)
Killed(n) == IF n = None THEN process ELSE [process EXCEPT ![n] = NoProcess]

BeginCall(t) ==
  /\ pc[t] = "idle"
  /\ calls < MaxCalls
  /\ calls' = calls + 1
  /\ call'  = [call EXCEPT ![t] = calls + 1]

(* Thread t takes the slots ss up, one of them first. *)
Hold(t, s, ss) ==
  /\ slot'    = [slot EXCEPT ![t] = s]
  /\ drained' = [drained EXCEPT ![t] = ss \ {s}]
  /\ shared'  = shared \cup {x \in ss : Others(t, x) # {}}

(* The call returns; its locals are dropped. *)
Return(t) ==
  /\ pc'      = [pc EXCEPT ![t] = "idle"]
  /\ call'    = [call EXCEPT ![t] = None]
  /\ request' = [request EXCEPT ![t] = NoRequest]
  /\ slot'    = [slot EXCEPT ![t] = None]
  /\ UNCHANGED <<drained, calls, shared>>

At(t, next) == pc' = [pc EXCEPT ![t] = next]

-----------------------------------------------------------------------------
(* ensure *)

(* slot_for: the slot of the connection, a new one while there is room.  (When
   there is none the call returns an error and changes nothing.) *)
SlotFor(t, r) ==
  /\ cleaner = NoThread
  /\ BeginCall(t)
  /\ \/ registry[r.conn] # None
     \/ Cardinality({i \in Ids : registry[i] # None}) < MaxTunnels
  /\ LET s == IF registry[r.conn] # None THEN registry[r.conn] ELSE calls + 1
     IN  /\ registry' = [registry EXCEPT ![r.conn] = s]
         /\ Hold(t, s, {s})
  /\ request' = [request EXCEPT ![t] = r]
  /\ At(t, "lock")
  /\ UNCHANGED <<cleaner, lockedBy, tunnel, process>>

(* Faulty: the slot is not locked during the handshake. *)
LockSlot_Unlocked(t) ==
  /\ pc[t] = "lock"
  /\ LET s   == slot[t]
         old == tunnel[s]
     IN  /\ lockedBy[s] = NoThread
         /\ IF Alive(old) /\ process[old].conf = request[t].conf
            THEN Return(t) /\ UNCHANGED <<lockedBy, tunnel, process>>
            ELSE /\ tunnel'   = [tunnel EXCEPT ![s] = None]
                 /\ process'  = Killed(old)
                 /\ At(t, "spawn")
                 /\ UNCHANGED <<lockedBy, call, request, slot, drained, calls, shared>>
  /\ UNCHANGED <<registry, cleaner>>

(* The slot's lock; a live tunnel for the same configuration is used again, any
   other is stopped. *)
LockSlot(t) ==
  /\ pc[t] = "lock"
  /\ LET s   == slot[t]
         old == tunnel[s]
     IN  /\ lockedBy[s] = NoThread
         /\ IF Alive(old) /\ process[old].conf = request[t].conf
            THEN Return(t) /\ UNCHANGED <<lockedBy, tunnel, process>>
            ELSE /\ lockedBy' = [lockedBy EXCEPT ![s] = t]
                 /\ tunnel'   = [tunnel EXCEPT ![s] = None]
                 /\ process'  = Killed(old)
                 /\ At(t, "spawn")
                 /\ UNCHANGED <<call, request, slot, drained, calls, shared>>
  /\ UNCHANGED <<registry, cleaner>>

(* build_tunnel: a port that is free now, and ssh, which will listen there *)
Spawn(t) ==
  /\ pc[t] = "spawn"
  /\ \E q \in Ports :
       /\ ~Answers(q)
       /\ process' = [process EXCEPT ![call[t]] =
                        [up |-> FALSE, conf |-> request[t].conf, port |-> q]]
       /\ request' = [request EXCEPT ![t] = [conn |-> @.conn, conf |-> @.conf, port |-> q]]
  /\ At(t, "probe")
  /\ UNCHANGED <<registry, cleaner, lockedBy, tunnel, call, slot, drained, calls, shared>>

(* The port answers: the tunnel goes into the slot. *)
Probe(t) ==
  /\ pc[t] = "probe"
  /\ Answers(request[t].port)
  /\ tunnel'   = [tunnel EXCEPT ![slot[t]] = call[t]]
  /\ lockedBy' = [lockedBy EXCEPT ![slot[t]] = NoThread]
  /\ Return(t)
  /\ UNCHANGED <<registry, cleaner, process>>

(* Faulty: the slot's guard lives until the end of ensure. *)
BuildFails_KeepsLock(t) ==
  /\ pc[t] \in {"spawn", "probe"}
  /\ process' = IF pc[t] = "probe" THEN Killed(call[t]) ELSE process
  /\ At(t, "cleanup")
  /\ UNCHANGED <<registry, cleaner, lockedBy, tunnel, call, request, slot, drained, calls,
                 shared>>

(* No port, no ssh, an early exit, the timeout, no drain thread: the process is
   terminated and the slot unlocked. *)
BuildFails(t) ==
  /\ pc[t] \in {"spawn", "probe"}
  /\ process'  = IF pc[t] = "probe" THEN Killed(call[t]) ELSE process
  /\ lockedBy' = [lockedBy EXCEPT ![slot[t]] = NoThread]
  /\ At(t, "cleanup")
  /\ UNCHANGED <<registry, cleaner, tunnel, call, request, slot, drained, calls, shared>>

(* remove_unused_slot: the registry lock *)
LockRegistry(t) ==
  /\ pc[t] = "cleanup"
  /\ cleaner = NoThread
  /\ cleaner' = t
  /\ At(t, "look")
  /\ UNCHANGED <<registry, lockedBy, tunnel, process, call, request, slot, drained, calls,
                 shared>>

(* is_current and is_empty, for which the slot is locked and unlocked again *)
LookAtSlot(t) ==
  /\ pc[t] = "look"
  /\ lockedBy[slot[t]] = NoThread
  /\ IF registry[request[t].conn] = slot[t] /\ tunnel[slot[t]] = None
     THEN At(t, "remove") /\ UNCHANGED <<cleaner, call, request, slot, drained, calls, shared>>
     ELSE cleaner' = NoThread /\ Return(t)
  /\ UNCHANGED <<registry, lockedBy, tunnel, process>>

(* The count of the slot's owners, and the removal *)
RemoveSlot(t) ==
  /\ pc[t] = "remove"
  /\ registry' = IF Others(t, slot[t]) = {}
                 THEN [registry EXCEPT ![request[t].conn] = None]
                 ELSE registry
  /\ cleaner' = NoThread
  /\ Return(t)
  /\ UNCHANGED <<lockedBy, tunnel, process>>

-----------------------------------------------------------------------------
(* evict, shutdown_all *)

Evict(t, i) ==
  /\ cleaner = NoThread
  /\ registry[i] # None
  /\ BeginCall(t)
  /\ registry' = [registry EXCEPT ![i] = None]
  /\ Hold(t, registry[i], {registry[i]})
  /\ At(t, "close")
  /\ UNCHANGED <<cleaner, lockedBy, tunnel, process, request>>

ShutdownAll(t) ==
  /\ cleaner = NoThread
  /\ BeginCall(t)
  /\ LET ss == {s \in Calls : Registered(s)}
     IN  \E s \in ss : Hold(t, s, ss)
  /\ registry' = [i \in Ids |-> None]
  /\ At(t, "close")
  /\ UNCHANGED <<cleaner, lockedBy, tunnel, process, request>>

(* Faulty: the tunnel is dropped and not stopped. *)
CloseSlot_Drops(t) ==
  /\ pc[t] = "close"
  /\ LET s == slot[t]
     IN  /\ lockedBy[s] = NoThread
         /\ UNCHANGED <<process, tunnel>>
  /\ IF drained[t] = {}
     THEN Return(t)
     ELSE /\ \E s \in drained[t] : /\ slot'    = [slot EXCEPT ![t] = s]
                                   /\ drained' = [drained EXCEPT ![t] = @ \ {s}]
          /\ UNCHANGED <<pc, call, request, calls, shared>>
  /\ UNCHANGED <<registry, cleaner, lockedBy>>

(* The tunnel of one slot is taken and stopped; shutdown_all goes on with the
   next slot, in the map's order. *)
CloseSlot(t) ==
  /\ pc[t] = "close"
  /\ LET s == slot[t]
     IN  /\ lockedBy[s] = NoThread
         /\ process' = Killed(tunnel[s])
         /\ tunnel'  = [tunnel EXCEPT ![s] = None]
  /\ IF drained[t] = {}
     THEN Return(t)
     ELSE /\ \E s \in drained[t] : /\ slot'    = [slot EXCEPT ![t] = s]
                                   /\ drained' = [drained EXCEPT ![t] = @ \ {s}]
          /\ UNCHANGED <<pc, call, request, calls, shared>>
  /\ UNCHANGED <<registry, cleaner, lockedBy>>

-----------------------------------------------------------------------------
(* The ssh processes *)

(* It binds its port, or finds it taken and exits (ExitOnForwardFailure). *)
SshListens(n) ==
  /\ Alive(n) /\ ~process[n].up
  /\ process' = IF Answers(process[n].port) THEN Killed(n)
                ELSE [process EXCEPT ![n].up = TRUE]
  /\ UNCHANGED <<registry, cleaner, lockedBy, tunnel, threadVars>>

(* The host is unreachable, or the connection is lost. *)
SshDies(n) ==
  /\ Alive(n)
  /\ process' = Killed(n)
  /\ UNCHANGED <<registry, cleaner, lockedBy, tunnel, threadVars>>

-----------------------------------------------------------------------------
Step(t) ==
  \/ LockSlot(t) \/ Spawn(t) \/ Probe(t) \/ BuildFails(t)
  \/ LockRegistry(t) \/ LookAtSlot(t) \/ RemoveSlot(t) \/ CloseSlot(t)

(* The model's bound on calls is used up. *)
Rest ==
  /\ calls = MaxCalls
  /\ \A t \in Threads : pc[t] = "idle"
  /\ UNCHANGED vars

Next ==
  \/ \E t \in Threads : \/ \E r \in Request : SlotFor(t, r)
                        \/ \E i \in Ids : Evict(t, i)
                        \/ ShutdownAll(t)
                        \/ Step(t)
  \/ \E n \in Calls : SshListens(n) \/ SshDies(n)
  \/ Rest

Spec == Init /\ [][Next]_vars

(* A thread that can go on does: the probing loop ends by READY_TIMEOUT at the
   latest, and a lock that stays free is taken. *)
FairSpec == Spec /\ \A t \in Threads : WF_vars(Step(t))

-----------------------------------------------------------------------------
(* Properties *)

(* A live ssh process is in a slot or in the hands of the thread that builds
   it, and a slot has one process: neither a rebuild, a timeout nor two callers
   for one connection leave a process behind (lib.rs:150, :228). *)
NoStrayProcess ==
  \A n \in Calls : Alive(n) =>
     \/ \E s \in Calls : tunnel[s] = n
     \/ \E t \in Threads : /\ pc[t] = "probe" /\ call[t] = n
                           /\ tunnel[slot[t]] = None

(* A connection only one thread at a time works on never loses its tunnel:
   what is alive can be closed by evict, or somebody is about to. *)
UnsharedNeverLeaks ==
  \A s \in Calls \ shared :
     Alive(tunnel[s]) => Registered(s) \/ \E t \in Threads : slot[t] = s \/ s \in drained[t]

(* Every ensure, evict and shutdown_all returns: the two kinds of locks do not
   wait for each other (lib.rs:138, :158). *)
CallsReturn == \A t \in Threads : pc[t] # "idle" ~> pc[t] = "idle"

(* lib.rs:281 "close all tunnels".  (A process in a slot that was taken out of
   the registry while a thread waited for it is out of everybody's reach.) *)
ShutdownReachesAll ==
  (\A t \in Threads : pc[t] = "idle") =>
     \A n \in Calls : Alive(n) => \E i \in Ids : registry[i] # None /\ tunnel[registry[i]] = n
=============================================================================
