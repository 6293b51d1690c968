------------------------------ MODULE TaskScope ------------------------------
(***************************************************************************)
(* What the platform promises about work that runs on behalf of a plugin:  *)
(* every owner has a scope.  While the scope is open the owner may hold a  *)
(* bounded number of tasks; closing the scope signals every task it holds  *)
(* in one atomic step, and a closed scope neither reopens nor admits.      *)
(*                                                                         *)
(* PluginHost implements this specification (see Scope in PluginHost).     *)
(***************************************************************************)
CONSTANTS
  Owners,    \* who tasks belong to
  Ids,       \* identities a task can get within its owner's scope
  HasRoom(_) \* the capacity rule: may an owner that holds this set take one more?

VARIABLES
  open,     \* open[o]: the scope of o admits tasks
  active,   \* active[o]: the tasks o holds
  warned    \* warned[o]: the held tasks that were told to stop

vars == <<open, active, warned>>

TypeOK ==
  /\ open   \in [Owners -> BOOLEAN]
  /\ active \in [Owners -> SUBSET Ids]
  /\ warned \in [Owners -> SUBSET Ids]

Init ==
  /\ open   = [o \in Owners |-> TRUE]
  /\ active = [o \in Owners |-> {}]
  /\ warned = [o \in Owners |-> {}]

(* Admission: only into an open scope, within its capacity, unwarned. *)
Admit(o, i) ==
  /\ open[o]
  /\ i \notin active[o]
  /\ HasRoom(active[o])
  /\ active' = [active EXCEPT ![o] = @ \cup {i}]
  /\ UNCHANGED <<open, warned>>

(* One task is told to stop, at its owner's request. *)
Warn(o, i) ==
  /\ i \in active[o]
  /\ warned' = [warned EXCEPT ![o] = @ \cup {i}]
  /\ UNCHANGED <<open, active>>

(* A task is given up: whatever was said to it goes with it. *)
Release(o, i) ==
  /\ i \in active[o]
  /\ active' = [active EXCEPT ![o] = @ \ {i}]
  /\ warned' = [warned EXCEPT ![o] = @ \ {i}]
  /\ UNCHANGED open

(* The scope closes and, in the same step, every task it holds is told. *)
Close(o) ==
  /\ open'   = [open EXCEPT ![o] = FALSE]
  /\ warned' = [warned EXCEPT ![o] = active[o]]
  /\ UNCHANGED active

Next ==
  \E o \in Owners :
     \/ \E i \in Ids : Admit(o, i) \/ Warn(o, i) \/ Release(o, i)
     \/ Close(o)

Spec == Init /\ [][Next]_vars
=============================================================================
