------------------------------ MODULE DataCopy ------------------------------
(***************************************************************************)
(* What a data synchronisation promises, whatever reads and writes it is   *)
(* made of: while it runs it adds missing rows to the target and touches   *)
(* no other row; it may give up at any time, and then owes nothing; it may *)
(* report success only when the target has every row that stayed in the    *)
(* source since it began.  Others use both databases all the while.        *)
(*                                                                         *)
(* SqlSync implements this specification (see Copy in SqlSync).            *)
(***************************************************************************)
CONSTANTS
  Tables,  \* tables to copy
  Keys     \* record identities

VARIABLES
  source,  \* source[t]: identities of the source table
  target,  \* target[t][k]: "none", a "foreign" row or a "copied" one
  owed,    \* owed[t]: rows that were in the source since the copy began
  status   \* "none", "copying", "complete" or "incomplete"

vars == <<source, target, owed, status>>

Missing(t) == {k \in Keys : target[t][k] = "none"}

Init ==
  /\ source \in [Tables -> SUBSET Keys]
  /\ target \in [Tables -> [Keys -> {"none", "foreign"}]]
  /\ owed   = source
  /\ status = "none"

Begin ==
  /\ status  = "none"
  /\ status' = "copying"
  /\ owed'   = source
  /\ UNCHANGED <<source, target>>

(* Some of the missing rows of a table are added, in one statement. *)
Add(t, ks) ==
  /\ status = "copying"
  /\ ks \subseteq Missing(t)
  /\ target' = [target EXCEPT ![t] = [k \in Keys |-> IF k \in ks THEN "copied" ELSE @[k]]]
  /\ UNCHANGED <<source, owed, status>>

Succeed ==
  /\ status = "copying"
  /\ \A t \in Tables : owed[t] \cap Missing(t) = {}
  /\ status' = "complete"
  /\ UNCHANGED <<source, target, owed>>

GiveUp ==
  /\ status  = "copying"
  /\ status' = "incomplete"
  /\ UNCHANGED <<source, target, owed>>

(* The result is confirmed; another copy may begin. *)
Confirm ==
  /\ status \in {"complete", "incomplete"}
  /\ status' = "none"
  /\ UNCHANGED <<source, target, owed>>

SourceGrows(t, k) ==
  /\ source' = [source EXCEPT ![t] = @ \cup {k}]
  /\ UNCHANGED <<target, owed, status>>

SourceShrinks(t, k) ==
  /\ source' = [source EXCEPT ![t] = @ \ {k}]
  /\ owed'   = [owed EXCEPT ![t] = @ \ {k}]
  /\ UNCHANGED <<target, status>>

TargetGrows(t, k) ==
  /\ k \in Missing(t)
  /\ target' = [target EXCEPT ![t][k] = "foreign"]
  /\ UNCHANGED <<source, owed, status>>

Next ==
  \/ Begin \/ Succeed \/ GiveUp \/ Confirm
  \/ \E t \in Tables :
       \/ \E ks \in SUBSET Keys : Add(t, ks)
       \/ \E k \in Keys : SourceGrows(t, k) \/ SourceShrinks(t, k) \/ TargetGrows(t, k)

Spec == Init /\ [][Next]_vars
=============================================================================
