----------------------------- MODULE MCSqlSync ------------------------------
(***************************************************************************)
(* Two tables and two tasks are more than TLC can explore at once, so a    *)
(* behaviour is of one of two scenes: two tasks in a row that copy the     *)
(* rows of the first table, or one task that creates and fills two tables  *)
(* of one row.                                                             *)
(***************************************************************************)
EXTENDS SqlSync

CONSTANTS t1, t2

(* Row 2 of the first table holds a second unique value of a foreign row. *)
MCClash == {<<1, 2>>}

VARIABLE scene

(* The second table exists, and nobody has rows for it. *)
RowsScene == scene = "rows" /\ 2 \in exists /\ source[2] = {} /\ Present(2) = {}

(* MySQL, row 1 only, and one task *)
TablesScene ==
  /\ scene = "tables" /\ engine = "mysql"
  /\ \A t \in Tables : source[t] \cup Present(t) \subseteq {1}
  /\ \A p \in issued : p.task = t1

Scene == RowsScene \/ TablesScene

(* Ids are all alike: the first task has the first. *)
FirstIsFirst == \A p \in issued : p.gen = 1 => p.task = t1

MCInit == SyncInit /\ Scene

MCNext == SyncNext /\ UNCHANGED scene /\ Scene' /\ FirstIsFirst'

MCSpec == MCInit /\ [][MCNext]_<<vars, scene>> /\ WF_vars(\E p \in running : Execute(p))
=============================================================================
