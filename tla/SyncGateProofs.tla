--------------------------- MODULE SyncGateProofs ---------------------------
(***************************************************************************)
(* Safety of the synchronisation gate for any task ids and any number of   *)
(* tasks.  The inductive invariant adds to the four properties what a      *)
(* permit is: its generation was drawn before, and the active one is among *)
(* those handed out.                                                       *)
(***************************************************************************)
EXTENDS SyncGate, TLAPS

PermitsIssued ==
  /\ \A p \in issued : p.gen \in 1..generation
  /\ running \subseteq issued
  /\ flagged \subseteq issued
  /\ holder = NoPermit <=> phase = "Idle"
  /\ holder # NoPermit => holder \in issued

GateInv ==
  /\ GateTypeOK
  /\ PermitsIssued
  /\ OneExecutor
  /\ CancelVisible
  /\ CancelsAsked
  /\ ResultsConfirmed

(* A permit is never the placeholder of an idle gate. *)
LEMMA PermitIsReal == \A p \in Permits : p # NoPermit
BY DEF Permits, NoPermit

(* The gate starts idle. *)
LEMMA GateInit_GateInv == GateInit => GateInv
BY MaxRunsNat DEF GateInit, GateInv, GateTypeOK, PermitsIssued, OneExecutor,
   CancelVisible, CancelsAsked, ResultsConfirmed, Permits, NoPermit, Working,
   Terminal, Stages

(* begin() hands out a permit nobody has had. *)
LEMMA BeginStep ==
  ASSUME GateInv, NEW t \in Tasks, Begin(t)
  PROVE  GateInv'
<1> DEFINE q == [gen |-> generation + 1, task |-> t]
<1>1. q \in Permits /\ q # NoPermit
  BY MaxRunsNat, PermitIsReal DEF GateInv, GateTypeOK, Begin, Permits
<1>2. q \notin issued /\ q \notin flagged
  BY DEF Begin, GateInv, PermitsIssued
<1>3. running = {} /\ holder = NoPermit
  BY DEF Begin, GateInv, OneExecutor, PermitsIssued, Working
<1>4. /\ holder' = q /\ running' = {q} /\ issued' = issued \cup {q}
      /\ generation' = generation + 1 /\ generation' \in 0..MaxRuns
      /\ phase' = "Running" /\ stage' = "none"
      /\ UNCHANGED <<flagged, asked, confirmed>>
  BY <1>3, MaxRunsNat DEF Begin, GateInv, GateTypeOK
<1>5. GateTypeOK'
  BY <1>1, <1>4 DEF GateInv, GateTypeOK, Working, Stages
<1>6. PermitsIssued'
  <2>1. \A p \in issued' : p.gen \in 1..generation'
    BY <1>4 DEF GateInv, GateTypeOK, PermitsIssued
  <2> QED
    BY <2>1, <1>1, <1>4 DEF GateInv, PermitsIssued
<1>7. OneExecutor' /\ CancelVisible' /\ CancelsAsked'
  BY <1>2, <1>4 DEF GateInv, OneExecutor, CancelVisible, CancelsAsked, Working
<1>8. ResultsConfirmed'
  BY <1>2, <1>3, <1>4, PermitIsReal DEF GateInv, ResultsConfirmed, GateTypeOK
<1> QED
  BY <1>5, <1>6, <1>7, <1>8 DEF GateInv

(* The methods that act on the active task; everything else leaves it alone. *)
LEMMA TaskStep ==
  ASSUME GateInv, NEW p \in issued,
         \/ \E s \in Stages : UpdateProgress(p, s)
         \/ RequestCancel(p)
         \/ \E outcome \in Terminal : Finish(p, outcome)
         \/ Acknowledge(p)
  PROVE  GateInv'
<1> USE DEF GateInv, GateTypeOK, PermitsIssued, OneExecutor, CancelVisible,
            CancelsAsked, ResultsConfirmed, Current, Working, Terminal
<1>1. p \in Permits /\ p # NoPermit
  BY PermitIsReal
<1>2. CASE \E s \in Stages : UpdateProgress(p, s)
  <2> PICK s \in Stages : UpdateProgress(p, s)
    BY <1>2
  <2>1. stage' \in Stages /\ (phase = "Cancelling" => stage' = "Cancelling")
    BY DEF UpdateProgress, Stages
  <2> QED
    BY <2>1 DEF UpdateProgress
<1>3. CASE RequestCancel(p)
  <2>1. CASE Current(p) /\ phase = "Running"
    BY <1>1, <1>3, <2>1 DEF RequestCancel, Cancel, Stages
  <2>2. CASE ~(Current(p) /\ phase = "Running")
    BY <1>1, <1>3, <2>2 DEF RequestCancel, Cancel
  <2> QED
    BY <2>1, <2>2
<1>4. CASE \E outcome \in Terminal : Finish(p, outcome)
  <2> PICK outcome \in Terminal : Finish(p, outcome)
    BY <1>4
  <2>1. p \in running /\ holder = p /\ running' = {} /\ phase' = outcome
    BY DEF Finish
  <2> QED
    BY <2>1, <1>1 DEF Finish
<1>5. CASE Acknowledge(p)
  <2>1. CASE Current(p) /\ phase \in Terminal
    <3>1. /\ holder' = NoPermit /\ phase' = "Idle" /\ stage' = "none"
          /\ confirmed' = confirmed \cup {p} /\ running = {}
          /\ UNCHANGED <<generation, flagged, running, issued, asked>>
      BY <1>5, <2>1 DEF Acknowledge
    <3>2. ResultsConfirmed'
      BY <3>1, <2>1, <1>1
    <3> QED
      BY <3>1, <3>2, <1>1 DEF Stages
  <2>2. CASE ~(Current(p) /\ phase \in Terminal)
    BY <1>1, <1>5, <2>2 DEF Acknowledge
  <2> QED
    BY <2>1, <2>2
<1> QED
  BY <1>2, <1>3, <1>4, <1>5

(* The inductive invariant. *)
THEOREM GateInvariance == GateSpec => []GateInv
<1>1. GateInv /\ [GateNext]_gateVars => GateInv'
  <2> SUFFICES ASSUME GateInv, [GateNext]_gateVars PROVE GateInv'
    OBVIOUS
  <2>1. CASE \E t \in Tasks : Begin(t)
    BY <2>1, BeginStep
  <2>2. CASE \E p \in issued : \/ \E s \in Stages : UpdateProgress(p, s)
                               \/ RequestCancel(p)
                               \/ \E outcome \in Terminal : Finish(p, outcome)
                               \/ Acknowledge(p)
    BY <2>2, TaskStep
  <2>3. CASE UNCHANGED gateVars
    BY <2>3 DEF GateInv, GateTypeOK, PermitsIssued, OneExecutor, CancelVisible,
       CancelsAsked, ResultsConfirmed, gateVars
  <2> QED
    BY <2>1, <2>2, <2>3 DEF GateNext
<1> QED
  BY <1>1, GateInit_GateInv, PTL DEF GateSpec

(* One executor at a time, whatever start(), cancel and confirmation do
   (gate.rs begin, finish, acknowledge). *)
THEOREM Exclusive == GateSpec => []OneExecutor
BY GateInvariance, PTL DEF GateInv

(* A cancellation that was accepted stays visible until the task ends
   (gate.rs update_progress). *)
THEOREM CancellationShown == GateSpec => []CancelVisible
BY GateInvariance, PTL DEF GateInv

(* A view left over from an earlier task does not cancel a later one
   (gate.rs request_cancel_current). *)
THEOREM StaleViewsCancelNothing == GateSpec => []CancelsAsked
BY GateInvariance, PTL DEF GateInv

(* A result goes away only when its own view confirms it, also one that comes
   while a view of an earlier task is still open (gate.rs acknowledge_current). *)
THEOREM StaleViewsCloseNothing == GateSpec => []ResultsConfirmed
BY GateInvariance, PTL DEF GateInv
=============================================================================
