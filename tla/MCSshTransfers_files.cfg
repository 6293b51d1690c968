\* Two jobs on the same file; one disturbance anywhere: a session that breaks, a
\* disconnect or shutdown, a crash, or another program's write.
CONSTANTS
  j1 = j1  j2 = j2
  Jobs = {j1, j2}
  MaxQueued = 2
  MaxHistory = 1
  MaxPermits = 2
  MaxTrouble = 1
  KindChoices <- SameFile
  Absent = Absent
  NoJob = NoJob
SPECIFICATION Spec
INVARIANTS TargetWhole CompletedLanded RunningIsExecuted NoSessionAfterShutdown
PROPERTIES NothingLost RefuseKeeps
SYMMETRY Symmetry
CHECK_DEADLOCK FALSE
