\* A transfer that is cancelled while its commit is under way.
CONSTANTS
  j1 = j1  j2 = j2
  Jobs = {j1, j2}
  MaxQueued = 2
  MaxHistory = 1
  MaxPermits = 1
  MaxTrouble = 0
  KindChoices <- BothWays
  Absent = Absent
  NoJob = NoJob
SPECIFICATION Spec
PROPERTY OkIsCompleted
CHECK_DEADLOCK FALSE
