\* An upload and a download that wait for the same permit and the same session.
CONSTANTS
  j1 = j1  j2 = j2
  Jobs = {j1, j2}
  MaxQueued = 2
  MaxHistory = 1
  MaxPermits = 1
  MaxTrouble = 0
  KindChoices <- BothWays
  Absent = Absent
  NoJob = NoJob
SPECIFICATION FairSpec
INVARIANTS HandlesMatch
PROPERTY EveryTransferEnds
CHECK_DEADLOCK FALSE
