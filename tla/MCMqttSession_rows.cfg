\* One subscription, topics toggled and the protocol chosen while it runs.
CONSTANTS
  f1 = f1  f2 = f2
  Topics <- MCTopics
  StatusRoom = 2
  MessageRoom = 1
  RequestRoom = 1
  MaxSessions = 1
  MaxClicks = 3
  MaxMessages = 0
SPECIFICATION Spec
CHECK_DEADLOCK FALSE
INVARIANT RowsTell
