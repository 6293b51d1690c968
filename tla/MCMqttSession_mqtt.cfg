\* Two topics, two sessions, two messages, channels at their limits.
CONSTANTS
  f1 = f1  f2 = f2
  Topics <- MCTopics
  StatusRoom = 2
  MessageRoom = 1
  RequestRoom = 1
  MaxSessions = 2
  MaxClicks = 2
  MaxMessages = 2
SPECIFICATION FairSpec
CHECK_DEADLOCK FALSE
INVARIANTS NoMessageLost AcksMatched OneSession
PROPERTY StopEnds
