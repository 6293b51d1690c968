\* A subscription started while the profile is being saved.
CONSTANTS
  f1 = f1  f2 = f2
  Topics <- MCTopics
  StatusRoom = 2
  MessageRoom = 1
  RequestRoom = 1
  MaxSessions = 2
  MaxClicks = 2
  MaxMessages = 2
SPECIFICATION Spec
CHECK_DEADLOCK FALSE
INVARIANT EndIsSeen
