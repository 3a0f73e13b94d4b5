\* A mail program may file a message of the same name while a move runs.
SPECIFICATION Spec
CONSTANTS
  m1 = m1
  m2 = m2
  Msg = {m1, m2}
  Other = other
  MaxStamp = 2
  MaxFaults = 1
PROPERTIES
  NeverOverwritten
\* The bot has nothing left to do once every file is moved.
CHECK_DEADLOCK FALSE
