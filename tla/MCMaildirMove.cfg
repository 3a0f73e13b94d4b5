\* Two files of the same name, one perhaps in the destination already, any
\* three faults, the destination on the same or on another file system.
SPECIFICATION FairSpec
CONSTANTS
  m1 = m1
  m2 = m2
  Msg = {m1, m2}
  Other = other
  MaxStamp = 5
  MaxFaults = 3
INVARIANTS
  NeverLost
  ResultHonest
  CopiesExplained
PROPERTIES
  DestinationKept
  Moved
\* The bot has nothing left to do once every file is moved.
CHECK_DEADLOCK FALSE
