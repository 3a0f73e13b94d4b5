\* An unmoved file outlives its delivered record: moves may fail twice, nothing else does.
SPECIFICATION Spec
CONSTANTS
  a = a
  b = b
  Key = {a, b}
  File = {1, 2}
  NoFile = 0
  KeyOf <- OwnKeyOf
  Skip = {}
  Unreadable = {}
  MaxAttempts = 2
  Delay <- GrowingDelay
  Retention = 1
  RunOnce = FALSE
  Faults = {"move"}
  MaxFaults = 2
INVARIANTS
  ConfirmedOnce
