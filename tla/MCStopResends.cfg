\* One stop signal, at any point of the cycle, is the only fault.
SPECIFICATION Spec
CONSTANTS
  a = a
  b = b
  Key = {a, b}
  File = {1, 2}
  NoFile = 0
  KeyOf <- OwnKeyOf
  Skip = {}
  Unreadable = {}
  MaxAttempts = 2
  Delay <- GrowingDelay
  Retention = 1
  RunOnce = TRUE
  Faults = {"cancel"}
  MaxFaults = 1
INVARIANTS
  ConfirmedOnce
