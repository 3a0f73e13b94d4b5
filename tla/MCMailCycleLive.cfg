\* Liveness: two files, retries that wait, any two faults, restarts.
SPECIFICATION FairSpec
CONSTANTS
  a = a
  b = b
  Key = {a, b}
  File = {1, 2}
  NoFile = 0
  KeyOf <- OwnKeyOf
  Skip = {}
  Unreadable = {}
  MaxAttempts = 2
  Delay <- GrowingDelay
  Retention = 1
  RunOnce = TRUE
  Faults = {"sync", "open", "save", "scan", "move", "rename", "putback",
            "cancel", "crash", "unconfirmed"}
  MaxFaults = 2
PROPERTIES
  Drained
