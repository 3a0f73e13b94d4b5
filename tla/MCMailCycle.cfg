\* Safety: three files, two of them with the same Message-ID, two attempts,
\* any three faults of any kind.
SPECIFICATION Spec
CONSTANTS
  a = a
  b = b
  Key = {a, b}
  File = {1, 2, 3}
  NoFile = 0
  KeyOf <- SharedKeyOf
  Skip = {2}
  Unreadable = {}
  MaxAttempts = 2
  Delay <- GrowingDelay
  Retention = 1
  RunOnce = FALSE
  Faults = {"sync", "open", "save", "scan", "move", "rename", "putback",
            "cancel", "crash", "unconfirmed"}
  MaxFaults = 3
INVARIANTS
  WorkIsDue
  AttemptsBounded
  FailedIsQuarantined
  ArchivedIsAnswered
  RepliesExact
PROPERTIES
  RecordLifecycle
  KeepsPromise
