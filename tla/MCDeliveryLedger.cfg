\* Two messages, every record kind, any two failures, power loss anywhere.
SPECIFICATION Spec
CONSTANTS
  a = a
  b = b
  Key = {a, b}
  MaxAttempts = 1
  Delay <- UnitDelay
  Retention = 1
  MaxFaults = 2
INVARIANTS
  NeverTorn
  MemoryAgrees
  AckedSurvives
PROPERTIES
  ImplementsStore
\* After a power loss the machine is off.
CHECK_DEADLOCK FALSE
