\* A cap of 24 in 5-bit-plus-sign integers, where one doubling too many wraps.
SPECIFICATION Spec
CONSTANTS
  Cap = 24
  IntMax = 31
  BaseLimit = 31
  AttemptLimit = 7
INVARIANTS
  DelayInRange
  Exponential
\* The function returns.
CHECK_DEADLOCK FALSE
