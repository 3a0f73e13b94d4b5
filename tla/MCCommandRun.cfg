\* A child that writes up to three times, one write past the tool limit.
SPECIFICATION Spec
CONSTANTS
  MaxOutput = 2
  Chatter = 3
INVARIANTS
  SuccessIsWhole
  NoChildLeft
PROPERTIES
  Returns
\* Once the call has returned, nothing more need happen.
CHECK_DEADLOCK FALSE
