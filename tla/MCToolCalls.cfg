\* Plans of up to three calls over three declared ones and an undeclared one, a
\* budget of three, texts up to one past it, two attempts.
SPECIFICATION Spec
CONSTANTS
  t1 = t1
  t2 = t2
  t3 = t3
  u = u
  Call = {t1, t2, t3, u}
  Declared = {t1, t2, t3}
  MaxToolContext = 3
  Note = 2
  Trim = 1
  MaxCalls = 3
  MaxAttempts = 2
  MaxText = 4
INVARIANTS
  TypeOK
  BudgetKept
  CutOnlyWhenFull
  OncePerAttempt
  StopsAtRefusal
  WholePlan
\* The last attempt may end the run.
CHECK_DEADLOCK FALSE
