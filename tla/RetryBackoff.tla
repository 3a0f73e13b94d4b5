---------------------------- MODULE RetryBackoff ----------------------------
(***************************************************************************)
(* retryDelay: the loop that doubles the base delay once per failed        *)
(* attempt and caps it, in integers of a given width.  Doubling that does  *)
(* not fit wraps, as Go's does.                                            *)
(***************************************************************************)
EXTENDS Integers

CONSTANTS
  Cap,                \* maxRetryBackoff
  IntMax,             \* the largest time.Duration
  BaseLimit,          \* bound: base delays tried are 1..BaseLimit
  AttemptLimit        \* bound: attempt counts tried are 1..AttemptLimit

ASSUME BackoffAssumption ==
  /\ IntMax \in Nat /\ Cap \in 1..IntMax
  /\ BaseLimit \in 1..IntMax
  /\ AttemptLimit \in Nat \ {0}

VARIABLES base, attempts, delay, i, pc

vars == <<base, attempts, delay, i, pc>>

\* Two's complement: the int64 range has IntMax + 1 negative values.
Wrap(n) == IF n > IntMax THEN n - 2 * (IntMax + 1) ELSE n

Half == Cap \div 2

TypeOK ==
  /\ base \in 1..BaseLimit
  /\ attempts \in 1..AttemptLimit
  /\ delay \in Int
  /\ i \in 1..AttemptLimit
  /\ pc \in {"loop", "cap", "done"}

Init ==
  /\ base \in 1..BaseLimit
  /\ attempts \in 1..AttemptLimit
  /\ delay = base
  /\ i = 1
  /\ pc = "loop"

\* Mutant of Looping: one pass too many.
LoopingLate == i <= attempts /\ delay < Cap

Looping == i < attempts /\ delay < Cap

\* Mutant of Double: nothing is checked before doubling.
DoubleUnchecked ==
  /\ pc = "loop"
  /\ Looping
  /\ delay' = Wrap(delay * 2)
  /\ i' = i + 1
  /\ UNCHANGED <<base, attempts, pc>>

\* One pass of the loop body, unless doubling would pass the cap.
Double ==
  /\ pc = "loop"
  /\ Looping /\ delay <= Half
  /\ delay' = Wrap(delay * 2)
  /\ i' = i + 1
  /\ UNCHANGED <<base, attempts, pc>>

\* The early return of the cap.
Saturate ==
  /\ pc = "loop"
  /\ Looping /\ delay > Half
  /\ delay' = Cap
  /\ pc' = "done"
  /\ UNCHANGED <<base, attempts, i>>

LeaveLoop ==
  /\ pc = "loop"
  /\ ~Looping
  /\ pc' = "cap"
  /\ UNCHANGED <<base, attempts, delay, i>>

\* The final comparison with the cap.
Return ==
  /\ pc = "cap"
  /\ delay' = IF delay > Cap THEN Cap ELSE delay
  /\ pc' = "done"
  /\ UNCHANGED <<base, attempts, i>>

Next == Double \/ Saturate \/ LeaveLoop \/ Return

Spec == Init /\ [][Next]_vars

-----------------------------------------------------------------------------
\* The delay never wraps and a returned one lies between the base delay and
\* the cap: no failure is retried at once or in the past, and none is put off
\* beyond a day.
DelayInRange ==
  /\ delay > 0
  /\ pc = "done" => delay <= Cap /\ (delay >= base \/ delay = Cap)

\* The powers of two.
Power[n \in Nat] == IF n = 0 THEN 1 ELSE 2 * Power[n - 1]

Ideal == base * Power[attempts - 1]

\* What the doc promises: exponential backoff capped at Cap.
Exponential ==
  pc = "done" => delay = IF Ideal > Cap THEN Cap ELSE Ideal
=============================================================================
