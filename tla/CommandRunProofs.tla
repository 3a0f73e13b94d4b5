-------------------------- MODULE CommandRunProofs --------------------------
(* Proofs about CommandRun, for any output limit and any number of writes. *)
EXTENDS CommandRun, TLAPS

\* What the caller may conclude from where Cmd.Run is: the child is only left
\* behind once it is over, an unnoticed error is no error, and output is only
\* missing if an error says so.
Observed ==
  /\ pc = "start" => child = "none" /\ err = "none"
  /\ pc = "wait" => child # "none" /\ err = "none"
  /\ pc = "drain" => child \in Exits
  /\ pc \in {"check", "done"} => child \in Exits \/ (child = "none" /\ err = "start")
  /\ pc \in {"drain", "check", "done"} /\ err = "none" => child = "zero"
  /\ pc \in {"check", "done"} /\ err = "none" => captured = wrote
  /\ kind = "tool" => captured <= MaxOutput
  /\ result # "none" => pc = "done"
  /\ result = "ok" => err = "none"

IInv == TypeOK /\ Observed

LEMMA InitInv == ASSUME Init PROVE IInv
<1> USE CommandAssumption DEF Init
<1>1. TypeOK
  <2>1. wrote \in 0..Chatter /\ captured \in 0..wrote
    OBVIOUS
  <2>2. kind \in {"mail", "tool"} /\ result \in {"none", "ok", "error"}
    OBVIOUS
  <2>3. parent \in {"live", "deadline", "cancelled"} /\ stopped \in BOOLEAN
    OBVIOUS
  <2>4. /\ pc \in {"start", "wait", "drain", "check", "done"}
        /\ child \in {"none", "running"} \cup Exits
        /\ err \in {"none", "exit", "context", "waitdelay", "limit", "start"}
    OBVIOUS
  <2>5. holder \in BOOLEAN /\ exceeded \in BOOLEAN
    OBVIOUS
  <2>6. QED
    BY <2>1, <2>2, <2>3, <2>4, <2>5 DEF TypeOK
<1>2. Observed
  BY DEF Observed
<1>3. QED
  BY <1>1, <1>2 DEF IInv

LEMMA ProgramInv == ASSUME IInv, Program PROVE IInv'
<1> USE CommandAssumption DEF IInv, TypeOK, Observed, Exits, context, output
<1>1. CASE Start
  BY <1>1 DEF Start
<1>2. CASE Kill
  BY <1>2 DEF Kill
<1>3. CASE Reap
  BY <1>3 DEF Reap
<1>4. CASE CopyOutput
  <2>1. CASE kind = "tool" /\ captured + 1 > MaxOutput
    BY <1>4, <2>1 DEF CopyOutput
  <2>2. CASE ~(kind = "tool" /\ captured + 1 > MaxOutput)
    <3>1. captured' = captured + 1 /\ captured' \in 0..wrote
      BY <1>4, <2>2 DEF CopyOutput
    <3>2. QED
      BY <1>4, <2>2, <3>1 DEF CopyOutput
  <2>3. QED
    BY <2>1, <2>2
<1>5. CASE Drained
  BY <1>5 DEF Drained, Report
<1>6. CASE WaitDelayPasses
  BY <1>6 DEF WaitDelayPasses, Report
<1>7. CASE MailResult
  BY <1>7 DEF MailResult, Finish
<1>8. CASE ToolResult
  BY <1>8 DEF ToolResult, Finish
<1>9. QED
  BY <1>1, <1>2, <1>3, <1>4, <1>5, <1>6, <1>7, <1>8 DEF Program

LEMMA OutsideInv ==
  ASSUME IInv, Write \/ Fork \/ HolderExits \/ Exit \/ Deadline \/ Cancel
  PROVE  IInv'
<1> USE CommandAssumption DEF IInv, TypeOK, Observed, Exits, context, output
<1>1. CASE Write
  BY <1>1 DEF Write
<1>2. CASE Fork \/ HolderExits
  BY <1>2 DEF Fork, HolderExits
<1>3. CASE Exit
  BY <1>3 DEF Exit
<1>4. CASE Deadline \/ Cancel
  BY <1>4 DEF Deadline, Cancel, EndContext
<1>5. QED
  BY <1>1, <1>2, <1>3, <1>4

LEMMA Invariance == Spec => []IInv
<1>1. ASSUME IInv, [Next]_vars PROVE IInv'
  <2>1. CASE UNCHANGED vars
    BY <1>1, <2>1 DEF vars, context, output, IInv, TypeOK, Observed
  <2>2. QED
    BY <1>1, <2>1, ProgramInv, OutsideInv DEF Next
<1>2. QED
  BY <1>1, InitInv, PTL DEF Spec

\* The run's variables keep their types, for any limit.
THEOREM CommandTypeCorrect == Spec => []TypeOK
<1>1. IInv => TypeOK
  BY DEF IInv
<1>2. QED
  BY <1>1, Invariance, PTL

\* A command reported as successful has exited so and its output is whole.
THEOREM SuccessIsWholeAlways == Spec => []SuccessIsWhole
<1>1. IInv => SuccessIsWhole
  BY DEF IInv, Observed, SuccessIsWhole
<1>2. QED
  BY <1>1, Invariance, PTL

\* The caller never has its result while the child is still running.
THEOREM NoChildLeftAlways == Spec => []NoChildLeft
<1>1. IInv => NoChildLeft
  BY DEF IInv, Observed, NoChildLeft, Exits
<1>2. QED
  BY <1>1, Invariance, PTL
=============================================================================
