----------------------------- MODULE CommandRun -----------------------------
(***************************************************************************)
(* One run of an external command: runMailCommand (sync and send commands) *)
(* or captureCommand (tools), on top of os/exec as they set it up: the     *)
(* child, a descendant that may keep the output pipe open, the goroutine   *)
(* that copies output, the one that kills the child when the context ends, *)
(* and the checks made once the command is over.                           *)
(***************************************************************************)
EXTENDS Naturals

CONSTANTS
  MaxOutput,          \* chosen.MaxOutput, in writes
  Chatter             \* bound: writes a child makes

ASSUME CommandAssumption == MaxOutput \in Nat /\ Chatter \in Nat

VARIABLES
  kind,               \* "mail" or "tool"
  parent,             \* the caller's context: live, past its deadline, cancelled
  stopped,            \* the run's own context has ended
  pc,                 \* where Cmd.Run is
  child,              \* the child process
  holder,             \* a descendant holds the output pipe
  wrote,              \* writes made by the child
  captured,           \* writes copied to the buffer
  exceeded,           \* boundedOutput.exceeded
  err,                \* what Cmd.Run will report
  result              \* what the caller is told

context == <<parent, stopped>>
output == <<wrote, captured, exceeded>>
vars == <<kind, context, pc, child, holder, output, err, result>>

Exits == {"zero", "nonzero", "killed"}

TypeOK ==
  /\ kind \in {"mail", "tool"}
  /\ parent \in {"live", "deadline", "cancelled"}
  /\ stopped \in BOOLEAN
  /\ pc \in {"start", "wait", "drain", "check", "done"}
  /\ child \in {"none", "running"} \cup Exits
  /\ holder \in BOOLEAN
  /\ wrote \in 0..Chatter /\ captured \in 0..wrote
  /\ exceeded \in BOOLEAN
  /\ err \in {"none", "exit", "context", "waitdelay", "limit", "start"}
  /\ result \in {"none", "ok", "error"}

Init ==
  /\ kind \in {"mail", "tool"}
  /\ parent = "live" /\ stopped = FALSE
  /\ pc = "start" /\ child = "none" /\ holder = FALSE
  /\ wrote = 0 /\ captured = 0 /\ exceeded = FALSE
  /\ err = "none" /\ result = "none"

-----------------------------------------------------------------------------
(* os/exec *)

\* Start refuses a context that has ended and a program it cannot run.
Start ==
  /\ pc = "start"
  /\ \/ ~stopped /\ child' = "running" /\ pc' = "wait" /\ UNCHANGED err
     \/ child' = child /\ pc' = "check" /\ err' = "start"
  /\ UNCHANGED <<kind, context, holder, output, result>>

\* The context ended: the watching goroutine kills the child.
Kill ==
  /\ pc = "wait"
  /\ stopped
  /\ child = "running"
  /\ child' = "killed"
  /\ UNCHANGED <<kind, context, pc, holder, output, err, result>>

\* The exit status comes first; the context's end counts if the watcher saw it
\* before the child was reaped.
Reap ==
  /\ pc = "wait"
  /\ child \in Exits
  /\ \/ child # "zero" /\ err' = "exit"
     \/ child = "zero" /\ stopped /\ err' = "context"
     \/ child = "zero" /\ UNCHANGED err
  /\ pc' = "drain"
  /\ UNCHANGED <<kind, context, child, holder, output, result>>

\* The copying goroutine moves one write from the pipe into the buffer; a
\* bounded buffer refuses the write that passes its limit and ends the run's
\* context.
CopyOutput ==
  /\ pc \in {"wait", "drain"}
  /\ captured < wrote
  /\ ~exceeded
  /\ IF kind = "tool" /\ captured + 1 > MaxOutput
     THEN /\ exceeded' = TRUE /\ stopped' = TRUE
          /\ UNCHANGED captured
     ELSE /\ captured' = captured + 1
          /\ UNCHANGED <<exceeded, stopped>>
  /\ UNCHANGED <<kind, parent, pc, child, holder, wrote, err, result>>

Report(e) == err' = IF err = "none" THEN e ELSE err

\* The copying goroutine has come to the end of the pipe, or to its error.
Drained ==
  /\ pc = "drain"
  /\ \/ exceeded /\ Report("limit")
     \/ ~exceeded /\ captured = wrote /\ ~holder /\ UNCHANGED err
  /\ pc' = "check"
  /\ UNCHANGED <<kind, context, child, holder, output, result>>

\* Mutant of WaitDelayPasses: the delay does not wait for the child itself.
DelayFromStart ==
  /\ pc \in {"wait", "drain"}
  /\ holder
  /\ Report("waitdelay")
  /\ pc' = "check"
  /\ UNCHANGED <<kind, context, child, holder, output, result>>

\* Mutant of WaitDelayPasses: without a WaitDelay, Wait waits for the pipe.
WaitForever == pc = "drain" /\ holder /\ UNCHANGED vars

\* Descendants that keep the pipe open are given WaitDelay, then abandoned.
WaitDelayPasses ==
  /\ pc = "drain"
  /\ holder
  /\ Report("waitdelay")
  /\ pc' = "check"
  /\ UNCHANGED <<kind, context, child, holder, output, result>>

-----------------------------------------------------------------------------
(* the code around it *)

Finish(r) ==
  /\ pc = "check"
  /\ result' = r
  /\ pc' = "done"
  /\ UNCHANGED <<kind, context, child, holder, output, err>>

\* runMailCommand: an ended context overrides even a successful exit.
MailResult ==
  /\ kind = "mail"
  /\ Finish(IF parent # "live" \/ err # "none" THEN "error" ELSE "ok")

\* Mutant of ToolResult: the command's own error is not looked at.
ToolResultLenient ==
  /\ kind = "tool"
  /\ Finish(IF parent # "live" \/ exceeded THEN "error" ELSE "ok")

\* captureCommand: the caller's context, then the limit, then the command.
ToolResult ==
  /\ kind = "tool"
  /\ Finish(IF parent # "live" \/ exceeded \/ err # "none" THEN "error" ELSE "ok")

-----------------------------------------------------------------------------
(* the child, its descendants, the clock and the operator *)

Write ==
  /\ child = "running"
  /\ wrote < Chatter
  /\ wrote' = wrote + 1
  /\ UNCHANGED <<kind, context, pc, child, holder, captured, exceeded, err, result>>

Fork ==
  /\ child = "running"
  /\ ~holder
  /\ holder' = TRUE
  /\ UNCHANGED <<kind, context, pc, child, output, err, result>>

HolderExits ==
  /\ holder
  /\ holder' = FALSE
  /\ UNCHANGED <<kind, context, pc, child, output, err, result>>

Exit ==
  /\ child = "running"
  /\ child' \in {"zero", "nonzero"}
  /\ UNCHANGED <<kind, context, pc, holder, output, err, result>>

EndContext(why) ==
  /\ pc # "done"
  /\ parent = "live"
  /\ parent' = why
  /\ stopped' = TRUE
  /\ UNCHANGED <<kind, pc, child, holder, output, err, result>>

Deadline == EndContext("deadline")
Cancel == EndContext("cancelled")

Program ==
  \/ Start \/ Kill \/ Reap \/ CopyOutput \/ Drained \/ WaitDelayPasses
  \/ MailResult \/ ToolResult

Next ==
  \/ Program
  \/ Write \/ Fork \/ HolderExits \/ Exit
  \/ Deadline \/ Cancel

\* The program's goroutines run, and the deadline comes; the child and its
\* descendants owe nothing.
Spec ==
  /\ Init /\ [][Next]_vars
  /\ WF_vars(Program)
  /\ WF_vars(Deadline)

-----------------------------------------------------------------------------
\* Success means the child itself exited with success, unkilled, and everything
\* it wrote was read within the limit: a tool's JSON is whole.
SuccessIsWhole ==
  result = "ok" =>
    /\ child = "zero"
    /\ captured = wrote
    /\ kind = "tool" => captured <= MaxOutput

\* No child is left running behind a caller that has its result.
NoChildLeft == result # "none" => child # "running"

\* Every call returns, even if the child never exits and a descendant never
\* closes its output.
Returns == <>(pc = "done")
=============================================================================
