---------------------------- MODULE ReplyAttempt ----------------------------
(***************************************************************************)
(* One attempt at a message as runCycle sees it, with nothing of how a     *)
(* reply comes about: the message is archived if it is one to skip; or the *)
(* sender takes one reply; or the attempt fails, before that or after.     *)
(* ReplyPipeline implements it.  The processMessage steps of MailCycle     *)
(* (SkipMessage, PipelineFails, SenderAccepts, SendRefused, SendConfirmed, *)
(* SendUnconfirmed) are its steps.                                         *)
(***************************************************************************)
CONSTANTS
  Message,
  Skip(_, _)          \* a message gets no reply with these settings

VARIABLES
  stage,              \* "idle", "process", or "taken" by the sender
  msg,                \* the message, while not idle
  settings,
  outcome             \* what the last attempt returned

attemptVars == <<stage, msg, settings, outcome>>

AttemptInit == stage = "idle" /\ outcome = "none"

Start ==
  /\ stage = "idle"
  /\ stage' = "process" /\ msg' \in Message
  /\ outcome' = "none"
  /\ UNCHANGED settings

End(result) == stage' = "idle" /\ outcome' = result /\ UNCHANGED settings

Archive == stage = "process" /\ Skip(msg, settings) /\ End("archive")

Take ==
  /\ stage = "process" /\ ~Skip(msg, settings)
  /\ stage' = "taken"
  /\ UNCHANGED <<msg, settings, outcome>>

Deliver == stage = "taken" /\ End("delivered")

GiveUp == stage # "idle" /\ End("failed")

AttemptNext == Start \/ Archive \/ Take \/ Deliver \/ GiveUp

AttemptSpec == AttemptInit /\ [][AttemptNext]_attemptVars
=============================================================================
