----------------------------- MODULE MailCycle ------------------------------
(***************************************************************************)
(* The bot's main loop: runCycle and the ways it starts, stops and fails.  *)
(* One process scans an inbox serially.  For each message it consults the  *)
(* delivery ledger, runs the reply pipeline, hands the reply to the        *)
(* sender, records the outcome and moves the file.  The environment        *)
(* delivers mail, renames files, signals or kills the process, makes a     *)
(* save, a scan or a move fail, and lets time pass.                        *)
(***************************************************************************)
EXTENDS LedgerStore

CONSTANTS
  File,               \* incoming files, numbered in sorted path order
  NoFile,             \* no file is being processed
  KeyOf,              \* the message identity of each file
  Skip,               \* files the sender policy archives unanswered
  Unreadable,         \* files messageKey cannot read
  RunOnce,            \* cfg.Interval <= 0: one scan per process
  Faults,             \* the kinds of fault this instance can meet
  MaxFaults           \* bound: faults per behaviour

ASSUME CycleAssumption ==
  /\ File \subseteq Nat
  /\ NoFile \notin File
  /\ KeyOf \in [File -> Key]
  /\ Skip \subseteq File
  /\ Unreadable \subseteq File
  /\ RunOnce \in BOOLEAN
  /\ MaxFaults \in Nat

VARIABLES
  at,                 \* the Maildirs that hold a copy of each file
  pc,                 \* where the process is
  todo,               \* scanned files not yet looked at
  cur,                \* the file being processed
  stale,              \* scanned files whose path has changed since
  tried,              \* record.Attempts as read when cur was picked
  cancelled,          \* the process has received its stop signal
  sent,               \* history: replies the sender accepted, per identity
  lost,               \* history: accepted replies left without a record
  confirmed,          \* history: senders that exited with success
  faults              \* faults met so far

botVars == <<todo, cur, stale, tried>>
history == <<sent, lost, confirmed>>
vars == <<ledger, at, pc, botVars, cancelled, history, faults>>

-----------------------------------------------------------------------------
Place == {"inbox", "archive", "failed"}

Idle == {"stopped", "rest", "sync", "open", "prune", "scan", "next"}
InFlightAt == {"accepted", "exited", "record"}
Working == {"process", "send", "failed"} \cup InFlightAt
Moving == {"archive", "quarantine"}

TypeOK ==
  /\ ledger \in [Key -> Record]
  /\ at \in [File -> SUBSET Place]
  /\ pc \in Idle \cup Working \cup Moving
  /\ todo \subseteq File
  /\ cur \in File \cup {NoFile}
  /\ pc \in Working \cup Moving <=> cur # NoFile
  /\ stale \subseteq File
  /\ tried \in Nat
  /\ cancelled \in BOOLEAN
  /\ sent \in [Key -> Nat]
  /\ lost \in [Key -> Nat]
  /\ confirmed \in [Key -> Nat]
  /\ faults \in Nat

Init ==
  /\ StoreInit
  /\ at = [f \in File |-> {}]
  /\ pc = "stopped"
  /\ todo = {} /\ cur = NoFile /\ stale = {} /\ tried = 0
  /\ cancelled = FALSE
  /\ sent = [k \in Key |-> 0]
  /\ lost = [k \in Key |-> 0]
  /\ confirmed = [k \in Key |-> 0]
  /\ faults = 0

\* The step meets a fault of this kind; a fault-free step leaves faults alone.
Fault(kind) ==
  /\ kind \in Faults
  /\ faults < MaxFaults
  /\ faults' = faults + 1

Goto(place) == pc' = place

\* runCycle returns; main leaves its loop or waits for the interval.
EndCycle ==
  /\ pc' = IF RunOnce \/ cancelled THEN "stopped" ELSE "rest"
  /\ todo' = {} /\ cur' = NoFile /\ stale' = {} /\ tried' = 0

\* The loop goes on to the next scanned file.
Continue ==
  /\ pc' = "next"
  /\ cur' = NoFile
  /\ tried' = 0

CurKey == KeyOf[cur]

SentOnce(k) == sent' = [sent EXCEPT ![k] = @ + 1]
LostOnce(k) == lost' = [lost EXCEPT ![k] = @ + 1]

-----------------------------------------------------------------------------
(* main, and the start of a cycle *)

StartProcess ==
  /\ pc = "stopped"
  /\ Goto("sync")
  /\ cancelled' = FALSE
  /\ UNCHANGED <<ledger, at, botVars, history, faults>>

\* The interval is over, or the stop signal ends the wait: either way the
\* loop body runs again.
Wake ==
  /\ pc = "rest"
  /\ Goto("sync")
  /\ UNCHANGED <<ledger, at, botVars, cancelled, history, faults>>

ReceiveMail ==
  /\ pc = "sync"
  /\ ~cancelled
  /\ Goto("open")
  /\ UNCHANGED <<ledger, at, botVars, cancelled, history, faults>>

ReceiveMailFails ==
  /\ pc = "sync"
  /\ \/ cancelled /\ UNCHANGED faults
     \/ Fault("sync")
  /\ EndCycle
  /\ UNCHANGED <<ledger, at, cancelled, history>>

OpenLedger ==
  /\ pc = "open"
  /\ Goto("prune")
  /\ UNCHANGED <<ledger, at, botVars, cancelled, history, faults>>

\* Delivered records past their retention go, their files moved or not.
PruneCompleted ==
  /\ pc = "prune"
  /\ Prune(Expired)
  /\ lost' = [k \in Key |-> IF k \in Expired THEN lost[k] + 1 ELSE lost[k]]
  /\ Goto("scan")
  /\ UNCHANGED <<at, botVars, cancelled, sent, confirmed, faults>>

FindMessages ==
  /\ pc = "scan"
  /\ todo' = {f \in File : "inbox" \in at[f]}
  /\ Goto("next")
  /\ UNCHANGED <<ledger, at, cur, stale, tried, cancelled, history, faults>>

\* Opening the ledger, pruning it or walking the Maildir fails.
SetupFails ==
  /\ \/ pc = "open" /\ Fault("open")
     \/ pc = "prune" /\ Expired # {} /\ Fault("save")
     \/ pc = "scan" /\ Fault("scan")
  /\ EndCycle
  /\ UNCHANGED <<ledger, at, cancelled, history>>

-----------------------------------------------------------------------------
(* the loop over the scanned files *)

FinishScan ==
  /\ pc = "next"
  /\ todo = {} \/ cancelled
  /\ EndCycle
  /\ UNCHANGED <<ledger, at, cancelled, history, faults>>

\* f is the next path in sorted order.
Pick(f) ==
  /\ pc = "next"
  /\ ~cancelled
  /\ f \in todo
  /\ \A g \in todo : f <= g
  /\ todo' = todo \ {f}

Identified(f) == f \notin stale /\ f \notin Unreadable

Due(f) ==
  LET r == ledger[KeyOf[f]] IN
    r.status = "none" \/ (r.status = "retry" /\ r.timer = 0)

\* messageKey fails: the file is left for the next scan, nothing is recorded.
Unidentified(f) ==
  /\ Pick(f)
  /\ ~Identified(f)
  /\ UNCHANGED <<ledger, at, pc, cur, stale, tried, cancelled, history, faults>>

NotDue(f) ==
  /\ Pick(f)
  /\ Identified(f)
  /\ ledger[KeyOf[f]].status = "retry" /\ ledger[KeyOf[f]].timer > 0
  /\ UNCHANGED <<ledger, at, pc, cur, stale, tried, cancelled, history, faults>>

\* A settled message is only moved: Archive if delivered, else Failed.
Resettle(f) ==
  /\ Pick(f)
  /\ Identified(f)
  /\ \/ ledger[KeyOf[f]].status = "delivered" /\ Goto("archive")
     \/ ledger[KeyOf[f]].status = "quarantined" /\ Goto("quarantine")
  /\ cur' = f
  /\ UNCHANGED <<ledger, at, stale, tried, cancelled, history, faults>>

\* Mutant of Attempt: the time of the next attempt is not checked.
AttemptEarly(f) ==
  /\ Pick(f)
  /\ Identified(f)
  /\ ledger[KeyOf[f]].status \in {"none", "retry"}
  /\ cur' = f
  /\ tried' = ledger[KeyOf[f]].attempts
  /\ Goto("process")
  /\ UNCHANGED <<ledger, at, stale, cancelled, history, faults>>

\* Mutant of Attempt: a delivered record does not stop the pipeline.
AttemptAgain(f) ==
  /\ Pick(f)
  /\ Identified(f)
  /\ Due(f) \/ ledger[KeyOf[f]].status = "delivered"
  /\ cur' = f
  /\ tried' = ledger[KeyOf[f]].attempts
  /\ Goto("process")
  /\ UNCHANGED <<ledger, at, stale, cancelled, history, faults>>

\* Mutant of Attempt: the count of earlier attempts is not carried on.
AttemptForgetful(f) ==
  /\ Pick(f)
  /\ Identified(f)
  /\ Due(f)
  /\ cur' = f
  /\ tried' = 0
  /\ Goto("process")
  /\ UNCHANGED <<ledger, at, stale, cancelled, history, faults>>

Attempt(f) ==
  /\ Pick(f)
  /\ Identified(f)
  /\ Due(f)
  /\ cur' = f
  /\ tried' = ledger[KeyOf[f]].attempts
  /\ Goto("process")
  /\ UNCHANGED <<ledger, at, stale, cancelled, history, faults>>

-----------------------------------------------------------------------------
(* processMessage *)

\* Mutant of PipelineFails: the error is overlooked, the disposition returned
\* with it (archive) is acted on.
PipelineErrorIgnored ==
  /\ pc = "process"
  /\ Goto("archive")
  /\ UNCHANGED <<ledger, at, botVars, cancelled, history, faults>>

\* Any stage before the sender returns an error.
PipelineFails ==
  /\ pc = "process"
  /\ Goto("failed")
  /\ UNCHANGED <<ledger, at, botVars, cancelled, history, faults>>

SkipMessage ==
  /\ pc = "process"
  /\ cur \in Skip
  /\ Goto("archive")
  /\ UNCHANGED <<ledger, at, botVars, cancelled, history, faults>>

\* The reply is ready and the sender command is started.
StartSender ==
  /\ pc = "process"
  /\ cur \notin Skip
  /\ ~cancelled
  /\ Goto("send")
  /\ UNCHANGED <<ledger, at, botVars, cancelled, history, faults>>

\* The sender takes responsibility for the reply; the bot does not know yet.
SenderAccepts ==
  /\ pc = "send"
  /\ SentOnce(CurKey)
  /\ Goto("accepted")
  /\ UNCHANGED <<ledger, at, botVars, cancelled, lost, confirmed, faults>>

SendRefused ==
  /\ pc = "send"
  /\ Goto("failed")
  /\ UNCHANGED <<ledger, at, botVars, cancelled, history, faults>>

\* The sender exits with success.
SenderExits ==
  /\ pc = "accepted"
  /\ confirmed' = [confirmed EXCEPT ![CurKey] = @ + 1]
  /\ Goto("exited")
  /\ UNCHANGED <<ledger, at, botVars, cancelled, sent, lost, faults>>

SendConfirmed ==
  /\ pc = "exited"
  /\ ~cancelled
  /\ Goto("record")
  /\ UNCHANGED <<ledger, at, botVars, cancelled, history, faults>>

\* runMailCommand reports an accepted reply as failed: the context ended
\* before its check, even after a successful exit; the sender exited with an
\* error; or a descendant of it kept the output open past WaitDelay.
SendUnconfirmed ==
  /\ pc \in {"accepted", "exited"}
  /\ \/ cancelled /\ UNCHANGED faults
     \/ Fault("unconfirmed")
  /\ LostOnce(CurKey)
  /\ Goto("failed")
  /\ UNCHANGED <<ledger, at, botVars, cancelled, sent, confirmed>>

-----------------------------------------------------------------------------
(* recording the outcome *)

\* A cancelled attempt ends the cycle without a record.
GiveUpOnCancel ==
  /\ pc = "failed"
  /\ cancelled
  /\ EndCycle
  /\ UNCHANGED <<ledger, at, cancelled, history, faults>>

\* Mutant of RecordRetry: one attempt too many.
RecordRetryOnceMore ==
  /\ pc = "failed"
  /\ ~cancelled
  /\ tried < MaxAttempts
  /\ Put(CurKey, RetryRecord(tried + 1))
  /\ Continue
  /\ UNCHANGED <<at, todo, stale, cancelled, history, faults>>

RecordRetry ==
  /\ pc = "failed"
  /\ ~cancelled
  /\ tried + 1 < MaxAttempts
  /\ Put(CurKey, RetryRecord(tried + 1))
  /\ Continue
  /\ UNCHANGED <<at, todo, stale, cancelled, history, faults>>

\* Quarantine is recorded before the move.
RecordQuarantine ==
  /\ pc = "failed"
  /\ ~cancelled
  /\ tried + 1 >= MaxAttempts
  /\ Put(CurKey, QuarantineRecord(tried + 1))
  /\ Goto("quarantine")
  /\ UNCHANGED <<at, botVars, cancelled, history, faults>>

\* Mutant of RecordFailureFails: the file is quarantined without its record.
MoveUnrecorded ==
  /\ pc = "failed"
  /\ ~cancelled
  /\ Fault("save")
  /\ Goto("quarantine")
  /\ UNCHANGED <<ledger, at, botVars, cancelled, history>>

\* The failed attempt cannot be saved: the next scan does not know of it.
RecordFailureFails ==
  /\ pc = "failed"
  /\ ~cancelled
  /\ Fault("save")
  /\ Continue
  /\ UNCHANGED <<ledger, at, todo, stale, cancelled, history>>

\* Mutant of RecordDelivered: the file is moved before its delivery is saved.
ArchiveFirst ==
  /\ pc = "record"
  /\ Goto("archive")
  /\ UNCHANGED <<ledger, at, botVars, cancelled, history, faults>>

RecordDelivered ==
  /\ pc = "record"
  /\ Put(CurKey, DeliveredRecord(tried + 1))
  /\ Goto("archive")
  /\ UNCHANGED <<at, botVars, cancelled, history, faults>>

\* The delivery cannot be saved: the file is archived all the same.
RecordDeliveredFails ==
  /\ pc = "record"
  /\ Fault("save")
  /\ LostOnce(CurKey)
  /\ Goto("archive")
  /\ UNCHANGED <<ledger, at, botVars, cancelled, sent, confirmed>>

-----------------------------------------------------------------------------
(* archiveMessage, as MaildirMove models it step by step *)

Destination == IF pc = "archive" THEN "archive" ELSE "failed"

MoveDone ==
  /\ pc \in Moving
  /\ cur \notin stale
  /\ at' = [at EXCEPT ![cur] = (@ \ {"inbox"}) \cup {Destination}]
  /\ Continue
  /\ UNCHANGED <<ledger, todo, stale, cancelled, history, faults>>

\* Nothing was moved, or a copy was made and the source stayed.
MoveFails ==
  /\ pc \in Moving
  /\ \/ cur \in stale /\ UNCHANGED <<at, faults>>
     \/ Fault("move") /\ UNCHANGED at
     \/ /\ cur \notin stale
        /\ Fault("move")
        /\ at' = [at EXCEPT ![cur] = @ \cup {Destination}]
  /\ Continue
  /\ UNCHANGED <<ledger, todo, stale, cancelled, history>>

-----------------------------------------------------------------------------
(* the environment *)

Arrive(f) ==
  /\ at[f] = {}
  /\ at' = [at EXCEPT ![f] = {"inbox"}]
  /\ UNCHANGED <<ledger, pc, botVars, cancelled, history, faults>>

\* A mail reader moves a scanned file from new to cur or changes its flags.
RenameFile(f) ==
  /\ f \in todo \cup {cur}
  /\ f \in File \ stale
  /\ Fault("rename")
  /\ stale' = stale \cup {f}
  /\ UNCHANGED <<ledger, at, pc, todo, cur, tried, cancelled, history>>

\* Someone moves a quarantined file back to the inbox.
PutBack(f) ==
  /\ at[f] = {"failed"}
  /\ Fault("putback")
  /\ at' = [at EXCEPT ![f] = {"inbox"}]
  /\ UNCHANGED <<ledger, pc, botVars, cancelled, history>>

\* SIGINT or SIGTERM.
Cancel ==
  /\ pc # "stopped"
  /\ ~cancelled
  /\ Fault("cancel")
  /\ cancelled' = TRUE
  /\ UNCHANGED <<ledger, at, pc, botVars, history>>

\* The process dies; the sender it started may still accept the reply.
Crash ==
  /\ pc # "stopped"
  /\ Fault("crash")
  /\ \/ pc \in InFlightAt /\ LostOnce(CurKey) /\ UNCHANGED sent
     \/ pc = "send" /\ SentOnce(CurKey) /\ LostOnce(CurKey)
     \/ pc \notin InFlightAt /\ UNCHANGED <<sent, lost>>
  /\ Goto("stopped")
  /\ todo' = {} /\ cur' = NoFile /\ stale' = {} /\ tried' = 0
  /\ cancelled' = FALSE
  /\ UNCHANGED <<ledger, at, confirmed>>

Tick ==
  /\ Age
  /\ UNCHANGED <<at, pc, botVars, cancelled, history, faults>>

-----------------------------------------------------------------------------
BeginCycle ==
  \/ Wake \/ ReceiveMail \/ ReceiveMailFails
  \/ OpenLedger \/ PruneCompleted \/ FindMessages \/ SetupFails

TakeNext ==
  \/ FinishScan
  \/ \E f \in File : Unidentified(f) \/ NotDue(f) \/ Resettle(f) \/ Attempt(f)

ProcessMessage ==
  \/ PipelineFails \/ SkipMessage \/ StartSender
  \/ SenderAccepts \/ SendRefused
  \/ SenderExits \/ SendConfirmed \/ SendUnconfirmed

RecordOutcome ==
  \/ GiveUpOnCancel \/ RecordRetry \/ RecordQuarantine \/ RecordFailureFails
  \/ RecordDelivered \/ RecordDeliveredFails

ArchiveMessage == MoveDone \/ MoveFails

BotStep ==
  BeginCycle \/ TakeNext \/ ProcessMessage \/ RecordOutcome \/ ArchiveMessage

Environment ==
  \/ \E f \in File : Arrive(f) \/ RenameFile(f) \/ PutBack(f)
  \/ Cancel \/ Crash \/ Tick

Next == StartProcess \/ BotStep \/ Environment

\* The process runs when it can, time passes, and whoever stopped the
\* process (or scheduled its single scan) starts it again.
Fairness ==
  /\ WF_vars(BotStep)
  /\ WF_vars(StartProcess)
  /\ WF_vars(Tick)

Spec == Init /\ [][Next]_vars
FairSpec == Spec /\ Fairness

-----------------------------------------------------------------------------
(* What the bot promises *)

\* runCycle only works on a message nobody has settled: while the pipeline
\* runs, and until its outcome is recorded, the stored record is the one read
\* when the message was picked, and it is absent or due for its next attempt.
WorkIsDue ==
  pc \in Working =>
    /\ Due(cur)
    /\ tried = ledger[CurKey].attempts

WithinLimit(r) ==
  /\ r.status = "none" <=> r.attempts = 0
  /\ r.status = "retry" => r.attempts < MaxAttempts
  /\ r.status = "delivered" => r.attempts <= MaxAttempts
  /\ r.status = "quarantined" => r.attempts = MaxAttempts

\* The attempt counter never passes its limit: below it while retries remain,
\* exactly at it in quarantine.
AttemptsBounded == \A k \in Key : WithinLimit(ledger[k])

\* A file in the Failed Maildir has a quarantine record, whatever crashed
\* between the two: if it comes back, it is not processed again.
FailedIsQuarantined ==
  \A f \in File :
    "failed" \in at[f] => ledger[KeyOf[f]].status = "quarantined"

\* Mail is archived only when policy skips it or the sender took a reply.
ArchivedIsAnswered ==
  \A f \in File :
    "archive" \in at[f] => f \in Skip \/ sent[KeyOf[f]] > 0

\* The exact account of replies: each one the sender accepted is in flight,
\* has a delivered record, or lost its record to a crash before the save, a
\* failed save, an unconfirmed exit or a prune.  So every duplicate is paid
\* for by one of these, and nothing else causes one: sent[k] <= lost[k] + 1.
InFlight(k) == pc \in InFlightAt /\ CurKey = k

RepliesExact ==
  \A k \in Key :
    sent[k] = lost[k]
      + (IF ledger[k].status = "delivered" \/ InFlight(k) THEN 1 ELSE 0)

\* A record moves one attempt at a time and only when it is due; quarantine is
\* final; a delivered record leaves only by expiring.
RecordMoves(old, new) ==
  \/ new = old
  \/ new = Aged(old)
  \/ /\ old.status = "none" \/ (old.status = "retry" /\ old.timer = 0)
     /\ new.status # "none"
     /\ new.attempts = old.attempts + 1
  \/ old.status = "delivered" /\ old.timer = 0 /\ new = NoRecord

RecordLifecycle ==
  [][\A k \in Key : RecordMoves(ledger[k], ledger'[k])]_ledger

\* Every readable message leaves the inbox in the end: answered, skipped or
\* quarantined, through retries, failed moves, restarts and stop signals.
Drained ==
  \A f \in File \ Unreadable :
    "inbox" \in at[f] ~> "inbox" \notin at[f]

\* The documented promise: a message whose sender has exited with success is
\* not answered again.
ConfirmedOnce == \A k \in Key : confirmed[k] <= 1

\* The promise MailCycle keeps, with each message's verdict read off its
\* ledger record and the reply in flight.
VerdictOf(k) ==
  IF ledger[k].status = "quarantined" THEN "abandoned"
  ELSE IF ledger[k].status = "delivered" \/ InFlight(k) THEN "answered"
  ELSE "open"

Promise == INSTANCE ReplyPromise
  WITH verdict <- [k \in Key |-> VerdictOf(k)], sent <- sent, lost <- lost

KeepsPromise == Promise!PromiseSpec
=============================================================================
