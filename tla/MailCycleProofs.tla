-------------------------- MODULE MailCycleProofs ---------------------------
(***************************************************************************)
(* Proofs about MailCycle, for every set of files, identities, faults and  *)
(* every limit: type correctness, the safety invariants, and that records  *)
(* only move along their lifecycle.                                        *)
(***************************************************************************)
EXTENDS MailCycle, TLAPS

USE DEF Idle, Working, Moving, InFlightAt, Place, Status

-----------------------------------------------------------------------------
(* The records the scan stores are records, and ageing keeps them so. *)

LEMMA RecordTypes ==
  /\ NoRecord \in Record
  /\ \A n \in 1..MaxAttempts : RetryRecord(n) \in Record
  /\ \A n \in Nat : DeliveredRecord(n) \in Record
  /\ \A n \in Nat : QuarantineRecord(n) \in Record
  /\ \A r \in Record : Aged(r) \in Record
BY StoreAssumption DEF Record, NoRecord, RetryRecord, DeliveredRecord,
       QuarantineRecord, Aged

-----------------------------------------------------------------------------
(* Type correctness. *)

LEMMA InitType ==
  ASSUME Init PROVE TypeOK
<1>1. ledger \in [Key -> Record]
  BY RecordTypes DEF Init, StoreInit
<1>2. cur = NoFile /\ cur \in File \cup {NoFile} /\ pc = "stopped"
  BY DEF Init
<1>3. pc \in Working \cup Moving <=> cur # NoFile
  BY <1>2
<1>4. QED
  BY <1>1, <1>2, <1>3 DEF Init, TypeOK

LEMMA BeginType ==
  ASSUME TypeOK, StartProcess \/ BeginCycle PROVE TypeOK'
<1>1. CASE StartProcess BY <1>1 DEF StartProcess, TypeOK, Goto, botVars, history
<1>2. CASE Wake BY <1>2 DEF Wake, TypeOK, Goto, botVars, history
<1>3. CASE ReceiveMail BY <1>3 DEF ReceiveMail, TypeOK, Goto, botVars, history
<1>4. CASE ReceiveMailFails
  BY <1>4 DEF ReceiveMailFails, TypeOK, EndCycle, Fault, history
<1>5. CASE OpenLedger BY <1>5 DEF OpenLedger, TypeOK, Goto, botVars, history
<1>6. CASE PruneCompleted
  BY <1>6 DEF PruneCompleted, Prune, Expired, NoRecord, Record, TypeOK, Goto, botVars
<1>7. CASE FindMessages BY <1>7 DEF FindMessages, TypeOK, Goto, history
<1>8. CASE SetupFails BY <1>8 DEF SetupFails, TypeOK, EndCycle, Fault, history
<1>9. QED
  BY <1>1, <1>2, <1>3, <1>4, <1>5, <1>6, <1>7, <1>8 DEF BeginCycle

LEMMA TakeNextType ==
  ASSUME TypeOK, TakeNext PROVE TypeOK'
<1>1. CASE FinishScan
  BY <1>1 DEF FinishScan, TypeOK, EndCycle, history
<1>2. ASSUME NEW f \in File, Unidentified(f) PROVE TypeOK'
  BY <1>2 DEF Unidentified, Pick, TypeOK, history
<1>3. ASSUME NEW f \in File, NotDue(f) PROVE TypeOK'
  BY <1>3 DEF NotDue, Pick, TypeOK, history
<1>4. ASSUME NEW f \in File, Resettle(f) PROVE TypeOK'
  BY <1>4, CycleAssumption DEF Resettle, Pick, TypeOK, Goto, history
<1>5. ASSUME NEW f \in File, Attempt(f) PROVE TypeOK'
  <2>1. ledger[KeyOf[f]].attempts \in Nat
    BY CycleAssumption DEF TypeOK, Record
  <2>2. QED
    BY <1>5, <2>1, CycleAssumption DEF Attempt, Pick, TypeOK, Goto, history
<1>6. QED
  BY <1>1, <1>2, <1>3, <1>4, <1>5 DEF TakeNext

\* The identity of the file being processed.
LEMMA CurKeyType ==
  ASSUME TypeOK, cur # NoFile
  PROVE  cur \in File /\ CurKey \in Key
BY CycleAssumption DEF TypeOK, CurKey

LEMMA ProcessType ==
  ASSUME TypeOK, ProcessMessage PROVE TypeOK'
<1>1. CASE PipelineFails
  BY <1>1 DEF PipelineFails, TypeOK, Goto, botVars, history
<1>2. CASE SkipMessage
  BY <1>2 DEF SkipMessage, TypeOK, Goto, botVars, history
<1>3. CASE StartSender
  BY <1>3 DEF StartSender, TypeOK, Goto, botVars, history
<1>4. CASE SenderAccepts
  BY <1>4, CurKeyType DEF SenderAccepts, TypeOK, Goto, botVars, SentOnce
<1>5. CASE SendRefused
  BY <1>5 DEF SendRefused, TypeOK, Goto, botVars, history
<1>6. CASE SenderExits
  BY <1>6, CurKeyType DEF SenderExits, TypeOK, Goto, botVars
<1>7. CASE SendConfirmed
  BY <1>7 DEF SendConfirmed, TypeOK, Goto, botVars, history
<1>8. CASE SendUnconfirmed
  BY <1>8, CurKeyType
  DEF SendUnconfirmed, TypeOK, Goto, botVars, LostOnce, Fault
<1>9. QED
  BY <1>1, <1>2, <1>3, <1>4, <1>5, <1>6, <1>7, <1>8 DEF ProcessMessage

LEMMA RecordOutcomeType ==
  ASSUME TypeOK, RecordOutcome PROVE TypeOK'
<1>1. CASE GiveUpOnCancel
  BY <1>1 DEF GiveUpOnCancel, TypeOK, EndCycle, history
<1>2. CASE RecordRetry
  <2>1. RetryRecord(tried + 1) \in Record
    BY <1>2, RecordTypes, StoreAssumption DEF RecordRetry, TypeOK
  <2>2. ledger' \in [Key -> Record]
    BY <1>2, <2>1 DEF RecordRetry, Put, TypeOK
  <2>3. QED
    BY <1>2, <2>2 DEF RecordRetry, TypeOK, Continue, history
<1>3. CASE RecordQuarantine
  <2>1. QuarantineRecord(tried + 1) \in Record
    BY RecordTypes DEF TypeOK
  <2>2. ledger' \in [Key -> Record]
    BY <1>3, <2>1 DEF RecordQuarantine, Put, TypeOK
  <2>3. QED
    BY <1>3, <2>2 DEF RecordQuarantine, TypeOK, Goto, botVars, history
<1>4. CASE RecordFailureFails
  BY <1>4 DEF RecordFailureFails, TypeOK, Continue, Fault, history
<1>5. CASE RecordDelivered
  <2>1. DeliveredRecord(tried + 1) \in Record
    BY RecordTypes DEF TypeOK
  <2>2. ledger' \in [Key -> Record]
    BY <1>5, <2>1 DEF RecordDelivered, Put, TypeOK
  <2>3. QED
    BY <1>5, <2>2 DEF RecordDelivered, TypeOK, Goto, botVars, history
<1>6. CASE RecordDeliveredFails
  BY <1>6, CurKeyType
  DEF RecordDeliveredFails, TypeOK, Goto, botVars, LostOnce, Fault
<1>7. QED
  BY <1>1, <1>2, <1>3, <1>4, <1>5, <1>6 DEF RecordOutcome

LEMMA ArchiveType ==
  ASSUME TypeOK, ArchiveMessage PROVE TypeOK'
<1>1. CASE MoveDone
  BY <1>1 DEF MoveDone, TypeOK, Continue, Destination, history
<1>2. CASE MoveFails
  BY <1>2 DEF MoveFails, TypeOK, Continue, Destination, Fault, history
<1>3. QED
  BY <1>1, <1>2 DEF ArchiveMessage

LEMMA EnvironmentType ==
  ASSUME TypeOK, Environment PROVE TypeOK'
<1>1. ASSUME NEW f \in File, Arrive(f) PROVE TypeOK'
  BY <1>1 DEF Arrive, TypeOK, botVars, history
<1>2. ASSUME NEW f \in File, RenameFile(f) PROVE TypeOK'
  BY <1>2 DEF RenameFile, TypeOK, Fault, history
<1>3. ASSUME NEW f \in File, PutBack(f) PROVE TypeOK'
  BY <1>3 DEF PutBack, TypeOK, Fault, botVars, history
<1>4. CASE Cancel
  BY <1>4 DEF Cancel, TypeOK, Fault, botVars, history
<1>5. CASE Crash
  <2>1. sent' \in [Key -> Nat] /\ lost' \in [Key -> Nat]
    <3>1. CASE pc \in InFlightAt /\ LostOnce(CurKey) /\ UNCHANGED sent
      BY <3>1, CurKeyType DEF TypeOK, LostOnce
    <3>2. CASE pc = "send" /\ SentOnce(CurKey) /\ LostOnce(CurKey)
      BY <3>2, CurKeyType DEF TypeOK, LostOnce, SentOnce
    <3>3. CASE pc \notin InFlightAt /\ UNCHANGED <<sent, lost>>
      BY <3>3 DEF TypeOK
    <3>4. QED
      BY <1>5, <3>1, <3>2, <3>3 DEF Crash
  <2>2. /\ faults' \in Nat /\ pc' = "stopped" /\ cancelled' = FALSE
        /\ todo' = {} /\ cur' = NoFile /\ stale' = {} /\ tried' = 0
        /\ UNCHANGED <<ledger, at, confirmed>>
    BY <1>5 DEF Crash, TypeOK, Fault, Goto
  <2>3. QED
    BY <2>1, <2>2 DEF TypeOK
<1>6. CASE Tick
  <2>1. ledger' \in [Key -> Record]
    BY <1>6, RecordTypes DEF Tick, Age, TypeOK
  <2>2. QED
    BY <1>6, <2>1 DEF Tick, TypeOK, botVars, history
<1>7. QED
  BY <1>1, <1>2, <1>3, <1>4, <1>5, <1>6 DEF Environment

LEMMA TypeStep == ASSUME TypeOK, [Next]_vars PROVE TypeOK'
<1>1. ASSUME UNCHANGED vars PROVE TypeOK'
  BY <1>1 DEF TypeOK, vars, botVars, history
<1>2. QED
  BY <1>1, BeginType, TakeNextType, ProcessType, RecordOutcomeType,
     ArchiveType, EnvironmentType DEF Next, BotStep

\* Every variable keeps its type, in every instance.
THEOREM TypeCorrect == Spec => []TypeOK
BY InitType, TypeStep, PTL DEF Spec

-----------------------------------------------------------------------------
(* The safety invariant.  The properties of MailCycle are not inductive: what *)
(* makes them so is the exact account of replies (each accepted reply has     *)
(* left a delivered record, is in flight, or is counted as lost), and why a   *)
(* file is being moved where it is.                                           *)

MoveJustified ==
  /\ pc = "archive" => cur \in Skip \/ sent[CurKey] > 0
  /\ pc = "quarantine" => ledger[CurKey].status = "quarantined"

IInv ==
  /\ TypeOK
  /\ WorkIsDue
  /\ AttemptsBounded
  /\ RepliesExact
  /\ MoveJustified
  /\ FailedIsQuarantined
  /\ ArchivedIsAnswered

LEMMA InitInv == ASSUME Init PROVE IInv
<1>1. TypeOK
  BY InitType
<1>2. AttemptsBounded /\ RepliesExact
  BY DEF Init, StoreInit, NoRecord, AttemptsBounded, WithinLimit, RepliesExact,
         InFlight
<1>3. WorkIsDue /\ MoveJustified /\ FailedIsQuarantined /\ ArchivedIsAnswered
  BY DEF Init, WorkIsDue, MoveJustified, FailedIsQuarantined, ArchivedIsAnswered
<1>4. QED
  BY <1>1, <1>2, <1>3 DEF IInv

\* A step outside the time a reply is in flight that leaves the records, the
\* files and the account of replies alone.
LEMMA QuietStep ==
  ASSUME IInv, UNCHANGED <<ledger, at, sent, lost>>,
         pc \notin InFlightAt, pc' \notin InFlightAt
  PROVE  /\ AttemptsBounded' /\ RepliesExact'
         /\ FailedIsQuarantined' /\ ArchivedIsAnswered'
<1>1. AttemptsBounded'
  BY DEF IInv, AttemptsBounded
<1>2. RepliesExact'
  BY DEF IInv, RepliesExact, InFlight
<1>3. FailedIsQuarantined' /\ ArchivedIsAnswered'
  BY DEF IInv, FailedIsQuarantined, ArchivedIsAnswered
<1>4. QED
  BY <1>1, <1>2, <1>3

\* A quiet step that leaves the process between messages or between cycles.
LEMMA QuietIdleStep ==
  ASSUME IInv, TypeOK', UNCHANGED <<ledger, at, sent, lost>>,
         pc \notin InFlightAt, pc' \in Idle
  PROVE  IInv'
<1>1. pc' \notin InFlightAt /\ pc' \notin Working /\ pc' \notin Moving
  OBVIOUS
<1>2. WorkIsDue' /\ MoveJustified'
  BY <1>1 DEF WorkIsDue, MoveJustified
<1>3. QED
  BY <1>1, <1>2, QuietStep DEF IInv

\* A quiet step on the message being processed.
LEMMA QuietWorkStep ==
  ASSUME IInv, TypeOK', UNCHANGED <<ledger, at, sent, lost, cur, tried>>,
         pc \in Working, pc \notin InFlightAt,
         pc' \in Working, pc' \notin InFlightAt
  PROVE  IInv'
<1>1. WorkIsDue'
  BY DEF IInv, WorkIsDue, Due, CurKey
<1>2. MoveJustified'
  BY DEF MoveJustified
<1>3. QED
  BY <1>1, <1>2, QuietStep DEF IInv

LEMMA BeginInv ==
  ASSUME IInv, TypeOK', StartProcess \/ BeginCycle PROVE IInv'
<1>1. CASE PruneCompleted
  <2>1. /\ pc = "prune" /\ pc' = "scan"
        /\ ledger' = [k \in Key |-> IF k \in Expired THEN NoRecord ELSE ledger[k]]
        /\ lost' = [k \in Key |-> IF k \in Expired THEN lost[k] + 1 ELSE lost[k]]
        /\ UNCHANGED <<at, sent>>
    BY <1>1 DEF PruneCompleted, Prune, Goto
  <2>2. AttemptsBounded'
    BY <2>1 DEF IInv, AttemptsBounded, WithinLimit, NoRecord
  <2>3. RepliesExact'
    <3>1. ASSUME NEW k \in Key
          PROVE  sent'[k] = lost'[k]
                   + (IF ledger'[k].status = "delivered" THEN 1 ELSE 0)
      <4>1. sent[k] = lost[k]
              + (IF ledger[k].status = "delivered" THEN 1 ELSE 0)
        BY <2>1 DEF IInv, RepliesExact, InFlight
      <4>2. lost[k] \in Nat
        BY DEF IInv, TypeOK
      <4>3. CASE k \in Expired
        BY <2>1, <4>1, <4>2, <4>3 DEF Expired, NoRecord
      <4>4. CASE k \notin Expired
        BY <2>1, <4>1, <4>4
      <4>5. QED
        BY <4>3, <4>4
    <3>2. QED
      BY <2>1, <3>1 DEF RepliesExact, InFlight
  <2>4. FailedIsQuarantined'
    BY <2>1, CycleAssumption DEF IInv, FailedIsQuarantined, Expired
  <2>5. ArchivedIsAnswered'
    BY <2>1 DEF IInv, ArchivedIsAnswered
  <2>6. WorkIsDue' /\ MoveJustified'
    BY <2>1 DEF WorkIsDue, MoveJustified
  <2>7. QED
    BY <2>2, <2>3, <2>4, <2>5, <2>6 DEF IInv
<1>2. CASE StartProcess
  BY <1>2, QuietIdleStep DEF StartProcess, Goto, history
<1>3. CASE Wake
  BY <1>3, QuietIdleStep DEF Wake, Goto, history
<1>4. CASE ReceiveMail
  BY <1>4, QuietIdleStep DEF ReceiveMail, Goto, history
<1>5. CASE ReceiveMailFails
  BY <1>5, QuietIdleStep DEF ReceiveMailFails, EndCycle, history
<1>6. CASE OpenLedger
  BY <1>6, QuietIdleStep DEF OpenLedger, Goto, history
<1>7. CASE FindMessages
  BY <1>7, QuietIdleStep DEF FindMessages, Goto, history
<1>8. CASE SetupFails
  BY <1>8, QuietIdleStep DEF SetupFails, EndCycle, history
<1>9. QED
  BY <1>1, <1>2, <1>3, <1>4, <1>5, <1>6, <1>7, <1>8 DEF BeginCycle

LEMMA TakeNextInv ==
  ASSUME IInv, TypeOK', TakeNext PROVE IInv'
<1>1. CASE FinishScan
  BY <1>1, QuietIdleStep DEF FinishScan, EndCycle, history
<1>2. ASSUME NEW f \in File, Unidentified(f) PROVE IInv'
  BY <1>2, QuietIdleStep DEF Unidentified, Pick, history
<1>3. ASSUME NEW f \in File, NotDue(f) PROVE IInv'
  BY <1>3, QuietIdleStep DEF NotDue, Pick, history
<1>4. ASSUME NEW f \in File, Resettle(f) PROVE IInv'
  <2>1. /\ pc = "next" /\ pc' \in Moving /\ cur' = f
        /\ UNCHANGED <<ledger, at, sent, lost>>
        /\ pc' = "archive" => ledger[KeyOf[f]].status = "delivered"
        /\ pc' = "quarantine" => ledger[KeyOf[f]].status = "quarantined"
    BY <1>4 DEF Resettle, Pick, Goto, history
  <2>2. pc' = "archive" => sent[KeyOf[f]] > 0
    <3>1. KeyOf[f] \in Key
      BY CycleAssumption
    <3>2. lost[KeyOf[f]] \in Nat
      BY <3>1 DEF IInv, TypeOK
    <3>3. QED
      BY <2>1, <3>1, <3>2 DEF IInv, RepliesExact
  <2>3. WorkIsDue' /\ MoveJustified'
    BY <2>1, <2>2 DEF WorkIsDue, MoveJustified, CurKey
  <2>4. QED
    BY <2>1, <2>3, QuietStep DEF IInv
<1>5. ASSUME NEW f \in File, Attempt(f) PROVE IInv'
  <2>1. /\ pc = "next" /\ pc' = "process" /\ cur' = f
        /\ tried' = ledger[KeyOf[f]].attempts
        /\ Due(f)
        /\ UNCHANGED <<ledger, at, sent, lost>>
    BY <1>5 DEF Attempt, Pick, Goto, history
  <2>2. WorkIsDue' /\ MoveJustified'
    BY <2>1 DEF WorkIsDue, MoveJustified, CurKey, Due
  <2>3. QED
    BY <2>1, <2>2, QuietStep DEF IInv
<1>6. QED
  BY <1>1, <1>2, <1>3, <1>4, <1>5 DEF TakeNext

LEMMA ProcessInv ==
  ASSUME IInv, TypeOK', ProcessMessage PROVE IInv'
<1>1. CASE PipelineFails
  BY <1>1, QuietWorkStep DEF PipelineFails, Goto, botVars, history
<1>2. CASE SkipMessage
  <2>1. /\ pc = "process" /\ pc' = "archive" /\ cur' \in Skip
        /\ UNCHANGED <<ledger, at, sent, lost>>
    BY <1>2 DEF SkipMessage, Goto, botVars, history
  <2>2. WorkIsDue' /\ MoveJustified'
    BY <2>1 DEF WorkIsDue, MoveJustified
  <2>3. QED
    BY <2>1, <2>2, QuietStep DEF IInv
<1>3. CASE StartSender
  BY <1>3, QuietWorkStep DEF StartSender, Goto, botVars, history
<1>4. CASE SendRefused
  BY <1>4, QuietWorkStep DEF SendRefused, Goto, botVars, history
\* The remaining steps keep the ledger and the files and stay at work.
<1>5. ASSUME UNCHANGED <<ledger, at, cur, tried>>, pc \in Working, pc' \in Working,
             RepliesExact', \A k \in Key : sent[k] <= sent'[k]
      PROVE  IInv'
  <2>1. AttemptsBounded' /\ FailedIsQuarantined' /\ MoveJustified'
    BY <1>5 DEF IInv, AttemptsBounded, FailedIsQuarantined, MoveJustified
  <2>2. WorkIsDue'
    BY <1>5 DEF IInv, WorkIsDue, Due, CurKey
  <2>3. ArchivedIsAnswered'
    <3>1. ASSUME NEW f \in File, "archive" \in at[f], f \notin Skip
          PROVE  sent'[KeyOf[f]] > 0
      <4>1. KeyOf[f] \in Key /\ sent[KeyOf[f]] > 0
        BY <3>1, CycleAssumption DEF IInv, ArchivedIsAnswered
      <4>2. sent[KeyOf[f]] \in Nat /\ sent'[KeyOf[f]] \in Nat
        BY <4>1 DEF IInv, TypeOK
      <4>3. QED
        BY <4>1, <4>2, <1>5
    <3>2. QED
      BY <3>1, <1>5 DEF ArchivedIsAnswered
  <2>4. QED
    BY <1>5, <2>1, <2>2, <2>3 DEF IInv
<1>6. CASE SenderAccepts
  <2>1. /\ pc = "send" /\ pc' = "accepted" /\ CurKey' = CurKey
        /\ sent' = [sent EXCEPT ![CurKey] = @ + 1]
        /\ UNCHANGED <<ledger, at, cur, tried, lost>>
    BY <1>6 DEF SenderAccepts, Goto, botVars, SentOnce, CurKey
  <2>2. CurKey \in Key /\ ledger[CurKey].status # "delivered"
    BY <2>1, CurKeyType DEF IInv, WorkIsDue, Due, CurKey, TypeOK
  <2>3. RepliesExact'
    <3>1. ASSUME NEW k \in Key
          PROVE  sent'[k] = lost[k]
            + (IF ledger[k].status = "delivered" \/ CurKey = k THEN 1 ELSE 0)
      <4>1. sent[k] = lost[k]
              + (IF ledger[k].status = "delivered" THEN 1 ELSE 0)
        BY <2>1 DEF IInv, RepliesExact, InFlight
      <4>2. sent[k] \in Nat /\ lost[k] \in Nat
        BY DEF IInv, TypeOK
      <4>3. CASE k = CurKey
        BY <2>1, <2>2, <4>1, <4>2, <4>3 DEF IInv, TypeOK
      <4>4. CASE k # CurKey
        BY <2>1, <4>1, <4>4 DEF IInv, TypeOK
      <4>5. QED
        BY <4>3, <4>4
    <3>2. QED
      BY <2>1, <3>1 DEF RepliesExact, InFlight
  <2>4. \A k \in Key : sent[k] <= sent'[k]
    BY <2>1 DEF IInv, TypeOK
  <2>5. QED
    BY <1>5, <2>1, <2>3, <2>4
<1>7. CASE SenderExits \/ SendConfirmed
  <2>1. /\ pc \in InFlightAt /\ pc' \in InFlightAt
        /\ UNCHANGED <<ledger, at, cur, tried, sent, lost>>
    BY <1>7 DEF SenderExits, SendConfirmed, Goto, botVars, history
  <2>2. RepliesExact' /\ \A k \in Key : sent[k] <= sent'[k]
    BY <2>1 DEF IInv, TypeOK, RepliesExact, InFlight, CurKey
  <2>3. QED
    BY <1>5, <2>1, <2>2
<1>8. CASE SendUnconfirmed
  <2>1. /\ pc \in {"accepted", "exited"} /\ pc' = "failed"
        /\ lost' = [lost EXCEPT ![CurKey] = @ + 1]
        /\ UNCHANGED <<ledger, at, cur, tried, sent>>
    BY <1>8 DEF SendUnconfirmed, Goto, botVars, LostOnce
  <2>2. CurKey \in Key /\ ledger[CurKey].status # "delivered"
    BY <2>1, CurKeyType DEF IInv, WorkIsDue, Due, CurKey, TypeOK
  <2>3. RepliesExact'
    <3>1. ASSUME NEW k \in Key
          PROVE  sent[k] = lost'[k]
            + (IF ledger[k].status = "delivered" THEN 1 ELSE 0)
      <4>1. sent[k] = lost[k]
              + (IF ledger[k].status = "delivered" \/ CurKey = k THEN 1 ELSE 0)
        BY <2>1 DEF IInv, RepliesExact, InFlight
      <4>2. sent[k] \in Nat /\ lost[k] \in Nat
        BY DEF IInv, TypeOK
      <4>3. CASE k = CurKey
        BY <2>1, <2>2, <4>1, <4>2, <4>3 DEF IInv, TypeOK
      <4>4. CASE k # CurKey
        BY <2>1, <4>1, <4>4 DEF IInv, TypeOK
      <4>5. QED
        BY <4>3, <4>4
    <3>2. QED
      BY <2>1, <3>1 DEF RepliesExact, InFlight
  <2>4. \A k \in Key : sent[k] <= sent'[k]
    BY <2>1 DEF IInv, TypeOK
  <2>5. QED
    BY <1>5, <2>1, <2>3, <2>4
<1>9. QED
  BY <1>1, <1>2, <1>3, <1>4, <1>6, <1>7, <1>8 DEF ProcessMessage

\* Storing the outcome of an attempt replaces the record read when the message
\* was picked, which nobody has settled: no other record and no file moves.
LEMMA PutStep ==
  ASSUME IInv, TypeOK', pc \in Working,
         NEW r \in Record, Put(CurKey, r), r.status # "none",
         r.attempts = tried + 1,
         UNCHANGED <<at, sent, lost>>
  PROVE  /\ CurKey \in Key
         /\ ledger'[CurKey] = r
         /\ \A k \in Key : k # CurKey => ledger'[k] = ledger[k]
         /\ Due(cur) /\ tried = ledger[CurKey].attempts /\ tried < MaxAttempts
         /\ WithinLimit(r) => AttemptsBounded'
         /\ FailedIsQuarantined' /\ ArchivedIsAnswered'
<1>1. CurKey \in Key /\ cur \in File
  BY CurKeyType DEF IInv, TypeOK
<1>2. /\ ledger'[CurKey] = r
      /\ \A k \in Key : k # CurKey => ledger'[k] = ledger[k]
  BY <1>1 DEF IInv, TypeOK, Put
<1>3. Due(cur) /\ tried = ledger[CurKey].attempts
  BY DEF IInv, WorkIsDue
<1>4. tried < MaxAttempts
  <2>1. CASE ledger[CurKey].status = "none"
    BY <1>1, <1>3, <2>1, StoreAssumption
    DEF IInv, AttemptsBounded, WithinLimit
  <2>2. CASE ledger[CurKey].status = "retry"
    BY <1>1, <1>3, <2>2 DEF IInv, AttemptsBounded, WithinLimit
  <2>3. QED
    BY <1>3, <2>1, <2>2 DEF Due, CurKey
<1>5. FailedIsQuarantined'
  <2>1. ledger[CurKey].status # "quarantined"
    BY <1>3 DEF Due, CurKey
  <2>2. ASSUME NEW f \in File, "failed" \in at[f]
        PROVE  ledger'[KeyOf[f]].status = "quarantined"
    BY <1>2, <2>1, <2>2, CycleAssumption DEF IInv, FailedIsQuarantined
  <2>3. QED
    BY <2>2 DEF FailedIsQuarantined
<1>6. ArchivedIsAnswered'
  BY DEF IInv, ArchivedIsAnswered
<1>7. WithinLimit(r) => AttemptsBounded'
  BY <1>2 DEF IInv, AttemptsBounded
<1>8. QED
  BY <1>1, <1>2, <1>3, <1>4, <1>5, <1>6, <1>7

LEMMA RecordOutcomeInv ==
  ASSUME IInv, TypeOK', RecordOutcome PROVE IInv'
<1>1. CASE GiveUpOnCancel
  BY <1>1, QuietIdleStep DEF GiveUpOnCancel, EndCycle, history
<1>2. CASE RecordFailureFails
  BY <1>2, QuietIdleStep DEF RecordFailureFails, Continue, history
<1>3. CASE RecordRetry
  <2> DEFINE r == RetryRecord(tried + 1)
  <2>1. /\ pc = "failed" /\ pc' = "next" /\ tried + 1 < MaxAttempts
        /\ Put(CurKey, r) /\ UNCHANGED <<at, sent, lost>>
    BY <1>3 DEF RecordRetry, Continue, history
  <2>2. r \in Record /\ r.status = "retry" /\ r.attempts = tried + 1
    BY <2>1, RecordTypes, StoreAssumption DEF RetryRecord, IInv, TypeOK
  <2> HIDE DEF r
  <2>3. /\ CurKey \in Key /\ ledger'[CurKey] = r
        /\ \A k \in Key : k # CurKey => ledger'[k] = ledger[k]
        /\ ledger[CurKey].status # "delivered"
        /\ WithinLimit(r) => AttemptsBounded'
        /\ FailedIsQuarantined' /\ ArchivedIsAnswered'
    BY <2>1, <2>2, PutStep DEF Due, CurKey
  <2>4. AttemptsBounded'
    BY <2>1, <2>2, <2>3, StoreAssumption DEF IInv, TypeOK, WithinLimit
  <2>5. RepliesExact'
    BY <2>1, <2>2, <2>3 DEF IInv, RepliesExact, InFlight
  <2>6. WorkIsDue' /\ MoveJustified'
    BY <2>1 DEF WorkIsDue, MoveJustified
  <2>7. QED
    BY <2>3, <2>4, <2>5, <2>6 DEF IInv
<1>4. CASE RecordQuarantine
  <2> DEFINE r == QuarantineRecord(tried + 1)
  <2>1. /\ pc = "failed" /\ pc' = "quarantine" /\ tried + 1 >= MaxAttempts
        /\ Put(CurKey, r) /\ UNCHANGED <<at, sent, lost, cur>>
    BY <1>4 DEF RecordQuarantine, Goto, botVars, history
  <2>2. r \in Record /\ r.status = "quarantined" /\ r.attempts = tried + 1
    BY <2>1, RecordTypes DEF QuarantineRecord, IInv, TypeOK
  <2> HIDE DEF r
  <2>3. /\ CurKey \in Key /\ ledger'[CurKey] = r /\ tried < MaxAttempts
        /\ \A k \in Key : k # CurKey => ledger'[k] = ledger[k]
        /\ ledger[CurKey].status # "delivered"
        /\ WithinLimit(r) => AttemptsBounded'
        /\ FailedIsQuarantined' /\ ArchivedIsAnswered'
    BY <2>1, <2>2, PutStep DEF Due, CurKey
  <2>4. AttemptsBounded'
    BY <2>1, <2>2, <2>3, StoreAssumption DEF IInv, TypeOK, WithinLimit
  <2>5. RepliesExact'
    BY <2>1, <2>2, <2>3 DEF IInv, RepliesExact, InFlight
  <2>6. WorkIsDue' /\ MoveJustified'
    BY <2>1, <2>2, <2>3 DEF WorkIsDue, MoveJustified, CurKey
  <2>7. QED
    BY <2>3, <2>4, <2>5, <2>6 DEF IInv
<1>5. CASE RecordDelivered
  <2> DEFINE r == DeliveredRecord(tried + 1)
  <2>1. /\ pc = "record" /\ pc' = "archive"
        /\ Put(CurKey, r) /\ UNCHANGED <<at, sent, lost, cur>>
    BY <1>5 DEF RecordDelivered, Goto, botVars, history
  <2>2. r \in Record /\ r.status = "delivered" /\ r.attempts = tried + 1
    BY <2>1, RecordTypes DEF DeliveredRecord, IInv, TypeOK
  <2> HIDE DEF r
  <2>3. /\ CurKey \in Key /\ ledger'[CurKey] = r /\ tried < MaxAttempts
        /\ \A k \in Key : k # CurKey => ledger'[k] = ledger[k]
        /\ WithinLimit(r) => AttemptsBounded'
        /\ FailedIsQuarantined' /\ ArchivedIsAnswered'
    BY <2>1, <2>2, PutStep
  <2>4. AttemptsBounded'
    BY <2>1, <2>2, <2>3, StoreAssumption DEF IInv, TypeOK, WithinLimit
  <2>5. RepliesExact'
    BY <2>1, <2>2, <2>3 DEF IInv, RepliesExact, InFlight
  <2>6. sent[CurKey] > 0
    BY <2>1, <2>3 DEF IInv, RepliesExact, InFlight, TypeOK
  <2>7. WorkIsDue' /\ MoveJustified'
    BY <2>1, <2>6 DEF WorkIsDue, MoveJustified, CurKey
  <2>8. QED
    BY <2>3, <2>4, <2>5, <2>7 DEF IInv
<1>6. CASE RecordDeliveredFails
  <2>1. /\ pc = "record" /\ pc' = "archive"
        /\ lost' = [lost EXCEPT ![CurKey] = @ + 1]
        /\ UNCHANGED <<ledger, at, sent, cur>>
    BY <1>6 DEF RecordDeliveredFails, Goto, botVars, LostOnce
  <2>2. CurKey \in Key /\ ledger[CurKey].status # "delivered"
    BY <2>1, CurKeyType DEF IInv, WorkIsDue, Due, CurKey, TypeOK
  <2>3. RepliesExact'
    <3>1. ASSUME NEW k \in Key
          PROVE  sent[k] = lost'[k]
            + (IF ledger[k].status = "delivered" THEN 1 ELSE 0)
      <4>1. sent[k] = lost[k]
              + (IF ledger[k].status = "delivered" \/ CurKey = k THEN 1 ELSE 0)
        BY <2>1 DEF IInv, RepliesExact, InFlight
      <4>2. sent[k] \in Nat /\ lost[k] \in Nat
        BY DEF IInv, TypeOK
      <4>3. CASE k = CurKey
        BY <2>1, <2>2, <4>1, <4>2, <4>3 DEF IInv, TypeOK
      <4>4. CASE k # CurKey
        BY <2>1, <4>1, <4>4 DEF IInv, TypeOK
      <4>5. QED
        BY <4>3, <4>4
    <3>2. QED
      BY <2>1, <3>1 DEF RepliesExact, InFlight
  <2>4. sent[CurKey] > 0
    BY <2>1, <2>2 DEF IInv, RepliesExact, InFlight, TypeOK
  <2>5. WorkIsDue' /\ MoveJustified'
    BY <2>1, <2>4 DEF WorkIsDue, MoveJustified, CurKey
  <2>6. AttemptsBounded' /\ FailedIsQuarantined' /\ ArchivedIsAnswered'
    BY <2>1 DEF IInv, AttemptsBounded, FailedIsQuarantined, ArchivedIsAnswered
  <2>7. QED
    BY <2>3, <2>5, <2>6 DEF IInv
<1>7. QED
  BY <1>1, <1>2, <1>3, <1>4, <1>5, <1>6 DEF RecordOutcome

LEMMA ArchiveInv ==
  ASSUME IInv, TypeOK', ArchiveMessage PROVE IInv'
<1>1. /\ pc \in Moving /\ pc' = "next"
      /\ UNCHANGED <<ledger, sent, lost>>
  BY DEF ArchiveMessage, MoveDone, MoveFails, Continue, history
<1>2. /\ cur \in File
      /\ \A f \in File : f # cur => at'[f] = at[f]
      /\ at'[cur] \subseteq at[cur] \cup {Destination}
  BY <1>1 DEF ArchiveMessage, MoveDone, MoveFails, IInv, TypeOK
<1>3. AttemptsBounded' /\ RepliesExact'
  BY <1>1 DEF IInv, AttemptsBounded, RepliesExact, InFlight
<1>4. FailedIsQuarantined'
  <2>1. "failed" \in at'[cur] => ledger[CurKey].status = "quarantined"
    BY <1>1, <1>2
    DEF IInv, FailedIsQuarantined, MoveJustified, Destination, CurKey
  <2>2. QED
    BY <1>1, <1>2, <2>1 DEF IInv, FailedIsQuarantined, CurKey
<1>5. ArchivedIsAnswered'
  <2>1. "archive" \in at'[cur] => cur \in Skip \/ sent[CurKey] > 0
    BY <1>1, <1>2
    DEF IInv, ArchivedIsAnswered, MoveJustified, Destination, CurKey
  <2>2. QED
    BY <1>1, <1>2, <2>1 DEF IInv, ArchivedIsAnswered, CurKey
<1>6. WorkIsDue' /\ MoveJustified'
  BY <1>1 DEF WorkIsDue, MoveJustified
<1>7. QED
  BY <1>3, <1>4, <1>5, <1>6 DEF IInv

\* Ageing changes no status and no attempt count, and leaves due work due.
LEMMA AgeStep ==
  ASSUME TypeOK, Age, NEW k \in Key
  PROVE  /\ ledger'[k] = Aged(ledger[k])
         /\ ledger'[k].status = ledger[k].status
         /\ ledger'[k].attempts = ledger[k].attempts
         /\ ledger[k].timer = 0 => ledger'[k].timer = 0
BY DEF TypeOK, Age, Aged, Record

LEMMA EnvironmentInv ==
  ASSUME IInv, TypeOK', Environment PROVE IInv'
<1>1. ASSUME NEW f \in File, Arrive(f) \/ PutBack(f) PROVE IInv'
  <2>1. /\ UNCHANGED <<ledger, pc, cur, tried, sent, lost>>
        /\ at' = [at EXCEPT ![f] = {"inbox"}]
    BY <1>1 DEF Arrive, PutBack, botVars, history
  <2>2. FailedIsQuarantined' /\ ArchivedIsAnswered'
    BY <2>1 DEF IInv, TypeOK, FailedIsQuarantined, ArchivedIsAnswered
  <2>3. AttemptsBounded' /\ RepliesExact'
    BY <2>1 DEF IInv, AttemptsBounded, RepliesExact, InFlight, CurKey
  <2>4. WorkIsDue' /\ MoveJustified'
    BY <2>1 DEF IInv, WorkIsDue, MoveJustified, Due, CurKey
  <2>5. QED
    BY <2>2, <2>3, <2>4 DEF IInv
<1>2. ASSUME Cancel \/ \E f \in File : RenameFile(f) PROVE IInv'
  <2>1. UNCHANGED <<ledger, at, pc, cur, tried, sent, lost>>
    BY <1>2 DEF Cancel, RenameFile, botVars, history
  <2>2. /\ FailedIsQuarantined' /\ ArchivedIsAnswered'
        /\ AttemptsBounded' /\ RepliesExact'
    BY <2>1
    DEF IInv, FailedIsQuarantined, ArchivedIsAnswered, AttemptsBounded,
        RepliesExact, InFlight, CurKey
  <2>3. WorkIsDue' /\ MoveJustified'
    BY <2>1 DEF IInv, WorkIsDue, MoveJustified, Due, CurKey
  <2>4. QED
    BY <2>2, <2>3 DEF IInv
<1>3. CASE Crash
  <2>1. pc' = "stopped" /\ UNCHANGED <<ledger, at>>
    BY <1>3 DEF Crash, Goto
  <2>2. RepliesExact' /\ \A k \in Key : sent[k] <= sent'[k]
    <3>1. CASE pc \in InFlightAt /\ LostOnce(CurKey) /\ UNCHANGED sent
      <4>1. CurKey \in Key /\ ledger[CurKey].status # "delivered"
        BY <3>1, CurKeyType DEF IInv, WorkIsDue, Due, CurKey, TypeOK
      <4>2. ASSUME NEW k \in Key
            PROVE  /\ sent[k] \in Nat
                   /\ sent[k] = lost'[k]
                        + (IF ledger[k].status = "delivered" THEN 1 ELSE 0)
        BY <3>1, <4>1 DEF IInv, TypeOK, RepliesExact, InFlight, LostOnce
      <4>3. QED
        BY <2>1, <3>1, <4>2 DEF RepliesExact, InFlight
    <3>2. CASE pc = "send" /\ SentOnce(CurKey) /\ LostOnce(CurKey)
      <4>1. CurKey \in Key
        BY <3>2, CurKeyType DEF IInv, TypeOK
      <4>2. ASSUME NEW k \in Key
            PROVE  /\ sent[k] <= sent'[k]
                   /\ sent'[k] = lost'[k]
                        + (IF ledger[k].status = "delivered" THEN 1 ELSE 0)
        <5>1. /\ sent[k] \in Nat /\ lost[k] \in Nat
              /\ sent[k] = lost[k]
                   + (IF ledger[k].status = "delivered" THEN 1 ELSE 0)
          BY <3>2 DEF IInv, TypeOK, RepliesExact, InFlight
        <5>2. /\ sent'[k] = IF k = CurKey THEN sent[k] + 1 ELSE sent[k]
              /\ lost'[k] = IF k = CurKey THEN lost[k] + 1 ELSE lost[k]
          BY <3>2, <4>1 DEF IInv, TypeOK, SentOnce, LostOnce
        <5>3. QED
          BY <5>1, <5>2
      <4>3. QED
        BY <2>1, <4>2 DEF RepliesExact, InFlight
    <3>3. CASE pc \notin InFlightAt /\ UNCHANGED <<sent, lost>>
      BY <2>1, <3>3 DEF IInv, TypeOK, RepliesExact, InFlight
    <3>4. QED
      BY <1>3, <3>1, <3>2, <3>3 DEF Crash
  <2>3. AttemptsBounded' /\ FailedIsQuarantined'
    BY <2>1 DEF IInv, AttemptsBounded, FailedIsQuarantined
  <2>4. ArchivedIsAnswered'
    <3>1. ASSUME NEW f \in File, "archive" \in at[f], f \notin Skip
          PROVE  sent'[KeyOf[f]] > 0
      <4>1. KeyOf[f] \in Key /\ sent[KeyOf[f]] > 0
        BY <3>1, CycleAssumption DEF IInv, ArchivedIsAnswered
      <4>2. sent[KeyOf[f]] \in Nat /\ sent'[KeyOf[f]] \in Nat
        BY <4>1 DEF IInv, TypeOK
      <4>3. QED
        BY <4>1, <4>2, <2>2
    <3>2. QED
      BY <3>1, <2>1 DEF ArchivedIsAnswered
  <2>5. WorkIsDue' /\ MoveJustified'
    BY <2>1 DEF WorkIsDue, MoveJustified
  <2>6. QED
    BY <2>2, <2>3, <2>4, <2>5 DEF IInv
<1>4. CASE Tick
  <2>1. Age /\ UNCHANGED <<at, pc, cur, tried, sent, lost>>
    BY <1>4 DEF Tick, botVars, history
  <2>2. \A k \in Key :
          /\ ledger'[k].status = ledger[k].status
          /\ ledger'[k].attempts = ledger[k].attempts
          /\ ledger[k].timer = 0 => ledger'[k].timer = 0
    BY <2>1, AgeStep DEF IInv
  <2>3. AttemptsBounded' /\ RepliesExact'
    BY <2>1, <2>2
    DEF IInv, AttemptsBounded, WithinLimit, RepliesExact, InFlight, CurKey
  <2>4. FailedIsQuarantined' /\ ArchivedIsAnswered'
    BY <2>1, <2>2, CycleAssumption
    DEF IInv, FailedIsQuarantined, ArchivedIsAnswered
  <2>5. WorkIsDue'
    <3>1. ASSUME pc \in Working PROVE Due(cur)' /\ tried = ledger'[CurKey].attempts
      BY <2>1, <2>2, <3>1, CurKeyType DEF IInv, TypeOK, WorkIsDue, Due, CurKey
    <3>2. QED
      BY <2>1, <3>1 DEF WorkIsDue, CurKey
  <2>6. MoveJustified'
    BY <2>1, <2>2, CurKeyType DEF IInv, TypeOK, MoveJustified, CurKey
  <2>7. QED
    BY <2>3, <2>4, <2>5, <2>6 DEF IInv
<1>5. QED
  BY <1>1, <1>2, <1>3, <1>4 DEF Environment

LEMMA StepInv == ASSUME IInv, [Next]_vars PROVE IInv'
<1>1. TypeOK'
  BY TypeStep DEF IInv
<1>2. ASSUME UNCHANGED vars PROVE IInv'
  BY <1>1, <1>2
  DEF vars, botVars, history, IInv, WorkIsDue, Due, AttemptsBounded,
      RepliesExact, InFlight, MoveJustified, FailedIsQuarantined,
      ArchivedIsAnswered, CurKey
<1>3. QED
  BY <1>1, <1>2, BeginInv, TakeNextInv, ProcessInv, RecordOutcomeInv,
     ArchiveInv, EnvironmentInv DEF Next, BotStep

LEMMA Invariance == Spec => []IInv
BY InitInv, StepInv, PTL DEF Spec

\* While a message is worked on, its stored record is the one that was read,
\* and it is absent or due.
THEOREM WorkIsDueAlways == Spec => []WorkIsDue
<1>1. IInv => WorkIsDue
  BY DEF IInv
<1>2. QED
  BY <1>1, Invariance, PTL

\* The attempt counter respects its limit.
THEOREM AttemptsBoundedAlways == Spec => []AttemptsBounded
<1>1. IInv => AttemptsBounded
  BY DEF IInv
<1>2. QED
  BY <1>1, Invariance, PTL

\* Files in Failed have a quarantine record.
THEOREM PlacesJustified == Spec => []FailedIsQuarantined
<1>1. IInv => FailedIsQuarantined
  BY DEF IInv
<1>2. QED
  BY <1>1, Invariance, PTL

\* Archived files were answered or skipped.
THEOREM ArchivedIsAnsweredAlways == Spec => []ArchivedIsAnswered
<1>1. IInv => ArchivedIsAnswered
  BY DEF IInv
<1>2. QED
  BY <1>1, Invariance, PTL

\* The account of replies is exact, so a message is answered at most once more
\* often than an answer of its lost its record.
THEOREM RepliesExactAlways ==
  Spec => [](RepliesExact /\ \A k \in Key : sent[k] <= lost[k] + 1)
<1>1. ASSUME IInv PROVE \A k \in Key : sent[k] <= lost[k] + 1
  <2>1. ASSUME NEW k \in Key PROVE sent[k] <= lost[k] + 1
    <3>1. /\ lost[k] \in Nat
          /\ sent[k] = lost[k] + 1 \/ sent[k] = lost[k] + 0
      BY <1>1 DEF IInv, TypeOK, RepliesExact
    <3>2. QED
      BY <3>1
  <2>2. QED
    BY <2>1
<1>2. IInv => RepliesExact /\ \A k \in Key : sent[k] <= lost[k] + 1
  BY <1>1 DEF IInv
<1>3. QED
  BY <1>2, Invariance, PTL

-----------------------------------------------------------------------------
(* The lifecycle of a record. *)

LEMMA LifecycleStep ==
  ASSUME IInv, [Next]_vars
  PROVE  UNCHANGED ledger \/ \A k \in Key : RecordMoves(ledger[k], ledger'[k])
<1>1. CASE PruneCompleted
  BY <1>1 DEF PruneCompleted, Prune, Expired, RecordMoves
<1>2. CASE RecordRetry \/ RecordQuarantine \/ RecordDelivered
  <2>1. PICK r \in Record : /\ pc \in Working /\ Put(CurKey, r)
                            /\ r.status # "none" /\ r.attempts = tried + 1
    <3>1. CASE RecordRetry
      <4>1. /\ RetryRecord(tried + 1) \in Record
            /\ RetryRecord(tried + 1).status = "retry"
            /\ RetryRecord(tried + 1).attempts = tried + 1
        BY <3>1, RecordTypes, StoreAssumption
        DEF RecordRetry, RetryRecord, IInv, TypeOK
      <4>2. QED
        BY <3>1, <4>1 DEF RecordRetry
    <3>2. CASE RecordQuarantine
      <4>1. /\ QuarantineRecord(tried + 1) \in Record
            /\ QuarantineRecord(tried + 1).status = "quarantined"
            /\ QuarantineRecord(tried + 1).attempts = tried + 1
        BY RecordTypes DEF QuarantineRecord, IInv, TypeOK
      <4>2. QED
        BY <3>2, <4>1 DEF RecordQuarantine
    <3>3. CASE RecordDelivered
      <4>1. /\ DeliveredRecord(tried + 1) \in Record
            /\ DeliveredRecord(tried + 1).status = "delivered"
            /\ DeliveredRecord(tried + 1).attempts = tried + 1
        BY RecordTypes DEF DeliveredRecord, IInv, TypeOK
      <4>2. QED
        BY <3>3, <4>1 DEF RecordDelivered
    <3>4. QED
      BY <1>2, <3>1, <3>2, <3>3
  <2>2. Due(cur) /\ tried = ledger[CurKey].attempts /\ CurKey \in Key
    BY <2>1, CurKeyType DEF IInv, WorkIsDue, TypeOK
  <2>3. ASSUME NEW k \in Key PROVE RecordMoves(ledger[k], ledger'[k])
    <3>1. CASE k = CurKey
      <4>1. ledger'[k] = r
        BY <2>1, <2>2, <3>1 DEF Put, IInv, TypeOK
      <4>2. QED
        BY <2>1, <2>2, <3>1, <4>1 DEF RecordMoves, Due, CurKey
    <3>2. CASE k # CurKey
      BY <2>1, <3>2 DEF Put, IInv, TypeOK, RecordMoves
    <3>3. QED
      BY <3>1, <3>2
  <2>4. QED
    BY <2>3
<1>3. CASE Tick
  BY <1>3, AgeStep DEF Tick, RecordMoves, IInv
<1>4. CASE UNCHANGED vars
  BY <1>4 DEF vars
<1>5. CASE StartProcess \/ (BeginCycle /\ ~PruneCompleted)
  BY <1>5
  DEF BeginCycle, StartProcess, Wake, ReceiveMail, ReceiveMailFails, OpenLedger,
      FindMessages, SetupFails
<1>6. CASE TakeNext
  BY <1>6 DEF TakeNext, FinishScan, Unidentified, NotDue, Resettle, Attempt
<1>7. CASE ProcessMessage
  BY <1>7
  DEF ProcessMessage, PipelineFails, SkipMessage, StartSender, SenderAccepts,
      SendRefused, SenderExits, SendConfirmed, SendUnconfirmed
<1>8. CASE GiveUpOnCancel \/ RecordFailureFails \/ RecordDeliveredFails
  BY <1>8 DEF GiveUpOnCancel, RecordFailureFails, RecordDeliveredFails
<1>9. CASE ArchiveMessage
  BY <1>9 DEF ArchiveMessage, MoveDone, MoveFails
<1>10. CASE Environment /\ ~Tick
  BY <1>10 DEF Environment, Arrive, RenameFile, PutBack, Cancel, Crash
<1>11. QED
  BY <1>1, <1>2, <1>3, <1>4, <1>5, <1>6, <1>7, <1>8, <1>9, <1>10
  DEF Next, BotStep, BeginCycle, RecordOutcome

\* Records move one attempt at a time, only when due; quarantine is final and
\* a delivered record only expires.
THEOREM RecordLifecycleHolds == Spec => RecordLifecycle
<1>1. IInv /\ [Next]_vars
        => [\A k \in Key : RecordMoves(ledger[k], ledger'[k])]_ledger
  BY LifecycleStep
<1>2. QED
  BY <1>1, Invariance, PTL DEF Spec, RecordLifecycle

-----------------------------------------------------------------------------
(* MailCycle keeps the reply promise: each step that moves a verdict or a    *)
(* count is one step of ReplyPromise, and every other step changes neither.  *)

verdictMap == [k \in Key |-> VerdictOf(k)]

\* A step that changes no record's status and neither enters nor leaves the
\* time a reply is in flight changes no verdict.
LEMMA SameVerdict ==
  ASSUME \A k \in Key : ledger'[k].status = ledger[k].status,
         \A k \in Key : InFlight(k)' <=> InFlight(k)
  PROVE  verdictMap' = verdictMap
BY DEF verdictMap, VerdictOf

LEMMA SameFlight ==
  ASSUME \/ pc \notin InFlightAt /\ pc' \notin InFlightAt
         \/ pc \in InFlightAt /\ pc' \in InFlightAt /\ cur' = cur
  PROVE  \A k \in Key : InFlight(k)' <=> InFlight(k)
BY DEF InFlight, CurKey

LEMMA StutterStep ==
  ASSUME UNCHANGED <<ledger, sent, lost>>,
         \/ pc \notin InFlightAt /\ pc' \notin InFlightAt
         \/ pc \in InFlightAt /\ pc' \in InFlightAt /\ cur' = cur
  PROVE  UNCHANGED <<verdictMap, sent, lost>>
BY SameVerdict, SameFlight

\* Losing the reply in flight is forgetting one answer.
LEMMA ForgetInFlight ==
  ASSUME IInv, pc \in InFlightAt, pc' \notin InFlightAt, LostOnce(CurKey),
         UNCHANGED <<ledger, sent>>
  PROVE  Promise!Forget({CurKey})
<1>1. CurKey \in Key /\ ledger[CurKey].status \notin {"delivered", "quarantined"}
  BY CurKeyType DEF IInv, WorkIsDue, Due, CurKey, TypeOK
<1>2. VerdictOf(CurKey) = "answered"
  BY <1>1 DEF VerdictOf, InFlight
<1>3. ASSUME NEW k \in Key
      PROVE  VerdictOf(k)' = IF k \in {CurKey} THEN "open" ELSE VerdictOf(k)
  BY <1>1 DEF VerdictOf, InFlight
<1>4. lost' = [k \in Key |-> IF k \in {CurKey} THEN lost[k] + 1 ELSE lost[k]]
  BY <1>1 DEF LostOnce, IInv, TypeOK
<1>5. QED
  BY <1>1, <1>2, <1>3, <1>4 DEF Promise!Forget

LEMMA AnswerInSend ==
  ASSUME IInv, pc = "send", SentOnce(CurKey), UNCHANGED ledger
  PROVE  /\ pc' = "accepted" /\ cur' = cur /\ UNCHANGED lost
              => Promise!Answer(CurKey)
         /\ pc' = "stopped" /\ LostOnce(CurKey)
              => Promise!AnswerUnseen(CurKey)
         /\ CurKey \in Key
<1>1. CurKey \in Key /\ ledger[CurKey].status \notin {"delivered", "quarantined"}
  BY CurKeyType DEF IInv, WorkIsDue, Due, CurKey, TypeOK
<1>2. VerdictOf(CurKey) = "open"
  BY <1>1 DEF VerdictOf, InFlight
<1>3. ASSUME pc' = "accepted", cur' = cur, UNCHANGED lost
      PROVE  Promise!Answer(CurKey)
  <2>1. ASSUME NEW k \in Key
        PROVE  VerdictOf(k)' = IF k = CurKey THEN "answered" ELSE VerdictOf(k)
    BY <1>1, <1>3 DEF VerdictOf, InFlight, CurKey
  <2>2. QED
    BY <1>1, <1>2, <1>3, <2>1 DEF Promise!Answer, SentOnce
<1>4. ASSUME pc' = "stopped", LostOnce(CurKey)
      PROVE  Promise!AnswerUnseen(CurKey)
  <2>1. ASSUME NEW k \in Key PROVE VerdictOf(k)' = VerdictOf(k)
    BY <1>4 DEF VerdictOf, InFlight
  <2>2. QED
    BY <1>1, <1>2, <1>4, <2>1 DEF Promise!AnswerUnseen, SentOnce, LostOnce
<1>5. QED
  BY <1>1, <1>3, <1>4

LEMMA PromiseInitMap == ASSUME Init PROVE Promise!PromiseInit
BY DEF Init, StoreInit, NoRecord, VerdictOf, InFlight, Promise!PromiseInit

LEMMA PromiseStep ==
  ASSUME IInv, TypeOK', [Next]_vars
  PROVE  Promise!PromiseNext \/ UNCHANGED <<verdictMap, sent, lost>>
<1>1. CASE UNCHANGED vars
  BY <1>1, StutterStep DEF vars, botVars, history
<1>2. CASE PruneCompleted
  <2>1. /\ ledger' = [k \in Key |-> IF k \in Expired THEN NoRecord ELSE ledger[k]]
        /\ lost' = [k \in Key |-> IF k \in Expired THEN lost[k] + 1 ELSE lost[k]]
        /\ UNCHANGED sent /\ pc = "prune" /\ pc' = "scan"
    BY <1>2 DEF PruneCompleted, Prune, Goto
  <2>2. ASSUME NEW k \in Key
        PROVE  /\ k \in Expired => VerdictOf(k) = "answered"
               /\ VerdictOf(k)' = IF k \in Expired THEN "open" ELSE VerdictOf(k)
    BY <2>1 DEF VerdictOf, InFlight, Expired, NoRecord
  <2>3. CASE Expired = {}
    <3>1. UNCHANGED <<ledger, lost>>
      BY <2>1, <2>3 DEF IInv, TypeOK
    <3>2. QED
      BY <2>1, <3>1, StutterStep
  <2>4. CASE Expired # {}
    <3>1. Expired \in SUBSET Key /\ Promise!Forget(Expired)
      BY <2>1, <2>2, <2>4 DEF Promise!Forget, Expired
    <3>2. QED
      BY <3>1 DEF Promise!PromiseNext
  <2>5. QED
    BY <2>3, <2>4
<1>3. CASE StartProcess \/ (BeginCycle /\ ~PruneCompleted)
  BY <1>3, StutterStep
  DEF BeginCycle, StartProcess, Wake, ReceiveMail, ReceiveMailFails, OpenLedger,
      FindMessages, SetupFails, Goto, EndCycle, history
<1>4. CASE TakeNext
  BY <1>4, StutterStep
  DEF TakeNext, FinishScan, Unidentified, NotDue, Resettle, Attempt, Pick, Goto,
      EndCycle, history
<1>5. CASE PipelineFails \/ SkipMessage \/ StartSender \/ SendRefused
  BY <1>5, StutterStep
  DEF PipelineFails, SkipMessage, StartSender, SendRefused, Goto, history
<1>6. CASE SenderExits \/ SendConfirmed
  BY <1>6, StutterStep
  DEF SenderExits, SendConfirmed, Goto, botVars, history
<1>7. CASE SenderAccepts
  BY <1>7, AnswerInSend
  DEF SenderAccepts, Goto, botVars, Promise!PromiseNext
<1>8. CASE SendUnconfirmed \/ RecordDeliveredFails
  <2>1. CurKey \in Key /\ Promise!Forget({CurKey})
    BY <1>8, ForgetInFlight, CurKeyType
    DEF SendUnconfirmed, RecordDeliveredFails, Goto, IInv, TypeOK
  <2>2. QED
    BY <2>1 DEF Promise!PromiseNext
<1>9. CASE GiveUpOnCancel \/ RecordFailureFails
  BY <1>9, StutterStep
  DEF GiveUpOnCancel, RecordFailureFails, EndCycle, Continue, history
<1>10. CASE RecordRetry \/ RecordDelivered
  <2>1. CurKey \in Key /\ ledger[CurKey].status \notin {"delivered", "quarantined"}
    BY <1>10, CurKeyType
    DEF RecordRetry, RecordDelivered, IInv, WorkIsDue, Due, CurKey, TypeOK
  <2>2. UNCHANGED <<sent, lost>>
    BY <1>10 DEF RecordRetry, RecordDelivered, history
  <2>3. ASSUME NEW k \in Key PROVE VerdictOf(k)' = VerdictOf(k)
    <3>1. CASE RecordRetry
      BY <2>1, <3>1
      DEF RecordRetry, Put, RetryRecord, Continue, VerdictOf, InFlight, IInv, TypeOK
    <3>2. CASE RecordDelivered
      BY <2>1, <3>2
      DEF RecordDelivered, Put, DeliveredRecord, Goto, VerdictOf, InFlight, IInv,
          TypeOK
    <3>3. QED
      BY <1>10, <3>1, <3>2
  <2>4. QED
    BY <2>2, <2>3 DEF verdictMap
<1>11. CASE RecordQuarantine
  <2>1. CurKey \in Key /\ ledger[CurKey].status \notin {"delivered", "quarantined"}
    BY <1>11, CurKeyType DEF RecordQuarantine, IInv, WorkIsDue, Due, CurKey, TypeOK
  <2>2. ASSUME NEW k \in Key
        PROVE  VerdictOf(k)' = IF k = CurKey THEN "abandoned" ELSE VerdictOf(k)
    BY <1>11, <2>1
    DEF RecordQuarantine, Put, QuarantineRecord, Goto, VerdictOf, InFlight, IInv,
        TypeOK
  <2>3. VerdictOf(CurKey) = "open" /\ UNCHANGED <<sent, lost>>
    BY <1>11, <2>1 DEF RecordQuarantine, VerdictOf, InFlight, history
  <2>4. Promise!Abandon(CurKey)
    BY <2>1, <2>2, <2>3 DEF Promise!Abandon
  <2>5. QED
    BY <2>1, <2>4 DEF Promise!PromiseNext
<1>12. CASE ArchiveMessage
  BY <1>12, StutterStep
  DEF ArchiveMessage, MoveDone, MoveFails, Continue, history
<1>13. CASE Cancel \/ \E f \in File : Arrive(f) \/ RenameFile(f) \/ PutBack(f)
  BY <1>13, StutterStep
  DEF Cancel, Arrive, RenameFile, PutBack, botVars, history
<1>14. CASE Tick
  <2>1. UNCHANGED <<pc, cur, sent, lost>> /\ Age
    BY <1>14 DEF Tick, botVars, history
  <2>2. \A k \in Key : InFlight(k)' <=> InFlight(k)
    BY <2>1 DEF InFlight, CurKey
  <2>3. QED
    BY <2>1, <2>2, AgeStep, SameVerdict DEF IInv
<1>15. CASE Crash
  <2>1. pc' = "stopped" /\ UNCHANGED ledger
    BY <1>15 DEF Crash, Goto
  <2>2. CASE pc \in InFlightAt /\ LostOnce(CurKey) /\ UNCHANGED sent
    BY <2>1, <2>2, ForgetInFlight, CurKeyType
    DEF Promise!PromiseNext, IInv, TypeOK
  <2>3. CASE pc = "send" /\ SentOnce(CurKey) /\ LostOnce(CurKey)
    BY <2>1, <2>3, AnswerInSend DEF Promise!PromiseNext
  <2>4. CASE pc \notin InFlightAt /\ UNCHANGED <<sent, lost>>
    BY <2>1, <2>4, StutterStep
  <2>5. QED
    BY <1>15, <2>2, <2>3, <2>4 DEF Crash
<1>16. QED
  BY <1>1, <1>2, <1>3, <1>4, <1>5, <1>6, <1>7, <1>8, <1>9, <1>10, <1>11, <1>12,
     <1>13, <1>14, <1>15
  DEF Next, BotStep, BeginCycle, ProcessMessage, RecordOutcome, Environment

\* The bot implements the abstract promise about replies.
THEOREM KeepsPromiseAlways == Spec => KeepsPromise
<1>1. IInv /\ IInv' /\ [Next]_vars
        => [Promise!PromiseNext]_(Promise!promiseVars)
  BY PromiseStep DEF IInv, Promise!promiseVars, verdictMap
<1>2. QED
  BY <1>1, PromiseInitMap, Invariance, PTL
  DEF Spec, KeepsPromise, Promise!PromiseSpec
=============================================================================
