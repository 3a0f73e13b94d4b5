-------------------------- MODULE DeliveryLedger ----------------------------
(***************************************************************************)
(* The delivery ledger step by step: state.json, the temporary file that   *)
(* replaces it, the map in memory and its rollback.  Any system call may   *)
(* fail, the process may die between any two of them, and the power may go *)
(* with data or the rename not yet on the disk.  Implements LedgerStore.   *)
(***************************************************************************)
EXTENDS Naturals

CONSTANTS
  Key, MaxAttempts, Delay, Retention,
  MaxFaults           \* bound: failed calls and crashes per behaviour

\* The constants of LedgerStore as it assumes them; there is some message.
ASSUME LedgerAssumption ==
  /\ Key # {}
  /\ MaxAttempts \in Nat \ {0}
  /\ Delay \in [1..MaxAttempts -> Nat \ {0}]
  /\ Retention \in Nat \ {0}
  /\ MaxFaults \in Nat

VARIABLES
  visible,            \* what reading state.json returns
  survives,           \* what it may hold after a power loss
  tmp,                \* the temporary file of a running save
  mem,                \* l.data.Messages, while a cycle has the ledger open
  prev,               \* the map to restore if the running save fails
  op,                 \* the step the ledger is at
  acked,              \* history: the map whose save last reported success
  weak,               \* history: a rename no directory sync has followed
  faults

vars == <<visible, survives, tmp, mem, prev, op, acked, weak, faults>>

\* The map a reader of the file gets; an absent file opens as an empty map.
Store == INSTANCE LedgerStore WITH ledger <- visible

Empty == [k \in Key |-> Store!NoRecord]
Torn == [k \in {} |-> Store!NoRecord]     \* a partial or empty document
Map == [Key -> Store!Record]

Saving == {"create", "encode", "sync", "close", "rename", "dirsync"}

TypeOK ==
  /\ visible \in Map \cup {Torn}
  /\ survives \subseteq Map \cup {Torn}
  /\ tmp \in {"none", "empty", "written", "synced"}
  /\ mem \in Map
  /\ prev \in Map
  /\ op \in {"closed", "open", "off"} \cup Saving
  /\ acked \in Map
  /\ weak \in BOOLEAN
  /\ faults \in 0..MaxFaults

Init ==
  /\ visible = Empty /\ survives = {Empty}
  /\ tmp = "none" /\ mem = Empty /\ prev = Empty
  /\ op = "closed"
  /\ acked = Empty /\ weak = FALSE
  /\ faults = 0

Fault ==
  /\ faults < MaxFaults
  /\ faults' = faults + 1

-----------------------------------------------------------------------------
(* openDeliveryLedger, and the end of the cycle that opened it *)

Open ==
  /\ op = "closed"
  /\ visible # Torn              \* decoding or validating it is an error
  /\ mem' = visible
  /\ acked' = visible
  /\ op' = "open"
  /\ UNCHANGED <<visible, survives, tmp, prev, weak, faults>>

Close ==
  /\ op = "open"
  /\ mem' = Empty
  /\ op' = "closed"
  /\ UNCHANGED <<visible, survives, tmp, prev, acked, weak, faults>>

\* put changes the map in memory and starts to save it.
StartPut(k, r) ==
  /\ op = "open"
  /\ mem' = [mem EXCEPT ![k] = r]
  /\ prev' = mem
  /\ op' = "create"
  /\ UNCHANGED <<visible, survives, tmp, acked, weak, faults>>

\* Mutant of Removed: quarantine records are pruned too.
RemovedSettled ==
  {k \in Key : mem[k].status \in {"delivered", "quarantined"} /\ mem[k].timer = 0}

Removed ==
  {k \in Key : mem[k].status = "delivered" /\ mem[k].timer = 0}

StartPrune ==
  /\ op = "open"
  /\ Removed # {}
  /\ mem' = [k \in Key |-> IF k \in Removed THEN Store!NoRecord ELSE mem[k]]
  /\ prev' = mem
  /\ op' = "create"
  /\ UNCHANGED <<visible, survives, tmp, acked, weak, faults>>

-----------------------------------------------------------------------------
(* save *)

\* One call of save succeeds and leaves the temporary file in state t.
SaveStep(from, to, t) ==
  /\ op = from
  /\ op' = to
  /\ tmp' = t
  /\ UNCHANGED <<visible, survives, mem, prev, acked, weak, faults>>

CreateTemp == SaveStep("create", "encode", "empty")
\* Mutant of Encode: the temporary file is closed without a sync.
EncodeUnsynced == SaveStep("encode", "close", "written")

Encode == SaveStep("encode", "sync", "written")
Sync == SaveStep("sync", "close", "synced")
CloseTemp == SaveStep("close", "rename", tmp)

\* What the temporary file holds, now and after a power loss.
TempHolds == IF tmp \in {"written", "synced"} THEN mem ELSE Torn
TempKeeps == IF tmp = "synced" THEN mem ELSE Torn

Rename ==
  /\ op = "rename"
  /\ visible' = TempHolds
  /\ survives' = survives \cup {TempKeeps}
  /\ tmp' = "none"
  /\ weak' = TRUE
  /\ op' = "dirsync"
  /\ UNCHANGED <<mem, prev, acked, faults>>

\* Mutant of SyncDirectory: the directory was synced before the rename.
SyncTooEarly ==
  /\ op = "dirsync"
  /\ weak' = FALSE
  /\ acked' = mem
  /\ op' = "open"
  /\ UNCHANGED <<visible, survives, tmp, mem, prev, faults>>

\* The directory sync is best effort: save reports success either way.
SyncDirectory ==
  /\ op = "dirsync"
  /\ \/ survives' = {visible} /\ weak' = FALSE /\ UNCHANGED faults
     \/ Fault /\ UNCHANGED <<survives, weak>>
  /\ acked' = mem
  /\ op' = "open"
  /\ UNCHANGED <<visible, tmp, mem, prev>>

\* Mutant of SaveFails: the map is not restored.
SaveFailsDirty ==
  /\ op \in Saving \ {"dirsync"}
  /\ Fault
  /\ tmp' = "none"
  /\ op' = "open"
  /\ UNCHANGED <<visible, survives, mem, prev, acked, weak>>

\* A call before the rename takes effect fails: the temporary file is removed
\* and put or pruneCompleted restores the map.
SaveFails ==
  /\ op \in Saving \ {"dirsync"}
  /\ Fault
  /\ tmp' = "none"
  /\ mem' = prev
  /\ op' = "open"
  /\ UNCHANGED <<visible, survives, prev, acked, weak>>

-----------------------------------------------------------------------------
(* the environment *)

\* The process dies; a temporary file it leaves is never read again.
Crash ==
  /\ op \in {"open"} \cup Saving
  /\ Fault
  /\ tmp' = "none" /\ mem' = Empty /\ prev' = Empty
  /\ op' = "closed"
  /\ UNCHANGED <<visible, survives, acked, weak>>

\* The machine stops; the next start finds one of the survivors.
PowerLoss ==
  /\ op # "off"
  /\ op' = "off"
  /\ UNCHANGED <<visible, survives, tmp, mem, prev, acked, weak, faults>>

AgeMap(m) == [k \in DOMAIN m |-> Store!Aged(m[k])]

Tick ==
  /\ op # "off"
  /\ visible' = AgeMap(visible)
  /\ survives' = {AgeMap(m) : m \in survives}
  /\ mem' = AgeMap(mem)
  /\ prev' = AgeMap(prev)
  /\ acked' = AgeMap(acked)
  /\ UNCHANGED <<tmp, op, weak, faults>>

Save == CreateTemp \/ Encode \/ Sync \/ CloseTemp \/ Rename \/ SyncDirectory

Next ==
  \/ Open \/ Close
  \/ \E k \in Key, r \in Store!Fresh : StartPut(k, r)
  \/ StartPrune
  \/ Save \/ SaveFails
  \/ Crash \/ PowerLoss \/ Tick

Spec == Init /\ [][Next]_vars

-----------------------------------------------------------------------------
\* Whoever opens state.json, after a crash or a power loss at any step, finds a
\* complete document: the old map or the new one.
NeverTorn == visible # Torn /\ Torn \notin survives

\* While no save runs, memory, state.json and the last acknowledged map are the
\* same, whatever saves have failed: decisions agree with what a restart reads.
MemoryAgrees == op = "open" => mem = visible /\ visible = acked

\* An acknowledged map survives a power loss unless the directory
\* sync after its rename failed or a crash cut it off.
AckedSurvives == op = "open" /\ ~weak => survives = {acked}

\* The ledger the rest of the bot relies on.
ImplementsStore == Store!StoreSpec
=============================================================================
