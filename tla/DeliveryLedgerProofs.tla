------------------------ MODULE DeliveryLedgerProofs -------------------------
(* Proofs about DeliveryLedger, for any messages, limits, delays and faults. *)
EXTENDS DeliveryLedger, TLAPS

BeforeRename == Saving \ {"dirsync"}

\* What put or pruneCompleted made of the map that is on the disk.
Replaces ==
  \/ \E k \in Key, r \in Store!Storable : mem = [visible EXCEPT ![k] = r]
  \/ \E K \in SUBSET Store!Expired :
       mem = [k \in Key |-> IF k \in K THEN Store!NoRecord ELSE visible[k]]

\* The file and all that may be left of it are complete documents.
Whole == visible \in Map /\ survives \subseteq Map

\* What memory, disk and history say of each other at each step of a save.
Agrees ==
  /\ op = "open" => mem = visible /\ acked = visible
  /\ op \in BeforeRename => prev = visible /\ acked = visible /\ Replaces
  /\ op \in {"close", "rename"} => tmp = "synced"
  /\ op = "dirsync" => mem = visible /\ weak
  /\ ~weak => survives = {visible}

IInv == TypeOK /\ Whole /\ Agrees

-----------------------------------------------------------------------------
(* the maps *)

LEMMA FreshType == Store!Fresh \subseteq Store!Record
BY LedgerAssumption
DEF Store!Fresh, Store!Record, Store!Status, Store!RetryRecord,
    Store!DeliveredRecord, Store!QuarantineRecord

LEMMA NoRecordType == Store!NoRecord \in Store!Record
BY DEF Store!NoRecord, Store!Record, Store!Status

LEMMA EmptyIsMap == Empty \in Map
BY NoRecordType DEF Empty, Map

\* A partial document is no map of records, since there is some message.
LEMMA TornIsNoMap == Torn \notin Map
BY LedgerAssumption DEF Torn, Map

\* A record that ages keeps its type, and its status; one no time is left of
\* stays the same.
LEMMA AgedType ==
  ASSUME NEW r \in Store!Record
  PROVE  /\ Store!Aged(r) \in Store!Record
         /\ Store!Aged(r).status = r.status
         /\ r.timer = 0 => Store!Aged(r) = r
BY DEF Store!Aged, Store!Record

\* A fresh record is still one that may be stored when time has passed.
LEMMA AgedStorable ==
  ASSUME NEW r \in Store!Storable
  PROVE  Store!Aged(r) \in Store!Storable
<1>1. PICK f \in Store!Fresh : r \in {[f EXCEPT !.timer = t] : t \in 0..f.timer}
  BY DEF Store!Storable
<1>2. PICK t \in 0..f.timer : r = [f EXCEPT !.timer = t]
  BY <1>1
<1>3. f \in Store!Record
  BY FreshType
<1>4. \E u \in 0..f.timer : Store!Aged(r) = [f EXCEPT !.timer = u]
  <2>1. r.timer = t /\ t \in Nat
    BY <1>2, <1>3 DEF Store!Record
  <2>2. Store!Aged(r) = [f EXCEPT !.timer = IF t > 0 THEN t - 1 ELSE 0]
    BY <1>2, <1>3, <2>1, Zenon DEF Store!Aged
  <2>3. (IF t > 0 THEN t - 1 ELSE 0) \in 0..f.timer
    BY <1>3, <2>1 DEF Store!Record
  <2>4. QED
    BY <2>2, <2>3
<1>5. QED
  BY <1>4 DEF Store!Storable

LEMMA FreshStorable == Store!Fresh \subseteq Store!Storable
<1>1. SUFFICES ASSUME NEW f \in Store!Fresh PROVE f \in Store!Storable
  OBVIOUS
<1>2. f \in Store!Record
  BY FreshType
<1>3. f = [f EXCEPT !.timer = f.timer] /\ f.timer \in 0..f.timer
  BY <1>2 DEF Store!Record
<1>4. f \in {[f EXCEPT !.timer = t] : t \in 0..f.timer}
  BY <1>3
<1>5. QED
  BY <1>4 DEF Store!Storable

LEMMA AgeMapType ==
  ASSUME NEW m \in Map
  PROVE  /\ AgeMap(m) \in Map
         /\ AgeMap(m) = [k \in Key |-> Store!Aged(m[k])]
BY AgedType DEF AgeMap, Map

\* Time passing over a map that is about to replace the one on the disk, and
\* over that one, leaves them in the same relation.
LEMMA ReplacesAges ==
  ASSUME visible \in Map, mem \in Map, Replaces,
         visible' = AgeMap(visible), mem' = AgeMap(mem)
  PROVE  Replaces'
<1>1. CASE \E k \in Key, r \in Store!Storable : mem = [visible EXCEPT ![k] = r]
  <2>1. PICK k \in Key, r \in Store!Storable : mem = [visible EXCEPT ![k] = r]
    BY <1>1
  <2>2. /\ mem' = [j \in Key |-> Store!Aged(mem[j])]
        /\ visible' = [j \in Key |-> Store!Aged(visible[j])]
    BY AgeMapType
  <2>3. mem[k] = r /\ \A j \in Key \ {k} : mem[j] = visible[j]
    BY <2>1 DEF Map
  <2>4. mem' = [visible' EXCEPT ![k] = Store!Aged(r)]
    BY <2>2, <2>3
  <2>5. QED
    BY <2>4, AgedStorable DEF Replaces
<1>2. CASE \E K \in SUBSET Store!Expired :
             mem = [k \in Key |-> IF k \in K THEN Store!NoRecord ELSE visible[k]]
  <2>1. PICK K \in SUBSET Store!Expired :
               mem = [k \in Key |-> IF k \in K THEN Store!NoRecord ELSE visible[k]]
    BY <1>2
  <2>2. Store!Aged(Store!NoRecord) = Store!NoRecord
    BY DEF Store!Aged, Store!NoRecord
  <2>3. mem' = [k \in Key |-> IF k \in K THEN Store!NoRecord ELSE visible'[k]]
    BY <2>1, <2>2, AgeMapType
  <2>4. K \subseteq Store!Expired'
    <3>1. ASSUME NEW k \in K PROVE k \in Key /\ visible'[k] = visible[k]
      BY <2>1, AgeMapType, AgedType DEF Store!Expired, Map
    <3>2. QED
      BY <2>1, <3>1 DEF Store!Expired
  <2>5. QED
    BY <2>3, <2>4 DEF Replaces
<1>3. QED
  BY <1>1, <1>2 DEF Replaces

-----------------------------------------------------------------------------
(* the invariant *)

LEMMA InitInv == ASSUME Init PROVE IInv
<1>1. TypeOK
  <2>1. faults \in 0..MaxFaults
    <3>1. faults = 0
      BY DEF Init
    <3>2. QED
      BY <3>1, LedgerAssumption
  <2>2. op \in {"closed", "open", "off"} \cup Saving
    BY DEF Init
  <2>3. survives \subseteq Map \cup {Torn}
    BY EmptyIsMap DEF Init
  <2>4. QED
    BY EmptyIsMap, <2>1, <2>2, <2>3 DEF Init, TypeOK
<1>2. Whole
  BY EmptyIsMap DEF Init, Whole
<1>3. Agrees
  BY DEF Init, Agrees, Saving, BeforeRename
<1>4. QED
  BY <1>1, <1>2, <1>3 DEF IInv

LEMMA OpenInv == ASSUME IInv, Open \/ Close PROVE IInv'
<1> USE DEF IInv, TypeOK, Whole, Agrees, Saving, BeforeRename
<1>1. CASE Open
  BY <1>1 DEF Open
<1>2. CASE Close
  BY <1>2, EmptyIsMap DEF Close
<1>3. QED
  BY <1>1, <1>2

LEMMA PutInv ==
  ASSUME IInv, NEW k \in Key, NEW r \in Store!Fresh, StartPut(k, r)
  PROVE  IInv'
<1>1. mem' \in Map /\ mem' = [visible' EXCEPT ![k] = r]
  BY FreshType DEF StartPut, IInv, TypeOK, Agrees, Map
<1>2. Replaces'
  BY <1>1, FreshStorable DEF Replaces
<1>3. QED
  BY <1>1, <1>2
  DEF StartPut, IInv, TypeOK, Whole, Agrees, Saving, BeforeRename

LEMMA PruneInv == ASSUME IInv, StartPrune PROVE IInv'
<1>1. Removed = Store!Expired /\ visible' = visible
  BY DEF StartPrune, IInv, Agrees, Removed, Store!Expired
<1>2. /\ mem' \in Map
      /\ mem' = [k \in Key |-> IF k \in Removed THEN Store!NoRecord ELSE visible'[k]]
  BY NoRecordType DEF StartPrune, IInv, TypeOK, Agrees, Map
<1>3. Removed \in SUBSET Store!Expired'
  BY <1>1 DEF Store!Expired
<1>4. Replaces'
  BY <1>2, <1>3 DEF Replaces
<1>5. QED
  BY <1>2, <1>4
  DEF StartPrune, IInv, TypeOK, Whole, Agrees, Saving, BeforeRename

LEMMA SaveInv == ASSUME IInv, Save PROVE IInv'
<1> USE DEF IInv, TypeOK, Whole, Agrees, Saving, BeforeRename
<1>1. CASE CreateTemp \/ Encode \/ Sync \/ CloseTemp
  <2>1. /\ UNCHANGED <<visible, survives, mem, prev, acked, weak, faults>>
        /\ op \in BeforeRename /\ op' \in BeforeRename
    BY <1>1 DEF CreateTemp, Encode, Sync, CloseTemp, SaveStep
  <2>2. Replaces'
    BY <2>1 DEF Replaces, Store!Expired
  <2>3. QED
    BY <1>1, <2>1, <2>2 DEF CreateTemp, Encode, Sync, CloseTemp, SaveStep
<1>2. CASE Rename
  BY <1>2 DEF Rename, TempHolds, TempKeeps
<1>3. CASE SyncDirectory
  <2>1. faults' \in 0..MaxFaults
    <3>1. faults' = faults \/ (faults < MaxFaults /\ faults' = faults + 1)
      BY <1>3, Zenon DEF SyncDirectory, Fault
    <3>2. QED
      BY <3>1, LedgerAssumption
  <2>2. survives' \subseteq Map /\ (~weak' => survives' = {visible'})
    BY <1>3 DEF SyncDirectory
  <2>3. weak' \in BOOLEAN
    BY <1>3 DEF SyncDirectory
  <2>4. QED
    BY <1>3, <2>1, <2>2, <2>3 DEF SyncDirectory
<1>4. QED
  BY <1>1, <1>2, <1>3 DEF Save

LEMMA FailInv == ASSUME IInv, SaveFails \/ Crash \/ PowerLoss PROVE IInv'
<1> USE LedgerAssumption DEF IInv, TypeOK, Whole, Agrees, Saving, BeforeRename
<1>1. CASE SaveFails
  BY <1>1 DEF SaveFails, Fault
<1>2. CASE Crash
  BY <1>2, EmptyIsMap DEF Crash, Fault
<1>3. CASE PowerLoss
  BY <1>3 DEF PowerLoss
<1>4. QED
  BY <1>1, <1>2, <1>3

LEMMA TickInv == ASSUME IInv, Tick PROVE IInv'
<1>1. /\ visible' \in Map /\ mem' \in Map /\ prev' \in Map /\ acked' \in Map
      /\ survives' \subseteq Map
  BY AgeMapType DEF Tick, IInv, TypeOK, Whole
<1>2. op \in BeforeRename => Replaces'
  BY ReplacesAges DEF Tick, IInv, TypeOK, Whole, Agrees
<1>3. QED
  BY <1>1, <1>2
  DEF Tick, IInv, TypeOK, Whole, Agrees, Saving, BeforeRename

LEMMA StutterInv == ASSUME IInv, UNCHANGED vars PROVE IInv'
<1>1. Replaces => Replaces'
  BY DEF vars, Replaces, Store!Expired
<1>2. QED
  BY <1>1 DEF vars, IInv, TypeOK, Whole, Agrees

LEMMA Invariance == Spec => []IInv
<1>1. ASSUME IInv, [Next]_vars PROVE IInv'
  BY <1>1, OpenInv, PutInv, PruneInv, SaveInv, FailInv, TickInv, StutterInv
  DEF Next
<1>2. QED
  BY <1>1, InitInv, PTL DEF Spec

\* The variables of the ledger keep their types, for any maps and faults.
THEOREM LedgerTypeCorrect == Spec => []TypeOK
<1>1. IInv => TypeOK
  BY DEF IInv
<1>2. QED
  BY <1>1, Invariance, PTL

\* At every step of a save, and after a power loss at any of them, state.json is
\* a complete document.
THEOREM NeverTornAlways == Spec => []NeverTorn
<1>1. IInv => NeverTorn
  BY TornIsNoMap DEF IInv, Whole, NeverTorn
<1>2. QED
  BY <1>1, Invariance, PTL

\* Between saves, failed ones included, the bot decides on what a restart would
\* read.
THEOREM MemoryAgreesAlways == Spec => []MemoryAgrees
<1>1. IInv => MemoryAgrees
  BY DEF IInv, Agrees, MemoryAgrees
<1>2. QED
  BY <1>1, Invariance, PTL

\* A map whose save reported success outlasts a power loss unless the directory
\* sync after its rename did not take place.
THEOREM AckedSurvivesAlways == Spec => []AckedSurvives
<1>1. IInv => AckedSurvives
  BY DEF IInv, Agrees, AckedSurvives
<1>2. QED
  BY <1>1, Invariance, PTL

-----------------------------------------------------------------------------
(* the refinement *)

\* The rename is the put or the prune of the store; a tick is its aging unless
\* no countdown is running; nothing else shows.
LEMMA StoreStep ==
  ASSUME IInv, [Next]_vars
  PROVE  [Store!StoreNext]_visible
<1>1. CASE Rename
  <2>1. visible' = mem /\ Replaces
    BY <1>1 DEF Rename, TempHolds, IInv, Agrees, Saving, BeforeRename
  <2>2. CASE \E k \in Key, r \in Store!Storable : mem = [visible EXCEPT ![k] = r]
    BY <2>1, <2>2 DEF Store!StoreNext, Store!Put
  <2>3. CASE \E K \in SUBSET Store!Expired :
               mem = [k \in Key |-> IF k \in K THEN Store!NoRecord ELSE visible[k]]
    BY <2>1, <2>3 DEF Store!StoreNext, Store!Prune
  <2>4. QED
    BY <2>1, <2>2, <2>3 DEF Replaces
<1>2. CASE Tick
  <2>1. visible' = [k \in Key |-> Store!Aged(visible[k])]
    BY <1>2, AgeMapType DEF Tick, IInv, Whole
  <2>2. CASE \E k \in Key : visible[k].timer > 0
    BY <2>1, <2>2 DEF Store!StoreNext, Store!Age
  <2>3. CASE ~\E k \in Key : visible[k].timer > 0
    <3>1. \A k \in Key : visible[k] \in Store!Record /\ visible[k].timer = 0
      BY <2>3 DEF IInv, Whole, Map, Store!Record
    <3>2. visible' = visible
      BY <2>1, <3>1, AgedType DEF IInv, Whole, Map
    <3>3. QED
      BY <3>2
  <2>4. QED
    BY <2>2, <2>3
<1>3. CASE ~(Rename \/ Tick) /\ Next
  <2>1. UNCHANGED visible
    BY <1>3
    DEF Next, Open, Close, StartPut, StartPrune, Save, CreateTemp, Encode, Sync,
        CloseTemp, SaveStep, SyncDirectory, SaveFails, Crash, PowerLoss
  <2>2. QED
    BY <2>1
<1>4. CASE UNCHANGED vars
  BY <1>4 DEF vars
<1>5. QED
  BY <1>1, <1>2, <1>3, <1>4

\* The store that MailCycle relies on is what the system calls of state.go make:
\* one record at a time put or expired ones pruned, all at once or not at all.
THEOREM ImplementsStoreAlways == Spec => ImplementsStore
<1>1. Init => Store!StoreInit
  BY DEF Init, Empty, Store!StoreInit
<1>2. QED
  BY <1>1, StoreStep, Invariance, PTL
  DEF Spec, ImplementsStore, Store!StoreSpec
=============================================================================
