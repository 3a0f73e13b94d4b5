-------------------------- MODULE MaildirMoveProofs --------------------------
(* Proofs about MaildirMove, for any files, bounds and faults. *)
EXTENDS MaildirMove, FiniteSetTheorems, TLAPS

\* Where the call in hand is: its target is free but for a file that has
\* arrived since the Stat, or holds what the call itself put there.  Time stamps
\* that have not been used name nothing.
Placed ==
  /\ \A n \in Name : n > stamp => dir[n] = Nothing
  /\ dst <= stamp
  /\ pc # "idle" => cur \in src \cup gone
  /\ pc = "stat" => dst = Base /\ stamp < MaxStamp
  /\ pc = "rename" /\ Present(dst) => dst = Base /\ raced /\ dir[dst] = Copy(Other)
  /\ pc = "copy" => dir[dst] = Part(cur)
  /\ pc = "close" => dir[dst] = Copy(cur)
  /\ pc = "undo" => dir[dst] \in {Part(cur), Copy(cur)}

\* The names that hold a message, or part of it.
Copies(m) == {n \in Name : Present(n) /\ dir[n].of = m}

Copying(m) == cur = m /\ pc \in {"copy", "close", "undo"}

\* A message that is yet to be moved has no copy that is not explained.
Counted ==
  \A m \in Msg :
    /\ Cardinality(Copies(m)) <= 1 + mishaps[m]
    /\ m \in src /\ ~Copying(m) => Cardinality(Copies(m)) <= mishaps[m]

IInv == TypeOK /\ Placed /\ NeverLost /\ ResultHonest /\ Counted

-----------------------------------------------------------------------------
(* the type *)

LEMMA ContentType ==
  ASSUME NEW m \in Msg \cup {Other}
  PROVE  /\ Nothing \in Content /\ Copy(m) \in Content /\ Part(m) \in Content
         /\ Copy(m) # Nothing
         /\ m # Other => Part(m) # Nothing
         /\ Copy(m).of = m /\ Part(m).of = m
BY DEF Nothing, Copy, Part, Content

LEMMA InitType == ASSUME Init PROVE TypeOK
<1>1. dir \in [Name -> Content]
  BY ContentType DEF Init
<1>2. faults \in 0..MaxFaults /\ stamp \in Name /\ dst \in Name
  BY MoveAssumption DEF Init, Name, Base
<1>3. raced \in BOOLEAN
  BY DEF Init
<1>4. mishaps \in [Msg -> Nat] /\ result \in [Msg -> {"none", "ok", "error"}]
  BY DEF Init
<1>5. QED
  BY <1>1, <1>2, <1>3, <1>4 DEF Init, TypeOK

LEMMA FaultType == ASSUME faults \in 0..MaxFaults, Fault PROVE faults' \in 0..MaxFaults
BY MoveAssumption DEF Fault

LEMMA CallType ==
  ASSUME TypeOK, NEW m \in Msg, Call(m) PROVE TypeOK'
BY MoveAssumption DEF TypeOK, Call, Goto, Steps, Name, Base

LEMMA MoveType ==
  ASSUME TypeOK, Placed, Move PROVE TypeOK'
<1> USE DEF TypeOK, Steps, Goto, Return
<1>1. CASE Stat
  BY <1>1, MoveAssumption DEF Stat, Placed, Name
<1>2. CASE Rename
  BY <1>2, ContentType DEF Rename, Holds, target
<1>3. CASE RenameFails
  BY <1>3, FaultType DEF RenameFails, target
<1>4. CASE Create
  BY <1>4, ContentType DEF Create, Holds, target
<1>5. CASE GiveUp
  BY <1>5, FaultType DEF GiveUp, target
<1>6. CASE CopyData
  BY <1>6, ContentType DEF CopyData, Holds, target
<1>7. CASE CopyFails
  BY <1>7, FaultType DEF CopyFails, target
<1>8. CASE Undo
  BY <1>8, FaultType, ContentType DEF Undo, Holds, Mishap, target
<1>9. CASE RemoveSource
  BY <1>9 DEF RemoveSource, target
<1>10. CASE RemoveFails
  BY <1>10, FaultType DEF RemoveFails, Mishap, target
<1>11. QED
  BY <1>1, <1>2, <1>3, <1>4, <1>5, <1>6, <1>7, <1>8, <1>9, <1>10 DEF Move

LEMMA EnvironmentType ==
  ASSUME TypeOK, Environment PROVE TypeOK'
<1> USE DEF TypeOK, Steps
<1>1. CASE Crash
  BY <1>1, FaultType DEF Crash, Goto, Mishap, target
<1>2. CASE \E m \in Msg : SourceGone(m)
  BY <1>2, FaultType DEF SourceGone, target
<1>3. CASE OtherArrives
  <2>1. Base \in Name /\ Copy(Other) \in Content
    BY MoveAssumption, ContentType DEF Base, Name
  <2>2. raced' \in BOOLEAN
    BY <1>3 DEF OtherArrives
  <2>3. QED
    BY <1>3, <2>1, <2>2, FaultType DEF OtherArrives, Holds, target
<1>4. QED
  BY <1>1, <1>2, <1>3 DEF Environment

-----------------------------------------------------------------------------
(* where the call is, and where each message is *)

\* Whatever a call writes under its target, no message has its copy there but
\* the one being moved.
TargetIsOwn ==
  \A m \in Msg : m # cur => dir[dst] # Copy(m)

LEMMA OwnTarget ==
  ASSUME TypeOK, Placed, pc \in {"rename", "copy", "close", "undo"}
  PROVE  TargetIsOwn
BY MoveAssumption
DEF TypeOK, Placed, TargetIsOwn, Present, Nothing, Copy, Part

\* A write under the target leaves the other messages' copies.
LEMMA OthersStay ==
  ASSUME TypeOK, TargetIsOwn, NEW c, Holds(dst, c), NEW m \in Msg, m # cur,
         \E n \in Name : dir[n] = Copy(m)
  PROVE  \E n \in Name : dir'[n] = Copy(m)
BY DEF TypeOK, TargetIsOwn, Holds

Settled == NeverLost /\ ResultHonest

LEMMA InitPlaced == ASSUME Init PROVE Placed /\ Settled
<1>1. Placed
  BY MoveAssumption DEF Init, Placed, Name, Base
<1>2. Settled
  BY DEF Init, Settled, NeverLost, ResultHonest
<1>3. QED
  BY <1>1, <1>2

LEMMA CallPlaced ==
  ASSUME TypeOK, Placed, Settled, NEW m \in Msg, Call(m) PROVE Placed' /\ Settled'
<1>1. Placed'
  BY MoveAssumption DEF TypeOK, Call, Goto, Placed, Base, Name
<1>2. Settled'
  BY DEF Call, Goto, Settled, NeverLost, ResultHonest
<1>3. QED
  BY <1>1, <1>2

\* A write under the target is none under an unused name.
LEMMA Unused ==
  ASSUME TypeOK, Placed, NEW c, Holds(dst, c)
  PROVE  /\ \A n \in Name : n > stamp => dir'[n] = Nothing
         /\ dir'[dst] = c
<1>1. dst \in Nat /\ stamp \in Nat /\ dst <= stamp /\ dst \in Name
  BY MoveAssumption DEF TypeOK, Placed, Name
<1>2. dir' = [dir EXCEPT ![dst] = c] /\ dir \in [Name -> Content]
  BY DEF Holds, TypeOK
<1>3. ASSUME NEW n \in Name, n > stamp PROVE dir'[n] = Nothing
  <2>1. n # dst
    BY <1>1, <1>3
  <2>2. QED
    BY <1>2, <1>3, <2>1 DEF Placed
<1>4. QED
  BY <1>1, <1>2, <1>3

LEMMA MovePlaced ==
  ASSUME TypeOK, Placed, Move PROVE Placed'
<1> USE DEF Goto, Return, target, TypeOK, Placed
<1>1. CASE Stat
  <2>1. CASE ~Present(Base) /\ UNCHANGED <<dst, stamp>>
    BY <1>1, <2>1 DEF Stat, Present
  <2>2. CASE stamp' = stamp + 1 /\ dst' = stamp + 1
    <3>1. stamp \in Nat /\ stamp + 1 \in Name
      BY <1>1, MoveAssumption DEF Stat, Name
    <3>2. \A n \in Name : n > stamp + 1 => n > stamp
      BY <3>1, MoveAssumption DEF Name
    <3>3. dir[stamp + 1] = Nothing
      BY <3>1
    <3>4. QED
      BY <1>1, <2>2, <3>1, <3>2, <3>3 DEF Stat, Present
  <2>3. QED
    BY <1>1, <2>1, <2>2 DEF Stat
<1>2. CASE Rename
  BY <1>2, Unused DEF Rename
<1>3. CASE RenameFails
  BY <1>3 DEF RenameFails
<1>4. CASE Create
  BY <1>4, Unused DEF Create
<1>5. CASE GiveUp
  BY <1>5 DEF GiveUp
<1>6. CASE CopyData
  BY <1>6, Unused DEF CopyData
<1>7. CASE CopyFails
  BY <1>7 DEF CopyFails
<1>8. CASE Undo
  BY <1>8, Unused DEF Undo
<1>9. CASE RemoveSource
  BY <1>9 DEF RemoveSource
<1>10. CASE RemoveFails
  BY <1>10 DEF RemoveFails
<1>11. QED
  BY <1>1, <1>2, <1>3, <1>4, <1>5, <1>6, <1>7, <1>8, <1>9, <1>10 DEF Move

LEMMA MoveSettled ==
  ASSUME TypeOK, Placed, Settled, Move PROVE Settled'
<1> USE DEF Goto, Return, target, Settled, NeverLost, ResultHonest
<1>1. CASE Stat \/ RenameFails \/ CopyFails
  BY <1>1 DEF Stat, RenameFails, CopyFails
<1>2. CASE Rename
  <2>1. dir' = [dir EXCEPT ![dst] = Copy(cur)] /\ dst \in Name
    BY <1>2 DEF Rename, Holds, TypeOK
  <2>2. \E n \in Name : dir'[n] = Copy(cur)
    BY <2>1 DEF TypeOK
  <2>3. ASSUME NEW m \in Msg, m # cur, \E n \in Name : dir[n] = Copy(m)
        PROVE  \E n \in Name : dir'[n] = Copy(m)
    BY <1>2, <2>3, OwnTarget, OthersStay DEF Rename
  <2>4. QED
    BY <1>2, <2>2, <2>3 DEF Rename, TypeOK
<1>3. CASE Create \/ CopyData
  <2>1. PICK c : Holds(dst, c) /\ TargetIsOwn
    BY <1>3, OwnTarget, MoveAssumption
    DEF Create, CopyData, TypeOK, TargetIsOwn, Present, Nothing, Copy
  <2>2. ASSUME NEW m \in Msg, m # cur, \E n \in Name : dir[n] = Copy(m)
        PROVE  \E n \in Name : dir'[n] = Copy(m)
    BY <2>1, <2>2, OthersStay
  <2>3. cur \in src \cup gone
    BY <1>3 DEF Create, CopyData, Placed
  <2>4. UNCHANGED <<src, gone, result>>
    BY <1>3 DEF Create, CopyData
  <2>5. QED
    BY <2>2, <2>3, <2>4 DEF TypeOK
<1>4. CASE GiveUp
  BY <1>4 DEF GiveUp, Placed, TypeOK
<1>5. CASE Undo
  <2>1. ASSUME NEW m \in Msg, m # cur, \E n \in Name : dir[n] = Copy(m)
        PROVE  \E n \in Name : dir'[n] = Copy(m)
    BY <1>5, <2>1, OwnTarget, OthersStay DEF Undo
  <2>2. cur \in src \cup gone
    BY <1>5 DEF Undo, Placed
  <2>3. QED
    BY <1>5, <2>1, <2>2 DEF Undo, TypeOK
<1>6. CASE RemoveSource
  <2>1. dir[dst] = Copy(cur) /\ dst \in Name
    BY <1>6 DEF RemoveSource, Placed, TypeOK
  <2>2. QED
    BY <1>6, <2>1 DEF RemoveSource, TypeOK
<1>7. CASE RemoveFails
  BY <1>7 DEF RemoveFails, Placed, TypeOK
<1>8. QED
  BY <1>1, <1>2, <1>3, <1>4, <1>5, <1>6, <1>7 DEF Move

LEMMA EnvironmentPlaced ==
  ASSUME TypeOK, Placed, Settled, Environment PROVE Placed' /\ Settled'
<1>1. CASE Crash
  BY <1>1 DEF Crash, Goto, target, Placed, Settled, NeverLost, ResultHonest
<1>2. CASE \E m \in Msg : SourceGone(m)
  <2>1. Placed'
    BY <1>2 DEF SourceGone, target, Placed, Present
  <2>2. Settled'
    BY <1>2 DEF SourceGone, target, Settled, NeverLost, ResultHonest
  <2>3. QED
    BY <2>1, <2>2
<1>3. CASE OtherArrives
  <2>1. dir[Base] = Nothing /\ Base \in Name /\ stamp \in Name
    BY <1>3, MoveAssumption DEF OtherArrives, Present, Base, Name, TypeOK
  <2>2. /\ dir' = [dir EXCEPT ![Base] = Copy(Other)]
        /\ raced' = (pc = "rename" /\ dst = Base)
        /\ UNCHANGED <<src, gone, pc, cur, dst, stamp, result>>
    BY <1>3 DEF OtherArrives, Holds, target
  <2>3. Placed'
    <3>1. dir'[Base] = Copy(Other) /\ \A n \in Name : n # Base => dir'[n] = dir[n]
      BY <2>1, <2>2 DEF TypeOK
    <3>2. \A n \in Name : n > stamp' => dir'[n] = Nothing
      BY <2>1, <2>2, <3>1 DEF Placed, Base, Name
    <3>3. pc \in {"copy", "close", "undo"} => dir[dst] # Nothing
      BY ContentType, MoveAssumption DEF Placed, TypeOK
    <3>4. dst \in Name
      BY DEF TypeOK
    <3>5. QED
      BY <2>1, <2>2, <3>1, <3>2, <3>3, <3>4 DEF Placed, Present
  <2>4. ASSUME NEW m \in Msg, \E n \in Name : dir[n] = Copy(m)
        PROVE  \E n \in Name : dir'[n] = Copy(m)
    <3>1. PICK n \in Name : dir[n] = Copy(m)
      BY <2>4
    <3>2. n # Base
      BY <2>1, <3>1, ContentType
    <3>3. QED
      BY <2>2, <3>1, <3>2 DEF TypeOK
  <2>5. Settled'
    BY <2>2, <2>4 DEF Settled, NeverLost, ResultHonest
  <2>6. QED
    BY <2>3, <2>5
<1>4. QED
  BY <1>1, <1>2, <1>3 DEF Environment

-----------------------------------------------------------------------------
(* how many copies there are *)

LEMMA CopiesFinite ==
  ASSUME NEW m
  PROVE  IsFiniteSet(Copies(m)) /\ Cardinality(Copies(m)) \in Nat
<1>1. IsFiniteSet(Name)
  BY FS_Interval, MoveAssumption DEF Name
<1>2. Copies(m) \subseteq Name
  BY DEF Copies
<1>3. IsFiniteSet(Copies(m))
  BY <1>1, <1>2, FS_Subset
<1>4. QED
  BY <1>3, FS_CardinalityType

LEMMA InitCounted == ASSUME Init PROVE Counted
<1>1. ASSUME NEW m \in Msg PROVE Cardinality(Copies(m)) = 0
  <2>1. Copies(m) = {}
    BY MoveAssumption DEF Init, Copies, Present, Nothing, Copy
  <2>2. QED
    BY <2>1, FS_EmptySet
<1>2. \A m \in Msg : mishaps[m] = 0
  BY DEF Init
<1>3. QED
  BY <1>1, <1>2 DEF Counted

\* A step that keeps every count, and starts no copy, keeps the bound.
LEMMA SameCopies ==
  ASSUME TypeOK, Counted, UNCHANGED <<dir, mishaps>>, src' \subseteq src,
         \A m \in Msg : m \in src' /\ ~Copying(m)' => ~Copying(m)
  PROVE  Counted'
<1>1. \A m : Copies(m)' = Copies(m)
  BY DEF Copies, Present
<1>2. QED
  BY <1>1 DEF Counted, TypeOK

\* After a mishap one more copy is explained.
LEMMA MishapExplains ==
  ASSUME TypeOK, Counted, Mishap, UNCHANGED <<dir, src, cur>>, pc' = "idle"
  PROVE  Counted'
<1>1. \A m : Copies(m)' = Copies(m)
  BY DEF Copies, Present
<1>2. ASSUME NEW m \in Msg, m # cur
      PROVE  mishaps'[m] = mishaps[m] /\ ~Copying(m)
  BY <1>2 DEF Mishap, TypeOK, Copying
<1>3. mishaps'[cur] = mishaps[cur] + 1 /\ mishaps[cur] \in Nat
  BY DEF Mishap, TypeOK
<1>4. Cardinality(Copies(cur)) \in Nat
  BY CopiesFinite
<1>5. Cardinality(Copies(cur)) <= 1 + mishaps[cur]
  BY DEF Counted, TypeOK
<1>6. Cardinality(Copies(cur)) <= mishaps'[cur]
  BY <1>3, <1>4, <1>5
<1>7. Cardinality(Copies(cur)) <= 1 + mishaps'[cur]
  BY <1>3, <1>4, <1>5
<1>8. ASSUME NEW m \in Msg
      PROVE  /\ Cardinality(Copies(m)') <= 1 + mishaps'[m]
             /\ m \in src' => Cardinality(Copies(m)') <= mishaps'[m]
  <2>1. CASE m = cur
    BY <1>1, <1>6, <1>7, <2>1
  <2>2. CASE m # cur
    BY <1>1, <1>2, <2>2 DEF Counted
  <2>3. QED
    BY <2>1, <2>2
<1>9. QED
  BY <1>8 DEF Counted

\* What a write under a name does to the copies of a message.
LEMMA Written ==
  ASSUME TypeOK, NEW n \in Name, NEW c, Holds(n, c), NEW m
  PROVE  /\ c # Nothing /\ c.of = m => Copies(m)' = Copies(m) \cup {n}
         /\ c = Nothing \/ c.of # m => Copies(m)' = Copies(m) \ {n}
<1>1. \A k \in Name : dir'[k] = IF k = n THEN c ELSE dir[k]
  BY DEF TypeOK, Holds
<1>2. QED
  BY <1>1 DEF Copies, Present

LEMMA FewerCopies ==
  ASSUME NEW m, NEW n, Copies(m)' = Copies(m) \ {n}
  PROVE  Cardinality(Copies(m)') <= Cardinality(Copies(m))
<1>1. Copies(m)' \subseteq Copies(m)
  OBVIOUS
<1>2. QED
  BY <1>1, CopiesFinite, FS_Subset

LEMMA OneMoreCopy ==
  ASSUME NEW m, NEW n, Copies(m)' = Copies(m) \cup {n}
  PROVE  /\ Cardinality(Copies(m)') <= Cardinality(Copies(m)) + 1
         /\ n \in Copies(m) => Cardinality(Copies(m)') = Cardinality(Copies(m))
<1>1. n \in Copies(m) => Copies(m)' = Copies(m)
  OBVIOUS
<1>2. n \notin Copies(m) => Cardinality(Copies(m)') = Cardinality(Copies(m)) + 1
  BY CopiesFinite, FS_AddElement
<1>3. Cardinality(Copies(m)) \in Nat
  BY CopiesFinite
<1>4. QED
  BY <1>1, <1>2, <1>3

\* A write for the message being moved adds at most one copy of it, and none of
\* another.
LEMMA CopyWritten ==
  ASSUME TypeOK, Counted, NEW c \in {Copy(cur), Part(cur)}, Holds(dst, c),
         UNCHANGED <<mishaps, cur>>, src' \subseteq src,
         \/ cur \in src /\ ~Copying(cur)
         \/ dst \in Copies(cur),
         cur \in src' => Copying(cur)'
  PROVE  Counted'
<1>1. c # Nothing /\ c.of = cur /\ dst \in Name /\ cur \in Msg
  BY MoveAssumption, ContentType DEF TypeOK
<1>2. Cardinality(Copies(cur)') <= 1 + mishaps'[cur]
  <2>1. Copies(cur)' = Copies(cur) \cup {dst}
    BY <1>1, Written
  <2>2. Cardinality(Copies(cur)) \in Nat /\ Cardinality(Copies(cur)') \in Nat
    <3>1. IsFiniteSet(Copies(cur)')
      BY <2>1, CopiesFinite, FS_AddElement
    <3>2. QED
      BY <3>1, CopiesFinite, FS_CardinalityType
  <2>3. mishaps[cur] \in Nat
    BY <1>1 DEF TypeOK
  <2>4. CASE dst \in Copies(cur)
    BY <1>1, <2>1, <2>4, OneMoreCopy DEF Counted
  <2>5. CASE cur \in src /\ ~Copying(cur)
    <3>1. Cardinality(Copies(cur)) <= mishaps[cur]
      BY <1>1, <2>5 DEF Counted
    <3>2. Cardinality(Copies(cur)') <= Cardinality(Copies(cur)) + 1
      BY <2>1, OneMoreCopy
    <3>3. QED
      BY <2>2, <2>3, <3>1, <3>2
  <2>6. QED
    BY <2>4, <2>5
<1>3. ASSUME NEW m \in Msg, m # cur
      PROVE  /\ Cardinality(Copies(m)') <= 1 + mishaps'[m]
             /\ m \in src' => Cardinality(Copies(m)') <= mishaps'[m]
  <2>1. Copies(m)' = Copies(m) \ {dst}
    BY <1>1, <1>3, Written
  <2>2. Cardinality(Copies(m)') <= Cardinality(Copies(m))
    BY <2>1, FewerCopies
  <2>3. ~Copying(m)
    BY <1>3 DEF Copying
  <2>4. Cardinality(Copies(m)') \in Nat /\ Cardinality(Copies(m)) \in Nat
    <3>1. IsFiniteSet(Copies(m)')
      BY <2>1, CopiesFinite, FS_Subset
    <3>2. QED
      BY <3>1, CopiesFinite, FS_CardinalityType
  <2>5. mishaps[m] \in Nat
    BY DEF TypeOK
  <2>6. QED
    BY <2>2, <2>3, <2>4, <2>5 DEF Counted
<1>4. QED
  BY <1>2, <1>3 DEF Counted

LEMMA CallCounted ==
  ASSUME TypeOK, Counted, NEW m \in Msg, Call(m) PROVE Counted'
BY SameCopies DEF Call, Goto, Copying

LEMMA MoveCounted ==
  ASSUME TypeOK, Placed, Counted, Move PROVE Counted'
<1> USE DEF Goto, Return, target
<1>1. CASE Stat
  BY <1>1, SameCopies DEF Stat, Copying
<1>2. CASE Rename
  <2>1. cur \in src /\ ~Copying(cur) /\ cur \notin src' /\ src' \subseteq src
    BY <1>2 DEF Rename, Copying
  <2>2. QED
    BY <1>2, <2>1, CopyWritten DEF Rename
<1>3. CASE RenameFails
  BY <1>3, SameCopies DEF RenameFails, Copying
<1>4. CASE Create
  <2>1. cur \in src /\ ~Copying(cur) /\ Copying(cur)'
    BY <1>4 DEF Create, Copying
  <2>2. QED
    BY <1>4, <2>1, CopyWritten DEF Create
<1>5. CASE GiveUp
  BY <1>5, SameCopies DEF GiveUp, Copying
<1>6. CASE CopyData
  <2>1. dst \in Copies(cur)
    BY <1>6, MoveAssumption, ContentType
    DEF CopyData, Placed, Copies, Present, TypeOK
  <2>2. Copying(cur)'
    BY <1>6 DEF CopyData, Copying
  <2>3. QED
    BY <1>6, <2>1, <2>2, CopyWritten DEF CopyData
<1>7. CASE CopyFails
  BY <1>7, SameCopies DEF CopyFails, Copying
<1>8. CASE Undo
  <2>1. CASE Mishap /\ UNCHANGED dir
    BY <1>8, <2>1, MishapExplains DEF Undo
  <2>2. CASE Holds(dst, Nothing) /\ UNCHANGED <<mishaps, faults>>
    <3>1. \A m : Copies(m)' = Copies(m) \ {dst}
      BY <2>2, Written DEF TypeOK
    <3>2. dst \in Copies(cur)
      BY <1>8, MoveAssumption, ContentType
      DEF Undo, Placed, Copies, Present, TypeOK
    <3>3. Cardinality(Copies(cur)') = Cardinality(Copies(cur)) - 1
      <4>1. Cardinality(Copies(cur) \ {dst}) = Cardinality(Copies(cur)) - 1
        BY <3>2, CopiesFinite, FS_RemoveElement
      <4>2. cur' = cur
        BY <1>8 DEF Undo
      <4>3. QED
        BY <3>1, <4>1, <4>2
    <3>4. cur \in Msg /\ mishaps[cur] \in Nat /\ Cardinality(Copies(cur)) \in Nat
      BY CopiesFinite DEF TypeOK
    <3>5. Cardinality(Copies(cur)') <= mishaps[cur]
      BY <3>3, <3>4 DEF Counted
    <3>6. ASSUME NEW m \in Msg, m # cur
          PROVE  /\ Cardinality(Copies(m)') <= 1 + mishaps[m]
                 /\ m \in src => Cardinality(Copies(m)') <= mishaps[m]
      <4>1. Cardinality(Copies(m)') <= Cardinality(Copies(m))
        BY <3>1, FewerCopies
      <4>2. Cardinality(Copies(m)') \in Nat /\ Cardinality(Copies(m)) \in Nat
        <5>1. IsFiniteSet(Copies(m)')
          BY <3>1, CopiesFinite, FS_RemoveElement
        <5>2. QED
          BY <5>1, CopiesFinite, FS_CardinalityType
      <4>3. ~Copying(m) /\ mishaps[m] \in Nat
        BY <3>6 DEF Copying, TypeOK
      <4>4. QED
        BY <4>1, <4>2, <4>3 DEF Counted
    <3>7. Cardinality(Copies(cur)') <= 1 + mishaps[cur]
      BY <3>3, <3>4 DEF Counted
    <3>8. UNCHANGED <<src, cur, mishaps>>
      BY <1>8, <2>2 DEF Undo
    <3>9. ASSUME NEW m \in Msg
          PROVE  /\ Cardinality(Copies(m)') <= 1 + mishaps'[m]
                 /\ m \in src' => Cardinality(Copies(m)') <= mishaps'[m]
      <4>1. CASE m = cur
        BY <3>5, <3>7, <3>8, <4>1
      <4>2. CASE m # cur
        BY <3>6, <3>8, <4>2
      <4>3. QED
        BY <4>1, <4>2
    <3>10. QED
      BY <3>9 DEF Counted
  <2>3. QED
    BY <1>8, <2>1, <2>2 DEF Undo
<1>9. CASE RemoveSource
  BY <1>9, SameCopies DEF RemoveSource, Copying
<1>10. CASE RemoveFails
  BY <1>10, MishapExplains DEF RemoveFails
<1>11. QED
  BY <1>1, <1>2, <1>3, <1>4, <1>5, <1>6, <1>7, <1>8, <1>9, <1>10 DEF Move

LEMMA EnvironmentCounted ==
  ASSUME TypeOK, Placed, Counted, Environment PROVE Counted'
<1>1. CASE Crash
  BY <1>1, MishapExplains DEF Crash, Goto, target
<1>2. CASE \E m \in Msg : SourceGone(m)
  BY <1>2, SameCopies DEF SourceGone, target, Copying
<1>3. CASE OtherArrives
  <2>1. Base \in Name /\ Holds(Base, Copy(Other)) /\ ~Present(Base)
    BY <1>3, MoveAssumption DEF OtherArrives, Base, Name
  <2>2. ASSUME NEW m \in Msg PROVE Copies(m)' = Copies(m)
    <3>1. Copy(Other).of # m
      BY MoveAssumption, ContentType
    <3>2. Copies(m)' = Copies(m) \ {Base}
      BY <2>1, <3>1, Written
    <3>3. Base \notin Copies(m)
      BY <2>1 DEF Copies
    <3>4. QED
      BY <3>2, <3>3
  <2>3. UNCHANGED <<src, pc, cur, mishaps>>
    BY <1>3 DEF OtherArrives, target
  <2>4. QED
    BY <2>2, <2>3 DEF Counted, Copying
<1>4. QED
  BY <1>1, <1>2, <1>3 DEF Environment

-----------------------------------------------------------------------------
(* the theorems *)

LEMMA StutterInv == ASSUME IInv, UNCHANGED vars PROVE IInv'
BY DEF IInv, vars, target, TypeOK, Placed, Present, NeverLost, ResultHonest,
       Counted, Copies, Copying

LEMMA Invariance == Spec => []IInv
<1>1. Init => IInv
  BY InitType, InitPlaced, InitCounted DEF IInv, Settled
<1>2. ASSUME IInv, Next PROVE IInv'
  <2>1. CASE \E m \in Msg : Call(m)
    BY <1>2, <2>1, CallType, CallPlaced, CallCounted DEF IInv, Settled
  <2>2. CASE Move
    BY <1>2, <2>2, MoveType, MovePlaced, MoveSettled, MoveCounted DEF IInv, Settled
  <2>3. CASE Environment
    BY <1>2, <2>3, EnvironmentType, EnvironmentPlaced, EnvironmentCounted
    DEF IInv, Settled
  <2>4. QED
    BY <1>2, <2>1, <2>2, <2>3 DEF Next, Step
<1>3. IInv /\ [Next]_vars => IInv'
  BY <1>2, StutterInv
<1>4. QED
  BY <1>1, <1>3, PTL DEF Spec

\* Every state of archiveMessage has its type, whatever the calls before.
THEOREM MoveTypeCorrect == Spec => []TypeOK
<1>1. IInv => TypeOK
  BY DEF IInv
<1>2. QED
  BY <1>1, Invariance, PTL

\* Through failed calls, crashes and files that appear in the destination,
\* archiveMessage never leaves a message without a complete copy: either the
\* inbox still has it or the destination does.
THEOREM NeverLostAlways == Spec => []NeverLost
<1>1. IInv => NeverLost
  BY DEF IInv
<1>2. QED
  BY <1>1, Invariance, PTL

\* What archiveMessage returned stays true: after nil the message is in the
\* destination for good, after an error it is still in the inbox.
THEOREM ResultHonestAlways == Spec => []ResultHonest
<1>1. IInv => ResultHonest
  BY DEF IInv
<1>2. QED
  BY <1>1, Invariance, PTL

\* However often archiveMessage is called again for a message, the destination
\* holds one copy of it and one more per crash or failed os.Remove.
THEOREM CopiesExplainedAlways == Spec => []CopiesExplained
<1>1. IInv => CopiesExplained
  BY DEF IInv, Counted, CopiesExplained, Copies
<1>2. QED
  BY <1>1, Invariance, PTL

\* archiveMessage changes no file of the destination but the copy it is making
\* and, by os.Rename, one that came under its target name after the Stat.
THEOREM DestinationKeptAlways == Spec => DestinationKept
<1> DEFINE Kept == \A n \in Name : ~(raced /\ pc = "rename" /\ n = Base) => Keeps(n)
<1>1. ASSUME IInv, Next PROVE Kept
  <2> SUFFICES ASSUME NEW n \in Name, ~(raced /\ pc = "rename" /\ n = Base),
                      Present(n), ~OwnCopy(n), dir' # dir
               PROVE  dir'[n] = dir[n]
    BY DEF Keeps
  <2> USE DEF IInv, TypeOK
  <2>1. CASE Rename
    <3>1. n # dst
      BY <1>1, <2>1 DEF Rename, Placed
    <3>2. QED
      BY <1>1, <2>1, <3>1 DEF Rename, Holds
  <2>2. CASE Create
    BY <1>1, <2>2 DEF Create, Holds
  <2>3. CASE CopyData \/ Undo
    BY <1>1, <2>3 DEF CopyData, Undo, Holds, OwnCopy
  <2>4. CASE OtherArrives
    BY <1>1, <2>4 DEF OtherArrives, Holds
  <2>5. QED
    BY <1>1, <2>1, <2>2, <2>3, <2>4
    DEF Next, Step, Move, Environment, Call, Stat, RenameFails, GiveUp, CopyFails,
        RemoveSource, RemoveFails, Crash, SourceGone
<1>2. UNCHANGED vars => Kept
  BY DEF vars, Keeps
<1>3. IInv /\ [Next]_vars => [Kept]_vars
  BY <1>1, <1>2
<1>4. QED
  BY <1>3, Invariance, PTL DEF Spec, DestinationKept
=============================================================================
