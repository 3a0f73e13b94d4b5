---------------------------- MODULE MaildirMove -----------------------------
(***************************************************************************)
(* archiveMessage call by call: moving a file into the cur directory of    *)
(* Archive (or Failed) by rename, or by copying when rename is refused.    *)
(* All the files here share one base name, the case where moves can        *)
(* collide.  The bot calls it again for every file it finds in the inbox.  *)
(***************************************************************************)
EXTENDS Naturals, FiniteSets

CONSTANTS
  Msg,                \* the files to move
  Other,              \* a message that was in the destination before
  MaxStamp,           \* bound: time stamps that can be put before a name
  MaxFaults           \* bound: failed calls, crashes and vanished sources

ASSUME MoveAssumption ==
  /\ Other \notin Msg
  /\ MaxStamp \in Nat /\ MaxFaults \in Nat

VARIABLES
  otherDevice,        \* the destination is on another file system
  src,                \* files still in the inbox
  gone,               \* files someone else took out of the inbox
  dir,                \* what each name in the destination holds
  pc, cur, dst,       \* the call being made: its step, file and target name
  result,             \* what the last call for each file returned
  stamp,              \* the last time stamp used
  mishaps,            \* history: calls on each file that may leave a copy
  raced,              \* history: a file appeared between a Stat and its rename
  faults

target == <<cur, dst, stamp>>
vars == <<otherDevice, src, gone, dir, pc, target, result, mishaps, raced, faults>>

Base == 0                          \* the file's own name; n is n.name
Name == 0..MaxStamp
Nothing == [of |-> Other, whole |-> FALSE]
Copy(m) == [of |-> m, whole |-> TRUE]
Part(m) == [of |-> m, whole |-> FALSE]
Content == [of : Msg \cup {Other}, whole : BOOLEAN]

Steps == {"stat", "rename", "create", "copy", "close", "undo"}

TypeOK ==
  /\ otherDevice \in BOOLEAN
  /\ src \subseteq Msg
  /\ gone \subseteq Msg
  /\ dir \in [Name -> Content]
  /\ pc \in {"idle"} \cup Steps
  /\ cur \in Msg
  /\ dst \in Name
  /\ result \in [Msg -> {"none", "ok", "error"}]
  /\ stamp \in Name
  /\ mishaps \in [Msg -> Nat]
  /\ raced \in BOOLEAN
  /\ faults \in 0..MaxFaults

Init ==
  /\ otherDevice \in BOOLEAN
  /\ src = Msg /\ gone = {}
  /\ \E c \in {Nothing, Copy(Other)} :
       dir = [n \in Name |-> IF n = Base THEN c ELSE Nothing]
  /\ pc = "idle" /\ cur \in Msg /\ dst = Base
  /\ result = [m \in Msg |-> "none"]
  /\ stamp = 0
  /\ mishaps = [m \in Msg |-> 0]
  /\ raced = FALSE
  /\ faults = 0

Fault ==
  /\ faults < MaxFaults
  /\ faults' = faults + 1

Mishap == mishaps' = [mishaps EXCEPT ![cur] = @ + 1]

Goto(step) == pc' = step /\ UNCHANGED result

Return(r) ==
  /\ pc' = "idle"
  /\ result' = [result EXCEPT ![cur] = r]

Present(n) == dir[n] # Nothing

Holds(n, c) == dir' = [dir EXCEPT ![n] = c]

-----------------------------------------------------------------------------
\* The scan found m in the inbox.
Call(m) ==
  /\ pc = "idle"
  /\ m \in src
  /\ stamp < MaxStamp
  /\ cur' = m /\ dst' = Base
  /\ Goto("stat")
  /\ UNCHANGED <<otherDevice, src, gone, dir, stamp, mishaps, raced, faults>>

\* Mutant of Stat: a taken name is not noticed.
StatBlind ==
  /\ pc = "stat"
  /\ Goto("rename")
  /\ UNCHANGED <<otherDevice, src, gone, dir, target, mishaps, raced, faults>>

\* A taken name gets a time stamp in front.
Stat ==
  /\ pc = "stat"
  /\ \/ ~Present(Base) /\ UNCHANGED <<dst, stamp>>
     \/ Present(Base) /\ stamp' = stamp + 1 /\ dst' = stamp + 1
  /\ Goto("rename")
  /\ UNCHANGED <<otherDevice, src, gone, dir, cur, mishaps, raced, faults>>

\* Rename replaces whatever has appeared under the name.
Rename ==
  /\ pc = "rename"
  /\ cur \in src /\ ~otherDevice
  /\ Holds(dst, Copy(cur))
  /\ src' = src \ {cur}
  /\ Return("ok")
  /\ UNCHANGED <<otherDevice, gone, target, mishaps, raced, faults>>

\* Mutant of RenameFails: there is no copy to fall back on.
RenameOnly ==
  /\ pc = "rename"
  /\ \/ (cur \notin src \/ otherDevice) /\ UNCHANGED faults
     \/ Fault
  /\ Return("error")
  /\ UNCHANGED <<otherDevice, src, gone, dir, target, mishaps, raced>>

\* Any rename error leads to the copy.
RenameFails ==
  /\ pc = "rename"
  /\ \/ (cur \notin src \/ otherDevice) /\ UNCHANGED faults
     \/ Fault
  /\ Goto("create")
  /\ UNCHANGED <<otherDevice, src, gone, dir, target, mishaps, raced>>

\* The source is opened and the target created; O_EXCL refuses a taken name.
Create ==
  /\ pc = "create"
  /\ cur \in src /\ ~Present(dst)
  /\ Holds(dst, Part(cur))
  /\ Goto("copy")
  /\ UNCHANGED <<otherDevice, src, gone, target, mishaps, raced, faults>>

\* MkdirAll, Stat, Open or OpenFile fails; nothing was made.
GiveUp ==
  /\ \/ pc = "create" /\ (cur \notin src \/ Present(dst)) /\ UNCHANGED faults
     \/ pc \in {"stat", "create"} /\ Fault
  /\ Return("error")
  /\ UNCHANGED <<otherDevice, src, gone, dir, target, mishaps, raced>>

\* The open source can be read to its end even if its name is gone.
CopyData ==
  /\ pc = "copy"
  /\ Holds(dst, Copy(cur))
  /\ Goto("close")
  /\ UNCHANGED <<otherDevice, src, gone, target, mishaps, raced, faults>>

\* Mutant of CopyFails: the copy error is dropped and the source removed.
CopyErrorDropped ==
  /\ pc = "copy"
  /\ Fault
  /\ Goto("close")
  /\ UNCHANGED <<otherDevice, src, gone, dir, target, mishaps, raced>>

\* io.Copy or Close reports an error.
CopyFails ==
  /\ pc \in {"copy", "close"}
  /\ Fault
  /\ Goto("undo")
  /\ UNCHANGED <<otherDevice, src, gone, dir, target, mishaps, raced>>

\* Mutant of Undo: the failed copy stays.
UndoNothing ==
  /\ pc = "undo"
  /\ Return("error")
  /\ UNCHANGED <<otherDevice, src, gone, dir, target, mishaps, raced, faults>>

\* The failed copy is removed; nobody looks whether that worked.
Undo ==
  /\ pc = "undo"
  /\ \/ Holds(dst, Nothing) /\ UNCHANGED <<mishaps, faults>>
     \/ Fault /\ Mishap /\ UNCHANGED dir
  /\ Return("error")
  /\ UNCHANGED <<otherDevice, src, gone, target, raced>>

\* The copy is closed and the source removed.
RemoveSource ==
  /\ pc = "close"
  /\ cur \in src
  /\ src' = src \ {cur}
  /\ Return("ok")
  /\ UNCHANGED <<otherDevice, gone, dir, target, mishaps, raced, faults>>

\* Mutant of RemoveFails: the error of the last Remove is dropped.
RemoveErrorDropped ==
  /\ pc = "close"
  /\ \/ cur \notin src /\ UNCHANGED faults
     \/ cur \in src /\ Fault
  /\ Mishap
  /\ Return("ok")
  /\ UNCHANGED <<otherDevice, src, gone, dir, target, raced>>

RemoveFails ==
  /\ pc = "close"
  /\ \/ cur \notin src /\ UNCHANGED faults
     \/ cur \in src /\ Fault
  /\ Mishap
  /\ Return("error")
  /\ UNCHANGED <<otherDevice, src, gone, dir, target, raced>>

-----------------------------------------------------------------------------
Crash ==
  /\ pc # "idle"
  /\ Fault
  /\ Mishap
  /\ Goto("idle")
  /\ UNCHANGED <<otherDevice, src, gone, dir, target, raced>>

\* A mail reader renames or deletes a file of the inbox.
SourceGone(m) ==
  /\ m \in src
  /\ Fault
  /\ src' = src \ {m}
  /\ gone' = gone \cup {m}
  /\ UNCHANGED <<otherDevice, dir, pc, target, result, mishaps, raced>>

\* A mail program files a message of the same name in the destination.
OtherArrives ==
  /\ ~Present(Base)
  /\ Fault
  /\ Holds(Base, Copy(Other))
  /\ raced' = (pc = "rename" /\ dst = Base)
  /\ UNCHANGED <<otherDevice, src, gone, pc, target, result, mishaps>>

Move ==
  \/ Stat \/ Rename \/ RenameFails \/ Create \/ GiveUp
  \/ CopyData \/ CopyFails \/ Undo \/ RemoveSource \/ RemoveFails

Step == (\E m \in Msg : Call(m)) \/ Move

Environment == Crash \/ (\E m \in Msg : SourceGone(m)) \/ OtherArrives

Next == Step \/ Environment

Spec == Init /\ [][Next]_vars

\* The bot scans again and again, and each call runs to its end.
FairSpec ==
  /\ Spec
  /\ WF_vars(Move)
  /\ \A m \in Msg : WF_vars(Call(m))

-----------------------------------------------------------------------------
\* A message is never lost: until the bot's inbox copy is gone there is one,
\* and afterwards the destination holds a complete one.
NeverLost ==
  \A m \in Msg \ gone : m \in src \/ \E n \in Name : dir[n] = Copy(m)

\* Nothing in the destination is replaced or removed, except by the call that
\* made it while it is still copying, or by a rename that another program's
\* file has overtaken since the Stat.
OwnCopy(n) == n = dst /\ pc \in {"copy", "close", "undo"}

Keeps(n) == Present(n) /\ ~OwnCopy(n) => dir'[n] = dir[n]

DestinationKept ==
  [][\A n \in Name : ~(raced /\ pc = "rename" /\ n = Base) => Keeps(n)]_vars

\* The documented promise, without the exception.
NeverOverwritten == [][\A n \in Name : Keeps(n)]_vars

\* The result tells the caller the truth: success means the file left the
\* inbox for the destination, and after an error a retry finds the source.
ResultHonest ==
  \A m \in Msg \ gone :
    CASE result[m] = "ok" -> m \notin src /\ \E n \in Name : dir[n] = Copy(m)
      [] result[m] = "error" -> m \in src
      [] OTHER -> TRUE

\* Copies do not pile up on their own: one per message, and one more per crash
\* or failed removal.
CopiesExplained ==
  \A m \in Msg :
    Cardinality({n \in Name : Present(n) /\ dir[n].of = m}) <= 1 + mishaps[m]

\* Every message is moved in the end, by whichever way works.
Moved == \A m \in Msg : <>(m \notin src)
=============================================================================
