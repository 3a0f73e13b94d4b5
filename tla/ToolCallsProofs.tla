--------------------------- MODULE ToolCallsProofs --------------------------
(* Proofs about ToolCalls, for any calls, budgets, plan lengths and attempts. *)
EXTENDS ToolCalls, DataTheorems

\* What a plan is, whether it is accepted or too long.
LEMMA PlanShape ==
  ASSUME NEW n \in Nat, NEW p \in [1..n -> Call]
  PROVE  p \in Seq(Call) /\ Len(p) = n
OBVIOUS

\* The steps at which the call at i has been made and is not done.
Busy == {"run", "exports"}

\* A call made in this attempt has used up its run for this attempt; one not yet
\* made has a run to spare.
RunsLeft == \A c \in Call : runs[c] + (IF c \in used THEN 0 ELSE 1) <= attempt

\* The calls made come from the part of the plan handled so far, all declared.
Progress ==
  /\ \A c \in used : \E j \in 1..Len(plan) : j <= i /\ plan[j] = c
  /\ \A h \in 1..Len(plan) : h < i => plan[h] \in Declared
  /\ pc \in Busy => i <= Len(plan) /\ This \in used
  /\ Len(plan) > MaxCalls => used = {} /\ pc = "failed"
  /\ pc = "select" => plan = <<>> /\ i = 1 /\ used = {}
  /\ pc = "call" => Len(plan) <= MaxCalls

IInv == TypeOK /\ RunsLeft /\ Progress

LEMMA InitInv == ASSUME Init PROVE IInv
BY ToolAssumption DEF Init, IInv, TypeOK, RunsLeft, Progress, Busy, Ref

LEMMA SelectInv ==
  ASSUME IInv, SelectFails \/ Select PROVE IInv'
<1>1. CASE SelectFails
  <2>1. plan' \in Seq(Call) /\ Len(plan') \in Nat
    BY <1>1, PlanShape, ToolAssumption DEF SelectFails, IInv, TypeOK
  <2>2. TypeOK'
    BY <1>1, <2>1 DEF SelectFails, IInv, TypeOK, Progress, Fail, Goto, taken
  <2>3. RunsLeft' /\ Progress'
    BY <1>1, <2>1 DEF SelectFails, IInv, RunsLeft, Progress, Fail, Goto, taken, Busy
  <2>4. QED
    BY <2>2, <2>3 DEF IInv
<1>2. CASE Select
  <2>1. PICK n \in 0..MaxCalls : plan' \in [1..n -> Call]
    BY <1>2 DEF Select
  <2>2. plan' \in Seq(Call) /\ Len(plan') = n /\ n <= MaxCalls /\ n \in Nat
    BY <2>1, PlanShape, ToolAssumption
  <2>3. TypeOK'
    BY <1>2, <2>2 DEF Select, IInv, TypeOK, Progress, Goto, taken
  <2>4. RunsLeft' /\ Progress'
    BY <1>2, <2>2, ToolAssumption
    DEF Select, IInv, TypeOK, RunsLeft, Progress, Goto, taken, Busy
  <2>5. QED
    BY <2>3, <2>4 DEF IInv
<1>3. QED
  BY <1>1, <1>2

LEMMA CallInv ==
  ASSUME IInv, RefuseCall \/ SkipRepeated \/ RunCall \/ CallFails
  PROVE  IInv'
<1>1. CASE RefuseCall
  BY <1>1
  DEF RefuseCall, IInv, TypeOK, RunsLeft, Progress, Fail, Goto, taken, Busy, This
<1>2. CASE SkipRepeated
  <2>1. TypeOK'
    BY <1>2 DEF SkipRepeated, IInv, TypeOK, taken
  <2>2. RunsLeft'
    BY <1>2 DEF SkipRepeated, IInv, RunsLeft, taken
  <2>3. Progress'
    BY <1>2 DEF SkipRepeated, IInv, TypeOK, Progress, taken, This, Busy
  <2>4. QED
    BY <2>1, <2>2, <2>3 DEF IInv
<1>3. CASE RunCall
  <2>1. This \in Call /\ This \in Declared /\ i \in 1..Len(plan)
    BY <1>3 DEF RunCall, IInv, TypeOK, This
  <2>2. runs[This] + 1 <= attempt
    BY <1>3, <2>1 DEF RunCall, IInv, RunsLeft
  <2>3. TypeOK'
    BY <1>3, <2>1, <2>2, ToolAssumption DEF RunCall, IInv, TypeOK, Goto
  <2>4. RunsLeft'
    BY <1>3, <2>1, <2>2 DEF RunCall, IInv, TypeOK, RunsLeft, Goto
  <2>5. Progress'
    BY <1>3, <2>1 DEF RunCall, IInv, TypeOK, Progress, This, Goto, Busy
  <2>6. QED
    BY <2>3, <2>4, <2>5 DEF IInv
<1>4. CASE CallFails
  BY <1>4
  DEF CallFails, IInv, TypeOK, RunsLeft, Progress, Fail, Goto, taken, Busy, This
<1>5. QED
  BY <1>1, <1>2, <1>3, <1>4

\* An excerpt fits in the budget, and what is charged for it leaves no less than
\* nothing, though the note may be longer than what is left.
LEMMA ChargeFits ==
  ASSUME NEW kept \in Nat, remaining \in 0..MaxToolContext, Charge(kept)
  PROVE  remaining' \in 0..MaxToolContext
BY ToolAssumption DEF Charge, Least

LEMMA ResultInv ==
  ASSUME IInv, (\E n \in 0..MaxText : KeepContext(n)) \/ RefuseExports \/ KeepExports
  PROVE  IInv'
<1>1. ASSUME NEW n \in 0..MaxText, KeepContext(n) PROVE IInv'
  <2>1. PICK m \in Excerpts(n), exports \in BOOLEAN :
          /\ refs' = Append(refs, [call |-> This, full |-> n, excerpt |-> m,
                                   cut |-> n > remaining, exports |-> exports])
          /\ Charge(IF n > remaining THEN m + Note ELSE m)
    BY <1>1 DEF KeepContext
  <2>2. n \in Nat /\ m \in Nat
    BY <2>1, ToolAssumption DEF Excerpts, IInv, TypeOK
  <2>3. This \in Call
    BY <1>1 DEF KeepContext, IInv, TypeOK, Progress, Busy, This
  <2>4. refs' \in Seq(Ref)
    BY <2>1, <2>2, <2>3 DEF IInv, TypeOK, Ref
  <2>5. remaining' \in 0..MaxToolContext
    BY <2>1, <2>2, ChargeFits, ToolAssumption DEF IInv, TypeOK
  <2>6. TypeOK'
    BY <1>1, <2>4, <2>5 DEF KeepContext, IInv, TypeOK, Goto
  <2>7. RunsLeft' /\ Progress'
    BY <1>1 DEF KeepContext, IInv, RunsLeft, Progress, This, Goto, Busy
  <2>8. QED
    BY <2>6, <2>7 DEF IInv
<1>2. CASE RefuseExports
  BY <1>2
  DEF RefuseExports, IInv, TypeOK, RunsLeft, Progress, Fail, Goto, taken, Busy, This
<1>3. CASE KeepExports
  <2>1. This \in used /\ i \in 1..Len(plan) /\ plan[i] \in Declared
    BY <1>3 DEF KeepExports, IInv, TypeOK, Progress, Busy, This
  <2>2. TypeOK'
    BY <1>3, <2>1 DEF KeepExports, IInv, TypeOK, Goto
  <2>3. RunsLeft'
    BY <1>3 DEF KeepExports, IInv, RunsLeft
  <2>4. Progress'
    BY <1>3, <2>1, ToolAssumption
    DEF KeepExports, IInv, TypeOK, Progress, This, Goto, Busy
  <2>5. QED
    BY <2>2, <2>3, <2>4 DEF IInv
<1>4. QED
  BY <1>1, <1>2, <1>3

LEMMA FinishInv ==
  ASSUME IInv, Finish \/ Retry \/ UNCHANGED vars PROVE IInv'
<1>1. CASE Finish
  BY <1>1
  DEF Finish, IInv, TypeOK, RunsLeft, Progress, Goto, taken, Busy, This
<1>2. CASE Retry
  <2>1. TypeOK'
    BY <1>2, ToolAssumption DEF Retry, IInv, TypeOK, Goto
  <2>2. RunsLeft'
    BY <1>2 DEF Retry, IInv, TypeOK, RunsLeft, Goto
  <2>3. Progress'
    BY <1>2, ToolAssumption DEF Retry, Progress, Goto, Busy
  <2>4. QED
    BY <2>1, <2>2, <2>3 DEF IInv
<1>3. CASE UNCHANGED vars
  BY <1>3 DEF vars, IInv, TypeOK, RunsLeft, Progress, taken, Busy, This
<1>4. QED
  BY <1>1, <1>2, <1>3

LEMMA Invariance == Spec => []IInv
<1>1. ASSUME IInv, [Next]_vars PROVE IInv'
  BY <1>1, SelectInv, CallInv, ResultInv, FinishInv DEF Next
<1>2. QED
  BY <1>1, InitInv, PTL DEF Spec

\* Whatever the selector plans, the variables of collectTools keep their types;
\* in particular the budget left is never negative.
THEOREM ToolTypeCorrect == Spec => []TypeOK
<1>1. IInv => TypeOK
  BY DEF IInv
<1>2. QED
  BY <1>1, Invariance, PTL

\* However often plans repeat a call and attempts repeat the plan, the call's
\* command runs at most once per attempt at the message.
THEOREM OncePerAttemptAlways == Spec => []OncePerAttempt
<1>1. IInv => OncePerAttempt
  BY DEF IInv, TypeOK, RunsLeft, OncePerAttempt
<1>2. QED
  BY <1>1, Invariance, PTL

\* A refused call stops its plan: nothing after it runs, and nothing of a plan
\* that is too long.
THEOREM StopsAtRefusalAlways == Spec => []StopsAtRefusal
<1>1. ASSUME IInv PROVE StopsAtRefusal
  <2>1. ASSUME NEW c \in used
        PROVE  \E j \in 1..Len(plan) :
                 plan[j] = c /\ \A h \in 1..j : plan[h] \in Declared
    <3>1. PICK j \in 1..Len(plan) : j <= i /\ plan[j] = c
      BY <1>1 DEF IInv, Progress
    <3>2. c \in Declared
      BY <1>1 DEF IInv, TypeOK
    <3>3. \A h \in 1..j : plan[h] \in Declared
      <4>1. i \in Nat /\ \A h \in 1..Len(plan) : h < i => plan[h] \in Declared
        BY <1>1 DEF IInv, TypeOK, Progress
      <4>2. \A h \in 1..j : h = j \/ (h \in 1..Len(plan) /\ h < i)
        BY <3>1, <4>1
      <4>3. QED
        BY <3>1, <3>2, <4>1, <4>2
    <3>4. QED
      BY <3>1, <3>3
  <2>2. QED
    BY <1>1, <2>1 DEF IInv, Progress, StopsAtRefusal
<1>2. QED
  BY <1>1, Invariance, PTL

-----------------------------------------------------------------------------
\* What a running attempt has collected: a text for every call made except the
\* one that is running, and the exports of those that are done.
Running == pc = "run"
HasRef(c) == \E j \in Refs : refs[j].call = c

Collected ==
  pc \notin {"failed", "select"} =>
    /\ \A h \in 1..Len(plan) : h < i => plan[h] \in used
    /\ \A c \in used : HasRef(c) \/ (Running /\ c = This)
    /\ \A j \in Refs : refs[j].call \in used /\ ~(Running /\ refs[j].call = This)
    /\ IsFiniteSet(used)
    /\ Cardinality(used) = Len(refs) + (IF Running THEN 1 ELSE 0)
    /\ \A j \in Refs :
         refs[j].exports =>
           refs[j].call \in files \/ (pc = "exports" /\ j = Len(refs))
    /\ \A c \in files : \E j \in Refs : refs[j].exports /\ refs[j].call = c
    /\ pc = "exports" => Len(refs) > 0 /\ refs[Len(refs)].call = This
    /\ pc = "ok" => i = Len(plan) + 1

Fresh == pc = "select" => refs = <<>> /\ files = {}

CInv == IInv /\ Fresh /\ Collected

LEMMA CollectStart ==
  ASSUME CInv, SelectFails \/ Select \/ Retry PROVE Fresh' /\ Collected'
<1>1. CASE SelectFails
  BY <1>1 DEF SelectFails, Fail, Goto, Fresh, Collected
<1>2. CASE Select
  <2>1. PICK n \in 0..MaxCalls : plan' \in [1..n -> Call]
    BY <1>2 DEF Select
  <2>2. Len(plan') = n /\ n \in Nat
    BY <2>1, PlanShape, ToolAssumption
  <2>3. i' = 1 /\ used' = {} /\ refs' = <<>> /\ files' = {} /\ pc' = "call"
    BY <1>2 DEF Select, CInv, IInv, Progress, Fresh, taken, Goto
  <2>4. QED
    BY <2>2, <2>3, FS_EmptySet DEF Fresh, Collected, Refs, Running, HasRef
<1>3. CASE Retry
  BY <1>3 DEF Retry, Goto, Fresh, Collected
<1>4. QED
  BY <1>1, <1>2, <1>3

LEMMA CollectCall ==
  ASSUME CInv, RefuseCall \/ SkipRepeated \/ RunCall \/ CallFails
  PROVE  Fresh' /\ Collected'
<1>1. CASE RefuseCall \/ CallFails
  BY <1>1 DEF RefuseCall, CallFails, Fail, Goto, Fresh, Collected
<1>2. CASE SkipRepeated
  <2>1. /\ pc = "call" /\ pc' = "call" /\ i' = i + 1 /\ plan[i] \in used
        /\ UNCHANGED <<plan, used, refs, files>>
    BY <1>2 DEF SkipRepeated, taken, This
  <2>2. i \in Nat
    BY DEF CInv, IInv, TypeOK
  <2>3. \A h \in 1..Len(plan') : h < i' => plan'[h] \in used'
    BY <2>1, <2>2 DEF CInv, IInv, TypeOK, Collected
  <2>4. QED
    BY <2>1, <2>3 DEF CInv, Fresh, Collected, Refs, Running, HasRef
<1>3. CASE RunCall
  <2>1. /\ used' = used \cup {This} /\ This \notin used /\ pc' = "run"
        /\ UNCHANGED <<refs, files, plan, i>> /\ pc = "call"
    BY <1>3 DEF RunCall, Goto
  <2>2. IsFiniteSet(used) /\ Cardinality(used) = Len(refs) /\ Len(refs) \in Nat
    BY <2>1 DEF CInv, IInv, TypeOK, Collected, Running
  <2>3. /\ IsFiniteSet(used')
        /\ Cardinality(used') = Len(refs') + 1
    BY <2>1, <2>2, FS_AddElement
  <2>4. QED
    BY <2>1, <2>3 DEF CInv, Fresh, Collected, This, Refs, Running, HasRef
<1>4. QED
  BY <1>1, <1>2, <1>3

LEMMA CollectResult ==
  ASSUME CInv,
         (\E n \in 0..MaxText : KeepContext(n)) \/ RefuseExports \/ KeepExports
  PROVE  Fresh' /\ Collected'
<1>1. ASSUME NEW n \in 0..MaxText, KeepContext(n) PROVE Fresh' /\ Collected'
  <2>1. PICK m \in Excerpts(n), exports \in BOOLEAN :
          refs' = Append(refs, [call |-> This, full |-> n, excerpt |-> m,
                                cut |-> n > remaining, exports |-> exports])
    BY <1>1 DEF KeepContext
  <2>2. /\ pc = "run" /\ pc' = "exports"
        /\ UNCHANGED <<plan, i, used, files>>
    BY <1>1 DEF KeepContext, Goto
  <2>3. This \in used /\ Len(refs) \in Nat /\ refs \in Seq(Ref)
    BY <2>2 DEF CInv, IInv, TypeOK, Progress, Busy
  <2>4. /\ Len(refs') = Len(refs) + 1
        /\ \A j \in 1..Len(refs) : refs'[j] = refs[j]
        /\ refs'[Len(refs) + 1].call = This
    BY <2>1, <2>3
  <2>5. Refs' = Refs \cup {Len(refs) + 1}
    BY <2>3, <2>4 DEF Refs
  <2>6. \A c \in used' : HasRef(c)'
    BY <2>2, <2>4, <2>5 DEF CInv, Collected, HasRef, Refs, Running
  <2>7. \A j \in Refs' : refs'[j].call \in used'
    BY <2>2, <2>3, <2>4, <2>5 DEF CInv, Collected, Refs
  <2>8. Cardinality(used') = Len(refs') /\ IsFiniteSet(used')
    BY <2>2, <2>4 DEF CInv, Collected, Running
  <2>9. \A j \in Refs' :
          refs'[j].exports => refs'[j].call \in files' \/ j = Len(refs')
    BY <2>2, <2>3, <2>4, <2>5 DEF CInv, Collected, Refs
  <2>10. \A c \in files' : \E j \in Refs' : refs'[j].exports /\ refs'[j].call = c
    BY <2>2, <2>4, <2>5 DEF CInv, Collected, Refs
  <2>11. QED
    BY <2>2, <2>3, <2>4, <2>6, <2>7, <2>8, <2>9, <2>10
    DEF CInv, Fresh, Collected, Running, This
<1>2. CASE RefuseExports
  BY <1>2 DEF RefuseExports, Fail, Goto, Fresh, Collected
<1>3. CASE KeepExports
  <2>1. /\ pc = "exports" /\ pc' = "call" /\ i' = i + 1
        /\ files' = IF LastExports THEN files \cup {This} ELSE files
        /\ UNCHANGED <<plan, used, refs>>
    BY <1>3 DEF KeepExports, Goto
  <2>2. /\ Len(refs) > 0 /\ refs[Len(refs)].call = This /\ Len(refs) \in Refs
        /\ This \in used /\ i \in Nat
    BY <2>1 DEF CInv, IInv, TypeOK, Progress, Busy, Collected, Refs
  <2>3. \A h \in 1..Len(plan') : h < i' => plan'[h] \in used'
    <3>1. \A h \in 1..Len(plan) : h < i => plan[h] \in used
      BY <2>1 DEF CInv, Collected
    <3>2. \A h \in 1..Len(plan) : h < i + 1 => h < i \/ h = i
      BY <2>2
    <3>3. plan[i] \in used
      BY <2>2 DEF This
    <3>4. QED
      BY <2>1, <3>1, <3>2, <3>3
  <2>4. \A j \in Refs' : refs'[j].exports => refs'[j].call \in files'
    BY <2>1, <2>2 DEF CInv, Collected, Refs, LastExports
  <2>5. \A c \in files' : \E j \in Refs' : refs'[j].exports /\ refs'[j].call = c
    <3>1. Refs' = Refs /\ refs' = refs
      BY <2>1 DEF Refs
    <3>2. \A c \in files : \E j \in Refs : refs[j].exports /\ refs[j].call = c
      BY <2>1 DEF CInv, Collected
    <3>3. \A c \in files' \ files : c = This /\ refs[Len(refs)].exports
      BY <2>1 DEF LastExports
    <3>4. QED
      BY <2>2, <3>1, <3>2, <3>3
  <2>6. QED
    BY <2>1, <2>3, <2>4, <2>5 DEF CInv, Fresh, Collected, Running, HasRef, Refs
<1>4. QED
  BY <1>1, <1>2, <1>3

LEMMA CollectFinish ==
  ASSUME CInv, Finish \/ UNCHANGED vars PROVE Fresh' /\ Collected'
<1>1. CASE Finish
  BY <1>1
  DEF Finish, Goto, taken, CInv, Fresh, Collected, This, Refs, Running, HasRef
<1>2. CASE UNCHANGED vars
  BY <1>2
  DEF vars, taken, CInv, Fresh, Collected, This, Refs, Running, HasRef
<1>3. QED
  BY <1>1, <1>2

LEMMA CollectInvariance == Spec => []CInv
<1>1. Init => CInv
  BY InitInv DEF Init, CInv, Fresh, Collected
<1>2. ASSUME CInv, [Next]_vars PROVE CInv'
  <2>1. IInv'
    BY <1>2, SelectInv, CallInv, ResultInv, FinishInv DEF Next, CInv
  <2>2. Fresh' /\ Collected'
    BY <1>2, CollectStart, CollectCall, CollectResult, CollectFinish DEF Next
  <2>3. QED
    BY <2>1, <2>2 DEF CInv
<1>3. QED
  BY <1>1, <1>2, PTL DEF Spec

\* The model is given tool results only for the whole plan: one text per call,
\* and the exports that came with it.
THEOREM WholePlanAlways == Spec => []WholePlan
<1>1. ASSUME CInv PROVE WholePlan
  <2> SUFFICES ASSUME pc = "ok"
               PROVE  /\ {refs[j].call : j \in Refs} = {plan[j] : j \in 1..Len(plan)}
                      /\ Len(refs) = Cardinality(used)
                      /\ files = {refs[j].call : j \in {h \in Refs : refs[h].exports}}
    BY DEF WholePlan
  <2>1. {plan[j] : j \in 1..Len(plan)} = used
    <3>1. \A h \in 1..Len(plan) : plan[h] \in used
      BY <1>1 DEF CInv, IInv, TypeOK, Collected
    <3>2. \A c \in used : \E j \in 1..Len(plan) : plan[j] = c
      BY <1>1 DEF CInv, IInv, Progress
    <3>3. QED
      BY <3>1, <3>2
  <2>2. {refs[j].call : j \in Refs} = used
    BY <1>1 DEF CInv, Collected, Running, HasRef
  <2>3. Len(refs) = Cardinality(used)
    BY <1>1 DEF CInv, IInv, TypeOK, Collected, Running
  <2>4. files = {refs[j].call : j \in {h \in Refs : refs[h].exports}}
    BY <1>1 DEF CInv, Collected
  <2>5. QED
    BY <2>1, <2>2, <2>3, <2>4
<1>2. QED
  BY <1>1, CollectInvariance, PTL
-----------------------------------------------------------------------------
(* the budget *)

IsCut == \E j \in Refs : refs[j].cut

\* Before the first cut everything offered has been kept and charged; from then
\* on nothing of the budget is left but what a note or a character took.
Balance ==
  /\ Excerpted + remaining <= MaxToolContext
  /\ ~IsCut => Excerpted = Offered /\ Excerpted + remaining = MaxToolContext
  /\ IsCut => Offered > MaxToolContext /\ Excerpted + Trim >= MaxToolContext

BInv == IInv /\ Fresh /\ Balance

LEMMA NoRefs == ASSUME refs = <<>> PROVE Excerpted = 0 /\ Offered = 0 /\ ~IsCut
<1>1. Refs = {}
  BY DEF Refs
<1>2. QED
  BY <1>1, SumEmpty DEF Excerpted, Offered, SumFunction, IsCut

LEMMA RefSizes ==
  ASSUME NEW s \in Seq(Ref), NEW j \in 1..Len(s)
  PROVE  s[j].excerpt \in Nat /\ s[j].full \in Nat
<1>1. s[j] \in Ref
  OBVIOUS
<1>2. QED
  BY <1>1 DEF Ref

LEMMA Sizes ==
  ASSUME refs \in Seq(Ref)
  PROVE  Excerpted \in Nat /\ Offered \in Nat
<1> DEFINE f == [j \in Refs |-> refs[j].excerpt]
           g == [j \in Refs |-> refs[j].full]
<1>1. IsFiniteSet(Refs)
  BY FS_Interval DEF Refs
<1>2. \A j \in Refs : refs[j].excerpt \in Nat /\ refs[j].full \in Nat
  BY RefSizes DEF Refs
<1>3. Summable(f, Refs) /\ Summable(g, Refs)
  BY <1>2 DEF Summable
<1>4. QED
  BY <1>1, <1>3, SumType DEF Excerpted, Offered, SumFunction

LEMMA OneMoreRef ==
  ASSUME refs \in Seq(Ref), NEW r \in Ref, refs' = Append(refs, r)
  PROVE  /\ Excerpted' = Excerpted + r.excerpt
         /\ Offered' = Offered + r.full
         /\ IsCut' <=> IsCut \/ r.cut
<1> DEFINE n == Len(refs)
<1>1. n \in Nat /\ refs' \in Seq(Ref) /\ Len(refs') = n + 1
      /\ refs'[n + 1] = r /\ \A j \in 1..n : refs'[j] = refs[j]
  OBVIOUS
<1>2. Refs = 1..n /\ Refs' = 1..(n + 1)
  BY <1>1 DEF Refs
<1>3. Excerpted' = Excerpted + r.excerpt
  <2> DEFINE f == [j \in 1..n |-> refs[j].excerpt]
             g == [j \in 1..(n + 1) |-> refs'[j].excerpt]
  <2>1. Summable(g, 1..(n + 1)) /\ \A j \in 1..n : f[j] = g[j]
    <3>1. \A j \in 1..(n + 1) : refs'[j].excerpt \in Nat
      <4>1. \A j \in 1..(n + 1) : refs'[j] \in Ref
        BY <1>1
      <4>2. QED
        BY <4>1 DEF Ref
    <3>2. \A j \in 1..n : j \in 1..(n + 1) /\ refs'[j] = refs[j]
      BY <1>1
    <3>3. Summable(g, 1..(n + 1))
      BY <1>1, <3>1 DEF Summable
    <3>4. QED
      BY <3>2, <3>3
  <2>2. g[n + 1] = r.excerpt
    BY <1>1
  <2>3. Excerpted = SumFunction(f) /\ Excerpted' = SumFunction(g)
    BY <1>2 DEF Excerpted
  <2> HIDE DEF n
  <2>4. DOMAIN f = 1..n /\ DOMAIN g = 1..(n + 1)
    OBVIOUS
  <2> HIDE DEF f, g
  <2>5. QED
    BY <1>1, <2>1, <2>2, <2>3, <2>4, SumAppend
<1>4. Offered' = Offered + r.full
  <2> DEFINE f == [j \in 1..n |-> refs[j].full]
             g == [j \in 1..(n + 1) |-> refs'[j].full]
  <2>1. Summable(g, 1..(n + 1)) /\ \A j \in 1..n : f[j] = g[j]
    <3>1. \A j \in 1..(n + 1) : refs'[j].full \in Nat
      <4>1. \A j \in 1..(n + 1) : refs'[j] \in Ref
        BY <1>1
      <4>2. QED
        BY <4>1 DEF Ref
    <3>2. \A j \in 1..n : j \in 1..(n + 1) /\ refs'[j] = refs[j]
      BY <1>1
    <3>3. Summable(g, 1..(n + 1))
      BY <1>1, <3>1 DEF Summable
    <3>4. QED
      BY <3>2, <3>3
  <2>2. g[n + 1] = r.full
    BY <1>1
  <2>3. Offered = SumFunction(f) /\ Offered' = SumFunction(g)
    BY <1>2 DEF Offered
  <2> HIDE DEF n
  <2>4. DOMAIN f = 1..n /\ DOMAIN g = 1..(n + 1)
    OBVIOUS
  <2> HIDE DEF f, g
  <2>5. QED
    BY <1>1, <2>1, <2>2, <2>3, <2>4, SumAppend
<1>5. IsCut' <=> IsCut \/ r.cut
  BY <1>1, <1>2 DEF IsCut
<1>6. QED
  BY <1>3, <1>4, <1>5

\* A text that fits is charged in full; one that does not uses up the budget.
LEMMA KeepBalance ==
  ASSUME IInv, Balance, NEW n \in 0..MaxText, KeepContext(n) PROVE Balance'
<1>1. PICK m \in Excerpts(n), exports \in BOOLEAN :
        /\ refs' = Append(refs, [call |-> This, full |-> n, excerpt |-> m,
                                 cut |-> n > remaining, exports |-> exports])
        /\ Charge(IF n > remaining THEN m + Note ELSE m)
  BY DEF KeepContext
<1>2. n \in Nat /\ m \in Nat /\ remaining \in Nat /\ This \in Call
  BY <1>1, ToolAssumption
  DEF Excerpts, KeepContext, IInv, TypeOK, Progress, Busy, This
<1> DEFINE r == [call |-> This, full |-> n, excerpt |-> m,
                 cut |-> n > remaining, exports |-> exports]
<1>3. r \in Ref /\ r.full = n /\ r.excerpt = m
  BY <1>2 DEF Ref
<1>4. r.cut <=> n > remaining
  OBVIOUS
<1>5. refs \in Seq(Ref)
  BY DEF IInv, TypeOK
<1>6. /\ Excerpted' = Excerpted + m
      /\ Offered' = Offered + n
      /\ IsCut' <=> IsCut \/ n > remaining
  <2> HIDE DEF r
  <2>1. refs' = Append(refs, r)
    BY <1>1 DEF r
  <2>2. QED
    BY <1>3, <1>4, <1>5, <2>1, OneMoreRef
<1>7. Excerpted \in Nat /\ Offered \in Nat
  BY <1>5, Sizes
<1>8. CASE n <= remaining
  <2>1. m = n /\ remaining' = remaining - n
    BY <1>1, <1>2, <1>8 DEF Excerpts, Charge, Least
  <2>2. IsCut' <=> IsCut
    BY <1>2, <1>6, <1>8
  <2>3. QED
    BY <1>2, <1>6, <1>7, <2>1, <2>2, ToolAssumption DEF Balance
<1>9. CASE n > remaining
  <2>1. m <= remaining /\ m + Trim >= remaining /\ remaining' = 0
    BY <1>1, <1>2, <1>9, ToolAssumption DEF Excerpts, Charge, Least
  <2>2. IsCut'
    BY <1>6, <1>9
  <2>3. QED
    BY <1>2, <1>6, <1>7, <1>9, <2>1, <2>2, ToolAssumption DEF Balance
<1>10. QED
  BY <1>2, <1>8, <1>9

LEMMA BalanceStep == ASSUME BInv, [Next]_vars PROVE Fresh' /\ Balance'
<1>1. CASE UNCHANGED <<refs, remaining, files>> /\ (pc' = "select" => pc = "select")
  BY <1>1
  DEF BInv, Fresh, Balance, IsCut, Excerpted, Offered, Refs
<1>2. ASSUME NEW n \in 0..MaxText, KeepContext(n) PROVE Fresh' /\ Balance'
  BY <1>2, KeepBalance DEF BInv, KeepContext, Goto, Fresh
<1>3. CASE KeepExports
  <2>1. UNCHANGED <<refs, remaining>> /\ pc' = "call"
    BY <1>3 DEF KeepExports, Goto
  <2>2. QED
    BY <2>1 DEF BInv, Fresh, Balance, IsCut, Excerpted, Offered, Refs
<1>4. CASE Retry
  <2>1. refs' = <<>> /\ files' = {} /\ remaining' = MaxToolContext
    BY <1>4 DEF Retry
  <2>2. Refs' = {}
    BY <2>1 DEF Refs
  <2>3. Excerpted' = 0 /\ Offered' = 0 /\ ~IsCut'
    BY <2>2, SumEmpty DEF Excerpted, Offered, SumFunction, IsCut
  <2>4. QED
    BY <2>1, <2>3, ToolAssumption DEF Fresh, Balance
<1>5. QED
  BY <1>1, <1>2, <1>3, <1>4
  DEF Next, SelectFails, Select, RefuseCall, SkipRepeated, RunCall, CallFails,
      RefuseExports, Finish, Fail, Goto, taken, vars

LEMMA BalanceInvariance == Spec => []BInv
<1>1. Init => BInv
  <2> SUFFICES ASSUME Init PROVE BInv
    OBVIOUS
  <2>1. refs = <<>> /\ files = {} /\ remaining = MaxToolContext
    BY DEF Init
  <2>2. QED
    BY <2>1, InitInv, NoRefs, ToolAssumption DEF BInv, Fresh, Balance
<1>2. ASSUME BInv, [Next]_vars PROVE BInv'
  <2>1. IInv'
    BY <1>2, SelectInv, CallInv, ResultInv, FinishInv DEF Next, BInv
  <2>2. QED
    BY <1>2, <2>1, BalanceStep DEF BInv
<1>3. QED
  BY <1>1, <1>2, PTL DEF Spec

\* collectTools keeps the reference texts together within MaxToolContext, for
\* any number of results of any size in any order.
THEOREM BudgetKeptAlways == Spec => []BudgetKept
<1>1. ASSUME BInv PROVE BudgetKept
  BY <1>1, Sizes, ToolAssumption DEF BInv, IInv, TypeOK, Balance, BudgetKept
<1>2. QED
  BY <1>1, BalanceInvariance, PTL

\* collectTools cuts a text only when all of them together do not fit, and then
\* leaves no more of the budget unused than an incomplete character takes.
THEOREM CutOnlyWhenFullAlways == Spec => []CutOnlyWhenFull
<1>1. BInv => CutOnlyWhenFull
  BY DEF BInv, Balance, IsCut, CutOnlyWhenFull
<1>2. QED
  BY <1>1, BalanceInvariance, PTL
=============================================================================
