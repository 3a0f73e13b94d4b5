----------------------------- MODULE ToolCalls ------------------------------
(***************************************************************************)
(* collectTools, and the retries that repeat it: the model selects calls   *)
(* from the catalog once per attempt; each call is checked, run at most    *)
(* once and its reference text cut to what is left of a shared budget.     *)
(* Any refusal or failure ends the attempt, and the next attempt starts    *)
(* over with a new plan.  Texts are represented by their length.           *)
(***************************************************************************)
EXTENDS Naturals, FiniteSets, Functions, Sequences

CONSTANTS
  Call,               \* calls a plan can name: a tool and its arguments
  Declared,           \* those of a configured tool, with its declared inputs
  MaxToolContext,     \* cfg.MaxToolContext
  Note,               \* length of the truncation note
  Trim,               \* bytes an incomplete last character can take
  MaxCalls,           \* calls allowed in a plan
  MaxAttempts,        \* cfg.MaxAttempts
  MaxText             \* bound: lengths of the contexts tools return

ASSUME ToolAssumption ==
  /\ Declared \subseteq Call
  /\ MaxToolContext \in Nat \ {0}
  /\ Trim \in Nat /\ Note \in Nat /\ Trim <= Note
  /\ MaxCalls \in Nat /\ MaxAttempts \in Nat \ {0} /\ MaxText \in Nat

VARIABLES
  attempt,            \* the attempt at the message that is running
  pc,
  plan,               \* selected.Calls
  i,                  \* the call being handled
  used,               \* calls made in this attempt
  remaining,          \* what is left of the budget
  refs,               \* the reference text collected, call by call
  files,              \* the calls whose exports will be attached
  runs                \* history: how often each call's command has run

taken == <<used, remaining, refs, files>>
vars == <<attempt, pc, plan, i, taken, runs>>

Ref == [call : Call, full : Nat, excerpt : Nat, cut : BOOLEAN, exports : BOOLEAN]

Least(m, n) == IF m < n THEN m ELSE n

TypeOK ==
  /\ attempt \in 1..MaxAttempts
  /\ pc \in {"select", "call", "run", "exports", "failed", "ok"}
  /\ plan \in Seq(Call)
  /\ i \in 1..Len(plan) + 1
  /\ used \subseteq Declared
  /\ remaining \in 0..MaxToolContext
  /\ refs \in Seq(Ref)
  /\ files \subseteq used
  /\ runs \in [Call -> 0..MaxAttempts]

Init ==
  /\ attempt = 1
  /\ pc = "select"
  /\ plan = <<>> /\ i = 1
  /\ used = {} /\ remaining = MaxToolContext /\ refs = <<>> /\ files = {}
  /\ runs = [c \in Call |-> 0]

Goto(step) == pc' = step

\* collectTools returns an error: processMessage fails with it.
Fail == Goto("failed")

-----------------------------------------------------------------------------
\* Listing the docsets, asking the model or reading its plan fails, or the plan
\* is too long.
SelectFails ==
  /\ pc = "select"
  /\ \/ UNCHANGED plan
     \/ plan' \in [1..MaxCalls + 1 -> Call]
  /\ Fail
  /\ UNCHANGED <<attempt, i, taken, runs>>

\* The model's plan: configured tools or not, declared inputs or not.
Select ==
  /\ pc = "select"
  /\ \E n \in 0..MaxCalls : plan' \in [1..n -> Call]
  /\ Goto("call")
  /\ UNCHANGED <<attempt, i, taken, runs>>

This == plan[i]

\* Mutant of RefuseCall: a call that is not declared is passed over.
RefusePassesOver ==
  /\ pc = "call"
  /\ i <= Len(plan)
  /\ This \notin Declared
  /\ i' = i + 1
  /\ UNCHANGED <<attempt, pc, plan, taken, runs>>

\* An unconfigured tool, or inputs other than the declared ones.
RefuseCall ==
  /\ pc = "call"
  /\ i <= Len(plan)
  /\ This \notin Declared
  /\ Fail
  /\ UNCHANGED <<attempt, plan, i, taken, runs>>

SkipRepeated ==
  /\ pc = "call"
  /\ i <= Len(plan)
  /\ This \in used
  /\ i' = i + 1
  /\ UNCHANGED <<attempt, pc, plan, taken, runs>>

\* Mutant of RunCall: a call is recognised only right after itself.
RunForgets ==
  /\ pc = "call"
  /\ i <= Len(plan)
  /\ This \in Declared \ used
  /\ used' = {This}
  /\ runs' = [runs EXCEPT ![This] = @ + 1]
  /\ Goto("run")
  /\ UNCHANGED <<attempt, plan, i, remaining, refs, files>>

RunCall ==
  /\ pc = "call"
  /\ i <= Len(plan)
  /\ This \in Declared \ used
  /\ used' = used \cup {This}
  /\ runs' = [runs EXCEPT ![This] = @ + 1]
  /\ Goto("run")
  /\ UNCHANGED <<attempt, plan, i, remaining, refs, files>>

\* Mutant of CallFails: a failing tool is left out.
CallFailsSoftly ==
  /\ pc = "run"
  /\ i' = i + 1
  /\ Goto("call")
  /\ UNCHANGED <<attempt, plan, taken, runs>>

\* captureCommand fails, or its output is not the JSON of a result.
CallFails ==
  /\ pc = "run"
  /\ Fail
  /\ UNCHANGED <<attempt, plan, i, taken, runs>>

\* Mutant of Charge: what is kept is not taken off the budget.
ChargeNothing(kept) == remaining' = remaining

\* Mutant of Charge: the budget goes below zero.
ChargeBelowZero(kept) == remaining' = remaining - kept

\* The budget left is never negative, though the note may not fit in it.
Charge(kept) == remaining' = remaining - Least(remaining, kept)

\* Mutant of Excerpts: the context is cut one byte short of the budget.
ExcerptsShort(n) ==
  IF n > remaining
  THEN {m \in 0..remaining : m < remaining /\ m + Trim + 1 >= remaining}
  ELSE {n}

\* The lengths to which a context of length n can be cut: to the budget, less
\* an incomplete last character.
Excerpts(n) ==
  IF n > remaining THEN {m \in 0..remaining : m + Trim >= remaining} ELSE {n}

\* The command returns a context of length n; a cut one gets a note.
KeepContext(n) ==
  /\ pc = "run"
  /\ \E m \in Excerpts(n), exports \in BOOLEAN :
       /\ refs' = Append(refs, [call |-> This, full |-> n, excerpt |-> m,
                                cut |-> n > remaining, exports |-> exports])
       /\ Charge(IF n > remaining THEN m + Note ELSE m)
  /\ Goto("exports")
  /\ UNCHANGED <<attempt, plan, i, used, files, runs>>

LastExports == refs[Len(refs)].exports

\* An export without a plain .md or .org name, or not in UTF-8.
RefuseExports ==
  /\ pc = "exports"
  /\ LastExports
  /\ Fail
  /\ UNCHANGED <<attempt, plan, i, taken, runs>>

KeepExports ==
  /\ pc = "exports"
  /\ files' = IF LastExports THEN files \cup {This} ELSE files
  /\ i' = i + 1
  /\ Goto("call")
  /\ UNCHANGED <<attempt, plan, used, remaining, refs, runs>>

\* Without a single text the model is told that no tool was selected.
Finish ==
  /\ pc = "call"
  /\ i = Len(plan) + 1
  /\ Goto("ok")
  /\ UNCHANGED <<attempt, plan, i, taken, runs>>

\* The pipeline failed, here or at a later stage: runCycle tries it again.
Retry ==
  /\ pc \in {"failed", "ok"}
  /\ attempt < MaxAttempts
  /\ attempt' = attempt + 1
  /\ Goto("select")
  /\ plan' = <<>> /\ i' = 1
  /\ used' = {} /\ remaining' = MaxToolContext /\ refs' = <<>> /\ files' = {}
  /\ UNCHANGED runs

Next ==
  \/ SelectFails \/ Select
  \/ RefuseCall \/ SkipRepeated \/ RunCall
  \/ CallFails \/ (\E n \in 0..MaxText : KeepContext(n))
  \/ RefuseExports \/ KeepExports
  \/ Finish \/ Retry

Spec == Init /\ [][Next]_vars

-----------------------------------------------------------------------------
Refs == 1..Len(refs)

Excerpted == SumFunction([j \in Refs |-> refs[j].excerpt])
Offered == SumFunction([j \in Refs |-> refs[j].full])

\* The reference texts together, notes aside, stay within the budget; whatever
\* the order and sizes of the results.
BudgetKept == Excerpted <= MaxToolContext

\* Nothing is cut that would have fit, and a cut leaves no more than part of a
\* character of the budget unused.
CutOnlyWhenFull ==
  (\E j \in Refs : refs[j].cut) =>
    /\ Offered > MaxToolContext
    /\ Excerpted + Trim >= MaxToolContext

\* However often a plan repeats a call, its command has run no more often than
\* there were attempts at the message.
OncePerAttempt == \A c \in Call : runs[c] <= attempt

\* A plan runs up to its first undeclared call and no further: no command runs
\* after a refusal, and none of a plan that is too long.
StopsAtRefusal ==
  /\ Len(plan) > MaxCalls => used = {}
  /\ \A c \in used :
       \E j \in 1..Len(plan) :
         plan[j] = c /\ \A h \in 1..j : plan[h] \in Declared

\* The model is given tool results only for the whole plan: one text for each
\* call, and the exports that came with it.
WholePlan ==
  pc = "ok" =>
    /\ {refs[j].call : j \in Refs} = {plan[j] : j \in 1..Len(plan)}
    /\ Len(refs) = Cardinality(used)
    /\ files = {refs[j].call : j \in {h \in Refs : refs[h].exports}}
=============================================================================
