--------------------------- MODULE InvocationProofs --------------------------
(***************************************************************************)
(* Proofs about a run of the program and its components: ReplyPipeline     *)
(* and ReplyHeaders, for any messages, settings, extraction of bodies,     *)
(* pages and exports; DocsetExport, for any docset; ConfigLayers'          *)
(* precedence, for any command line; MaildirScan, for any file system;     *)
(* MimeWalk, for any parts and limits; and last Invocation and             *)
(* MessageReading, which put them together.                                *)
(***************************************************************************)
EXTENDS MessageReading, DataTheorems

\* The stages an attempt reaches once its sender and recipients are settled,
\* and once its contents are too.
Admitted == {"extract", "fetch", "tools", "ask", "send", "taken"}
Settled == Admitted \ {"extract"}

\* What each stage can rely on, and the first that may have asked anything of
\* the outside.
Passed ==
  /\ pc \in {"idle", "sender"} \cup Admitted
  /\ pc \in Admitted => Welcome(msg, cfg) /\ RecipientsOf(msg, cfg) # <<>>
  /\ pc \in Settled => Extract(msg.mime).ok /\ ~Empty(msg)
  /\ effects # {} => pc \in Settled

LEMMA InitPassed == ASSUME PipelineInit PROVE Passed
BY DEF PipelineInit, Passed, Admitted, Settled

\* An attempt that returns has nothing more to rely on.
LEMMA FinishPassed == ASSUME NEW result, Finish(result) PROVE Passed'
BY DEF Finish, Passed, Admitted, Settled

LEMMA NextPassed == ASSUME Passed, [PipelineNext]_vars PROVE Passed'
<1> USE DEF Passed, Admitted, Settled
<1>1. ASSUME NEW m \in Message, Begin(m) PROVE Passed'
  BY <1>1 DEF Begin, Goto
<1>2. CASE Address
  BY <1>2 DEF Address, Goto
<1>3. CASE KeepBody
  BY <1>3 DEF KeepBody, Got, Goto, Empty
<1>4. CASE FetchPage \/ BuildPrompt
  BY <1>4 DEF FetchPage, BuildPrompt, Goto
<1>5. ASSUME NEW refs \in BOOLEAN, NEW exports, CallTools(refs, exports) PROVE Passed'
  BY <1>5 DEF CallTools, Goto
<1>6. CASE AskModel \/ SenderTakes
  BY <1>6 DEF AskModel, SenderTakes, Goto
<1>7. CASE \/ ReadFails \/ SkipSender \/ AddressFails \/ ExtractFails \/ SkipEmpty
           \/ FetchFails \/ ToolsFail \/ AskFails \/ SendFails \/ Delivered
  BY <1>7, FinishPassed
  DEF ReadFails, SkipSender, AddressFails, ExtractFails, SkipEmpty, FetchFails,
      ToolsFail, AskFails, SendFails, Delivered
<1>8. CASE UNCHANGED vars
  BY <1>8 DEF vars
<1>9. QED
  BY <1>1, <1>2, <1>3, <1>4, <1>5, <1>6, <1>7, <1>8 DEF PipelineNext, Attempt

LEMMA PassedAlways == PipelineSpec => []Passed
BY InitPassed, NextPassed, PTL DEF PipelineSpec

\* Nothing is asked of the outside for a message that gets no reply.
THEOREM QuietUnlessAnswerableAlways == PipelineSpec => []QuietUnlessAnswerable
<1>1. Passed => QuietUnlessAnswerable
  BY DEF Passed, QuietUnlessAnswerable, Answerable, Admitted, Settled
<1>2. QED
  BY <1>1, PassedAlways, PTL

-----------------------------------------------------------------------------
(* instructions *)

ToolPart == IF work.refs THEN {"tools"} ELSE {}
FilePart == IF work.files # <<>> \/ work.notes # <<>> THEN {"attachments"} ELSE {}
WebPart == IF work.pages # <<>> THEN {"web"} ELSE {}

\* The instructions collected so far are those for the texts collected so far.
Instructed ==
  /\ work = [to |-> work.to, thread |-> work.thread, body |-> work.body,
             files |-> work.files, notes |-> work.notes, pages |-> work.pages,
             excerpts |-> work.excerpts, refs |-> work.refs,
             exports |-> work.exports, reply |-> work.reply]
  /\ pc \in {"sender", "extract", "fetch", "tools"} => system = {}
  /\ pc = "ask" => system = ToolPart \cup FilePart
  /\ Replying => system = WebPart \cup ToolPart \cup FilePart

LEMMA InitInstructed == ASSUME PipelineInit PROVE Instructed
BY DEF PipelineInit, Instructed, Nothing, Replying

LEMMA FinishInstructed == ASSUME NEW result, Finish(result) PROVE Instructed'
BY DEF Finish, Instructed, Nothing, Replying

LEMMA NextInstructed ==
  ASSUME Instructed, [PipelineNext]_vars PROVE Instructed'
<1> USE DEF Instructed, Replying
<1>1. ASSUME NEW m \in Message, Begin(m) PROVE Instructed'
  BY <1>1 DEF Begin, Goto
<1>2. CASE Address \/ KeepBody \/ FetchPage \/ BuildPrompt
  BY <1>2 DEF Address, KeepBody, FetchPage, BuildPrompt, Goto
<1>3. ASSUME NEW refs \in BOOLEAN, NEW exports, CallTools(refs, exports)
      PROVE Instructed'
  BY <1>3 DEF CallTools, Goto, ToolPart, FilePart
<1>4. CASE AskModel
  BY <1>4 DEF AskModel, Goto, ToolPart, FilePart, WebPart
<1>5. CASE SenderTakes
  BY <1>5 DEF SenderTakes, Goto, ToolPart, FilePart, WebPart
<1>6. CASE \/ ReadFails \/ SkipSender \/ AddressFails \/ ExtractFails \/ SkipEmpty
           \/ FetchFails \/ ToolsFail \/ AskFails \/ SendFails \/ Delivered
  BY <1>6, FinishInstructed
  DEF ReadFails, SkipSender, AddressFails, ExtractFails, SkipEmpty, FetchFails,
      ToolsFail, AskFails, SendFails, Delivered
<1>7. CASE UNCHANGED vars
  BY <1>7 DEF vars, ToolPart, FilePart, WebPart
<1>8. QED
  BY <1>1, <1>2, <1>3, <1>4, <1>5, <1>6, <1>7 DEF PipelineNext, Attempt

\* The model gets the instructions for the texts in its prompt and no others.
THEOREM OwnInstructionsAlways == PipelineSpec => []OwnInstructions
<1>1. Instructed => OwnInstructions
  BY DEF Instructed, OwnInstructions, ToolPart, FilePart, WebPart
<1>2. QED
  BY <1>1, InitInstructed, NextInstructed, PTL DEF PipelineSpec

-----------------------------------------------------------------------------
(* the refinement *)

LEMMA AttemptStep ==
  ASSUME Passed, [PipelineNext]_vars
  PROVE  [Abstract!AttemptNext]_(Abstract!attemptVars)
<1> USE DEF Passed, Admitted, Settled
<1>1. ASSUME NEW m \in Message, Begin(m) PROVE Abstract!Start
  BY <1>1 DEF Begin, Goto, Abstract!Start
<1>2. CASE Address \/ KeepBody \/ FetchPage \/ BuildPrompt \/ AskModel
  BY <1>2 DEF Address, KeepBody, FetchPage, BuildPrompt, AskModel, Goto,
     Abstract!attemptVars
<1>3. ASSUME NEW refs \in BOOLEAN, NEW exports, CallTools(refs, exports)
      PROVE  UNCHANGED Abstract!attemptVars
  BY <1>3 DEF CallTools, Goto, Abstract!attemptVars
<1>4. CASE SkipSender
  BY <1>4
  DEF SkipSender, Finish, Skipped, Abstract!Archive, Abstract!End,
      Abstract!AttemptNext
<1>5. CASE SkipEmpty
  BY <1>5
  DEF SkipEmpty, Got, Finish, Skipped, Welcome, Abstract!Archive, Abstract!End,
      Abstract!AttemptNext
<1>6. CASE SenderTakes
  <2>1. ~Skipped(msg, cfg)
    BY <1>6 DEF SenderTakes, Skipped
  <2>2. QED
    BY <1>6, <2>1 DEF SenderTakes, Goto, Abstract!Take, Abstract!AttemptNext
<1>7. CASE Delivered
  BY <1>7 DEF Delivered, Finish, Abstract!Deliver, Abstract!End,
     Abstract!AttemptNext
<1>8. CASE \/ ReadFails \/ AddressFails \/ ExtractFails \/ FetchFails
           \/ ToolsFail \/ AskFails \/ SendFails
  BY <1>8
  DEF ReadFails, AddressFails, ExtractFails, FetchFails, ToolsFail, AskFails,
      SendFails, Finish, Abstract!GiveUp, Abstract!End,
      Abstract!AttemptNext
<1>9. CASE UNCHANGED vars
  BY <1>9 DEF vars, Abstract!attemptVars
<1>10. QED
  BY <1>1, <1>2, <1>3, <1>4, <1>5, <1>6, <1>7, <1>8, <1>9
  DEF PipelineNext, Attempt, Abstract!AttemptNext

\* processMessage keeps what runCycle relies on: a message is archived without a
\* reply only if it is one to skip, and a delivery is reported only for a reply
\* that was taken.
THEOREM ImplementsAttemptAlways == PipelineSpec => ImplementsAttempt
<1>1. PipelineInit => Abstract!AttemptInit
  BY DEF PipelineInit, Abstract!AttemptInit
<1>2. QED
  BY <1>1, AttemptStep, PassedAlways, PTL
  DEF PipelineSpec, ImplementsAttempt, Abstract!AttemptSpec
-----------------------------------------------------------------------------
(* what Distinct collects *)

AddNew(kept, x, usable, key) ==
  IF x \in usable /\ key[x] \notin {key[y] : y \in ToSet(kept)}
  THEN Append(kept, x) ELSE kept

\* The recursive function inside Distinct.
IsAdding(g, s, usable, key) ==
  g = [d \in SUBSET DOMAIN s |->
         IF d = {} THEN <<>>
         ELSE AddNew(g[d \ {Max(d)}], s[Max(d)], usable, key)]

Adding(s, usable, key) == CHOOSE g : IsAdding(g, s, usable, key)

LEMMA DistinctIsAdding ==
  \A s, usable, key : Distinct(s, usable, key) = Adding(s, usable, key)[DOMAIN s]
BY DEF Distinct, FoldLeft, MapThenFoldSet, Adding, IsAdding, AddNew

LEMMA AddingStep ==
  ASSUME NEW D, NEW s \in Seq(D), NEW usable, NEW key
  PROVE  /\ Adding(s, usable, key)[1..0] = <<>>
         /\ \A k \in 1..Len(s) :
              Adding(s, usable, key)[1..k]
                = AddNew(Adding(s, usable, key)[1..(k - 1)], s[k], usable, key)
<1> DEFINE n == Len(s)
           step == [i \in 1..n |-> [v \in Seq(D) |-> AddNew(v, s[i], usable, key)]]
<1>1. n \in Nat /\ DOMAIN s = 1..n /\ \A i \in 1..n : s[i] \in D
  OBVIOUS
<1>2. step \in [1..n -> [Seq(D) -> Seq(D)]]
  BY <1>1 DEF AddNew
<1>3. PICK g : IsLeftFold(g, n, Seq(D), <<>>, step)
  <2>1. <<>> \in Seq(D)
    OBVIOUS
  <2> HIDE DEF step, n
  <2>2. QED
    BY <1>1, <1>2, <2>1, LeftFoldExists, Zenon
<1>4. IsAdding(g, s, usable, key)
  <2>1. ASSUME NEW d \in SUBSET (1..n), d # {}
        PROVE  g[d] = AddNew(g[d \ {Max(d)}], s[Max(d)], usable, key)
    <3>1. g[d \ {Max(d)}] \in Seq(D) /\ Max(d) \in 1..n
      BY <1>3, <2>1 DEF IsLeftFold
    <3>2. g[d] = step[Max(d)][g[d \ {Max(d)}]]
      BY <1>3, <2>1 DEF IsLeftFold
    <3>3. QED
      BY <3>1, <3>2
  <2>2. g[{}] = <<>> /\ g = [d \in SUBSET (1..n) |-> g[d]]
    BY <1>3 DEF IsLeftFold
  <2> HIDE DEF step
  <2>3. QED
    BY <1>1, <2>1, <2>2 DEF IsAdding
<1> DEFINE A == Adding(s, usable, key)
<1>5. IsAdding(A, s, usable, key)
  BY <1>4 DEF Adding
<1>6. A[1..0] = <<>>
  BY <1>1, <1>5 DEF IsAdding
<1>7. ASSUME NEW k \in 1..n
      PROVE  A[1..k] = AddNew(A[1..(k - 1)], s[k], usable, key)
  <2>1. 1..k \in SUBSET (DOMAIN s) /\ k \in Nat \ {0}
    BY <1>1
  <2>2. 1..k # {} /\ Max(1..k) = k /\ (1..k) \ {k} = 1..(k - 1)
    BY <2>1, LastPosition
  <2>3. A[1..k] = IF 1..k = {} THEN <<>>
                  ELSE AddNew(A[(1..k) \ {Max(1..k)}], s[Max(1..k)], usable, key)
    <3> HIDE DEF A
    <3>1. QED
      BY <1>5, <2>1 DEF IsAdding
  <2>4. QED
    BY <2>2, <2>3
<1>8. QED
  BY <1>6, <1>7

\* r has one element for each key of the usable elements of S, and no others.
Represents(r, S, usable, key) ==
  /\ ToSet(r) \subseteq S \cap usable
  /\ \A x \in S \cap usable : \E y \in ToSet(r) : key[y] = key[x]
  /\ \A i, j \in 1..Len(r) : key[r[i]] = key[r[j]] => i = j

LEMMA AddNewRepresents ==
  ASSUME NEW D, NEW r \in Seq(D), NEW x \in D, NEW S, NEW usable, NEW key,
         Represents(r, S, usable, key)
  PROVE  /\ AddNew(r, x, usable, key) \in Seq(D)
         /\ Represents(AddNew(r, x, usable, key), S \cup {x}, usable, key)
<1>1. CASE x \in usable /\ key[x] \notin {key[y] : y \in ToSet(r)}
  <2> DEFINE t == Append(r, x)
  <2>1. t = AddNew(r, x, usable, key) /\ t \in Seq(D)
    BY <1>1 DEF AddNew
  <2>2. /\ Len(r) \in Nat /\ Len(t) = Len(r) + 1
        /\ t[Len(r) + 1] = x /\ \A i \in 1..Len(r) : t[i] = r[i] /\ r[i] \in ToSet(r)
    BY DEF ToSet
  <2>3. ToSet(t) = ToSet(r) \cup {x}
    BY AppendedSet
  <2> HIDE DEF t
  <2>4. ToSet(t) \subseteq (S \cup {x}) \cap usable
    BY <1>1, <2>3 DEF Represents
  <2>5. \A y \in (S \cup {x}) \cap usable : \E z \in ToSet(t) : key[z] = key[y]
    BY <2>3 DEF Represents
  <2>6. ASSUME NEW i \in 1..Len(t), NEW j \in 1..Len(t), key[t[i]] = key[t[j]]
        PROVE  i = j
    <3>1. \A a \in 1..Len(r) : key[t[a]] # key[x]
      BY <1>1, <2>2
    <3>2. \A a \in 1..Len(t) : a \in 1..Len(r) \/ a = Len(r) + 1
      BY <2>2
    <3>3. CASE i \in 1..Len(r) /\ j \in 1..Len(r)
      BY <2>2, <2>6, <3>3 DEF Represents
    <3>4. CASE i = Len(r) + 1 /\ j \in 1..Len(r)
      BY <2>2, <2>6, <3>1, <3>4
    <3>5. CASE j = Len(r) + 1 /\ i \in 1..Len(r)
      BY <2>2, <2>6, <3>1, <3>5
    <3>6. QED
      BY <3>2, <3>3, <3>4, <3>5
  <2>7. QED
    BY <2>1, <2>4, <2>5, <2>6 DEF Represents
<1>2. CASE x \in usable /\ key[x] \in {key[y] : y \in ToSet(r)}
  BY <1>2 DEF AddNew, Represents
<1>3. CASE x \notin usable
  BY <1>3 DEF AddNew, Represents
<1>4. QED
  BY <1>1, <1>2, <1>3

LEMMA DistinctRepresents ==
  ASSUME NEW D, NEW s \in Seq(D), NEW usable, NEW key
  PROVE  /\ Distinct(s, usable, key) \in Seq(D)
         /\ Represents(Distinct(s, usable, key), ToSet(s), usable, key)
<1> DEFINE A == Adding(s, usable, key)
           Upto(k) == {s[i] : i \in 1..k}
           T == {k \in Nat : k <= Len(s) =>
                   A[1..k] \in Seq(D) /\ Represents(A[1..k], Upto(k), usable, key)}
<1>1. Len(s) \in Nat /\ DOMAIN s = 1..Len(s) /\ \A i \in 1..Len(s) : s[i] \in D
  OBVIOUS
<1>2. 0 \in T
  <2>1. A[1..0] = <<>>
    BY AddingStep
  <2>2. Represents(<<>>, Upto(0), usable, key)
    BY DEF Represents, ToSet
  <2>3. A[1..0] \in Seq(D) /\ Represents(A[1..0], Upto(0), usable, key)
    BY <2>1, <2>2, <<>> \in Seq(D), Zenon
  <2> HIDE DEF A, Upto
  <2>4. QED
    BY <2>3
<1>3. ASSUME NEW k \in Nat, k \in T PROVE k + 1 \in T
  <2>1. SUFFICES ASSUME k + 1 <= Len(s)
                 PROVE  /\ A[1..(k + 1)] \in Seq(D)
                        /\ Represents(A[1..(k + 1)], Upto(k + 1), usable, key)
    OBVIOUS
  <2>2. k + 1 \in 1..Len(s) /\ s[k + 1] \in D /\ k <= Len(s) /\ (k + 1) - 1 = k
    BY <1>1, <2>1
  <2>3. A[1..(k + 1)] = AddNew(A[1..((k + 1) - 1)], s[k + 1], usable, key)
    BY <2>2, AddingStep
  <2>4. Upto(k + 1) = Upto(k) \cup {s[k + 1]}
    <3>1. 1..(k + 1) = (1..k) \cup {k + 1}
      OBVIOUS
    <3>2. QED
      BY <3>1
  <2>5. A[1..k] \in Seq(D) /\ Represents(A[1..k], Upto(k), usable, key)
    BY <1>3, <2>2
  <2> HIDE DEF A, Upto
  <2>6. QED
    BY <2>2, <2>3, <2>4, <2>5, AddNewRepresents
<1>4. Len(s) \in T
  <2> HIDE DEF T
  <2>1. QED
    BY <1>1, <1>2, <1>3, NatInduct
<1>5. Upto(Len(s)) = ToSet(s)
  BY <1>1 DEF ToSet
<1>6. Distinct(s, usable, key) = A[1..Len(s)]
  BY <1>1, DistinctIsAdding
<1>7. Len(s) <= Len(s)
  BY <1>1
<1>8. A[1..Len(s)] \in Seq(D) /\ Represents(A[1..Len(s)], Upto(Len(s)), usable, key)
  <2> HIDE DEF A, Upto
  <2>1. QED
    BY <1>4, <1>7
<1>9. QED
  BY <1>5, <1>6, <1>8, Zenon
-----------------------------------------------------------------------------
(* recipients *)

LEMMA RecipientsAddressed ==
  ASSUME NEW m \in Message, NEW fallback, Recipients(m, fallback) # <<>>
  PROVE  AddressedAsAsked(m, Recipients(m, fallback), fallback)
<1>1. CASE m.replyTo = NoReplyTo
  BY <1>1 DEF Recipients, AddressedAsAsked
<1>2. CASE m.replyTo # NoReplyTo
  <2> DEFINE r == Distinct(m.replyTo, ToSet(m.replyTo), Lower)
             keys == {Lower[a] : a \in ToSet(r)}
             f == [i \in 1..Len(r) |-> Lower[r[i]]]
  <2>1. m.replyTo \in Seq(DOMAIN Lower) /\ Recipients(m, fallback) = r
    BY <1>2, PipelineAssumption DEF Recipients
  <2>2. r \in Seq(DOMAIN Lower) /\ Represents(r, ToSet(m.replyTo), ToSet(m.replyTo), Lower)
    BY <2>1, DistinctRepresents
  <2>3. keys = {Lower[a] : a \in ToSet(m.replyTo)}
    BY <2>2 DEF Represents
  <2>4. Len(r) \in Nat /\ ToSet(r) = {r[i] : i \in 1..Len(r)}
    <3> HIDE DEF r
    <3>1. DOMAIN r = 1..Len(r)
      BY <2>2
    <3>2. QED
      BY <2>2, <3>1 DEF ToSet
  <2>5. f \in Bijection(1..Len(r), keys)
    <3>1. f \in [1..Len(r) -> keys]
      BY <2>4
    <3>2. \A a, b \in 1..Len(r) : f[a] = f[b] => a = b
      BY <2>2 DEF Represents
    <3>3. \A k \in keys : \E i \in 1..Len(r) : f[i] = k
      BY <2>4
    <3> HIDE DEF f, keys
    <3>4. QED
      BY <3>1, <3>2, <3>3 DEF Bijection, Injection, Surjection, IsInjective
  <2>6. IsFiniteSet(1..Len(r)) /\ Cardinality(1..Len(r)) = Len(r)
    <3>1. \A n \in Nat : IsFiniteSet(1..n) /\ Cardinality(1..n) = n
      BY FS_Interval
    <3> HIDE DEF r
    <3>2. QED
      BY <2>4, <3>1
  <2>7. Cardinality(keys) = Len(r)
    <3> HIDE DEF f, keys
    <3>1. QED
      BY <2>5, <2>6, FS_Bijection DEF ExistsBijection
  <2>8. QED
    BY <1>2, <2>1, <2>3, <2>7 DEF AddressedAsAsked
<1>3. QED
  BY <1>1, <1>2

-----------------------------------------------------------------------------
(* the thread *)

Id == DOMAIN IdBytes

LEMMA HeaderBytesType == ASSUME NEW ids \in Seq(Id) PROVE HeaderBytes(ids) \in Int
<1> DEFINE f == [i \in DOMAIN ids |-> IdBytes[ids[i]]]
<1>1. DOMAIN ids = 1..Len(ids) /\ Len(ids) \in Nat
  OBVIOUS
<1>2. Summable(f, DOMAIN ids)
  BY <1>1, HeaderAssumption DEF Summable, Id
<1>3. IsFiniteSet(DOMAIN ids) /\ DOMAIN f = DOMAIN ids
  BY <1>1, FS_Interval
<1>4. SumFunction(f) \in Nat
  <2> HIDE DEF f
  <2>1. QED
    BY <1>2, <1>3, SumType DEF SumFunction
<1>5. QED
  BY <1>1, <1>4 DEF HeaderBytes

LEMMA MessageIDsRepresent ==
  ASSUME NEW tokens \in Seq(Id)
  PROVE  MessageIDs(tokens) \in Seq(Id) /\ ToSet(MessageIDs(tokens)) \subseteq ToSet(tokens)
BY DistinctRepresents DEF MessageIDs, Represents

LEMMA ParentIsOne ==
  ASSUME NEW m \in Message
  PROVE  Parent(m) = <<>> \/ \E p \in Id : Parent(m) = <<p>>
<1> DEFINE ids == MessageIDs(m.messageID)
<1>1. ids \in Seq(Id)
  BY PipelineAssumption, MessageIDsRepresent DEF Id
<1>2. Len(ids) \in Nat
  BY <1>1
<1> HIDE DEF ids
<1>3. CASE Len(ids) = 0
  <2>1. Min({1, Len(ids)}) = 0
    BY <1>3, MinOfTwo
  <2>2. QED
    BY <2>1, SubSeqEmpty DEF Parent, ids
<1>4. CASE Len(ids) # 0
  <2>1. Min({1, Len(ids)}) = 1
    BY <1>2, <1>4, MinOfTwo
  <2>2. ids[1] \in Id
    BY <1>1, <1>2, <1>4
  <2>3. SubSeq(ids, 1, 1) \in Seq(Id) /\ Len(SubSeq(ids, 1, 1)) = 1
        /\ SubSeq(ids, 1, 1)[1] = ids[1]
    BY <2>2, SubSeqProperties
  <2>4. SubSeq(ids, 1, 1) = <<ids[1]>>
    <3> DEFINE s == SubSeq(ids, 1, 1)
               t == <<ids[1]>>
    <3>1. t \in Seq(Id) /\ Len(t) = 1 /\ t[1] = ids[1]
      BY <2>2
    <3>2. s \in Seq(Id) /\ Len(s) = 1 /\ s[1] = ids[1]
      BY <2>3
    <3> HIDE DEF s, t
    <3>3. s = t
      BY <3>1, <3>2, SeqEqual
    <3>4. QED
      BY <3>3 DEF s, t
  <2>5. QED
    BY <2>1, <2>2, <2>4 DEF Parent, ids
<1>5. QED
  BY <1>3, <1>4

\* What Thread leaves of a chain of references: the newest ones, and no fewer
\* than both limits allow.
LEMMA ChainCut ==
  ASSUME NEW c \in Seq(Id), c # <<>>
  PROVE  \E b \in 1..Len(c) :
           LET n == (Len(c) - b) + 1
           IN  /\ Fitting(Newest(c)) = SuffixFrom(c, b)
               /\ n <= MaxReferences
               /\ n > 1 => HeaderBytes(SuffixFrom(c, b)) <= MaxReferencesBytes
               /\ b > 1 => \/ n = MaxReferences
                           \/ HeaderBytes(SuffixFrom(c, b - 1)) > MaxReferencesBytes
<1> DEFINE a == Max({1, Len(c) - MaxReferences + 1})
           t == SuffixFrom(c, a)
           fits(k) == k = Len(t) \/ HeaderBytes(SubSeq(t, k, Len(t))) <= MaxReferencesBytes
           K == {k \in DOMAIN t : fits(k)}
<1>1. Len(c) \in Nat \ {0} /\ MaxReferences \in Nat \ {0} /\ MaxReferencesBytes \in Nat
  BY HeaderAssumption
<1>2. a = IF 1 >= Len(c) - MaxReferences + 1 THEN 1 ELSE Len(c) - MaxReferences + 1
  BY <1>1, MaxOfTwo
<1>3. a \in 1..Len(c) /\ (Len(c) - a) + 1 <= MaxReferences
      /\ (a > 1 => (Len(c) - a) + 1 = MaxReferences)
  <2> HIDE DEF a
  <2>1. QED
    BY <1>1, <1>2
<1>4. Newest(c) = t
  BY DEF Newest, SuffixFrom
<1>5. t \in Seq(Id) /\ Len(t) = (Len(c) - a) + 1 /\ Len(t) \in Nat \ {0}
      /\ DOMAIN t = 1..Len(t)
  <2> HIDE DEF a
  <2>1. t \in Seq(Id) /\ Len(t) = (Len(c) - a) + 1
    BY <1>3, FromElements
  <2>2. Len(t) \in Nat \ {0}
    BY <1>1, <1>3, <2>1
  <2> HIDE DEF t
  <2>3. QED
    BY <2>1, <2>2
<1>6. t # <<>>
  <2> HIDE DEF t
  <2>1. QED
    BY <1>5
<1>7. Fitting(t) = SuffixFrom(t, Min(K))
  BY <1>6 DEF Fitting, SuffixFrom
<1>8. Min(K) \in K /\ \A k \in K : Min(K) <= k
  <2>1. Len(t) \in K /\ K \in SUBSET Nat
    <3> HIDE DEF t
    <3>1. QED
      BY <1>5
  <2> HIDE DEF K
  <2>2. QED
    BY <2>1, MinNatural
<1> DEFINE k == Min(K)
           b == (a + k) - 1
<1>9. k \in 1..Len(t) /\ fits(k)
  <2> HIDE DEF t
  <2>1. QED
    BY <1>5, <1>8
<1>10. SuffixFrom(t, k) = SuffixFrom(c, b) /\ b \in 1..Len(c)
  <2>1. k \in 1..((Len(c) - a) + 1)
    BY <1>5, <1>9
  <2> HIDE DEF a, k
  <2>2. QED
    BY <1>3, <2>1, FromFrom
<1>11. (Len(c) - b) + 1 = (Len(t) - k) + 1 /\ a \in Nat /\ k \in Nat /\ a >= 1 /\ k >= 1
  <2> HIDE DEF a, k, t
  <2>1. QED
    BY <1>1, <1>3, <1>5, <1>9
<1> DEFINE n == (Len(c) - b) + 1
<1>12. n <= MaxReferences
  <2> HIDE DEF a, k, t
  <2>1. QED
    BY <1>1, <1>3, <1>5, <1>9, <1>11
<1>13. n > 1 => HeaderBytes(SuffixFrom(c, b)) <= MaxReferencesBytes
  <2>1. n > 1 => k # Len(t)
    BY <1>5, <1>9, <1>11
  <2>2. k # Len(t) => HeaderBytes(SuffixFrom(t, k)) <= MaxReferencesBytes
    BY <1>9 DEF SuffixFrom
  <2>3. QED
    BY <1>10, <2>1, <2>2
<1>14. ASSUME b > 1
       PROVE  n = MaxReferences \/ HeaderBytes(SuffixFrom(c, b - 1)) > MaxReferencesBytes
  <2>1. CASE k = 1
    <3>1. a > 1 /\ n = (Len(c) - a) + 1
      BY <1>1, <1>11, <1>14, <2>1
    <3>2. QED
      BY <1>3, <3>1
  <2>2. CASE k # 1
    <3>1. k - 1 \in 1..Len(t) /\ k - 1 # Len(t) /\ k - 1 \in 1..((Len(c) - a) + 1)
      <4> HIDE DEF t, k, a
      <4>1. QED
        BY <1>5, <1>9, <2>2
    <3>2. ~(k <= k - 1)
      <4> HIDE DEF k
      <4>1. QED
        BY <1>11
    <3>3. k - 1 \notin K
      BY <1>8, <3>2
    <3>4. ~(HeaderBytes(SuffixFrom(t, k - 1)) <= MaxReferencesBytes)
      BY <1>5, <3>1, <3>3 DEF SuffixFrom
    <3>5. SuffixFrom(t, k - 1) = SuffixFrom(c, (a + (k - 1)) - 1)
      <4> HIDE DEF a, k
      <4>1. QED
        BY <1>3, <3>1, FromFrom
    <3>6. (a + (k - 1)) - 1 = b - 1
      <4> HIDE DEF a, k
      <4>1. QED
        BY <1>11
    <3>7. SuffixFrom(t, k - 1) \in Seq(Id)
      <4> HIDE DEF t, k
      <4>1. QED
        BY <1>5, <3>1, FromElements
    <3>8. HeaderBytes(SuffixFrom(t, k - 1)) \in Int
      <4> HIDE DEF t, k
      <4>1. QED
        BY <3>7, HeaderBytesType
    <3>9. HeaderBytes(SuffixFrom(t, k - 1)) > MaxReferencesBytes
      <4> DEFINE h == HeaderBytes(SuffixFrom(t, k - 1))
      <4> HIDE DEF h
      <4>1. QED
        BY <1>1, <3>4, <3>8 DEF h
    <3>10. QED
      BY <3>5, <3>6, <3>9
  <2>3. QED
    BY <2>1, <2>2
<1>15. Fitting(Newest(c)) = SuffixFrom(c, b)
  BY <1>4, <1>7, <1>10
<1>16. QED
  <2> HIDE DEF b
  <2>1. QED
    BY <1>10, <1>12, <1>13, <1>14, <1>15

\* The chain is a sequence of IDs, ends in the parent unless References has it,
\* and is empty only without a parent.
LEMMA ChainEnds ==
  ASSUME NEW m \in Message
  PROVE  /\ Chain(m) \in Seq(Id)
         /\ \/ Parent(m) = <<>>
            \/ \E p \in Id : /\ Parent(m) = <<p>> /\ Chain(m) # <<>>
                             /\ \/ p \in ToSet(m.references)
                                \/ Chain(m)[Len(Chain(m))] = p
<1> DEFINE refs == MessageIDs(m.references)
<1>1. m.references \in Seq(Id)
  BY PipelineAssumption DEF Id
<1>2. refs \in Seq(Id) /\ ToSet(refs) \subseteq ToSet(m.references)
  BY <1>1, MessageIDsRepresent
<1>3. Chain(m) = IF ToSet(Parent(m)) \subseteq ToSet(refs) THEN refs
                 ELSE refs \o Parent(m)
  BY DEF Chain
<1> HIDE DEF refs
<1>4. CASE Parent(m) = <<>>
  <2>1. ToSet(Parent(m)) = {}
    BY <1>4 DEF ToSet
  <2>2. QED
    BY <1>2, <1>3, <1>4, <2>1
<1>5. ASSUME NEW p \in Id, Parent(m) = <<p>>
      PROVE  /\ Chain(m) \in Seq(Id) /\ Chain(m) # <<>>
             /\ p \in ToSet(m.references) \/ Chain(m)[Len(Chain(m))] = p
  <2>1. ToSet(<<p>>) = {p}
    BY DEF ToSet
  <2>2. CASE p \in ToSet(refs)
    <3>1. Chain(m) = refs /\ p \in ToSet(m.references)
      BY <1>2, <1>3, <1>5, <2>1, <2>2
    <3>2. refs # <<>>
      BY <2>2 DEF ToSet
    <3>3. QED
      BY <1>2, <3>1, <3>2
  <2>3. CASE p \notin ToSet(refs)
    <3>1. Chain(m) = refs \o <<p>>
      BY <1>3, <1>5, <2>1, <2>3
    <3>2. /\ refs \o <<p>> \in Seq(Id) /\ Len(refs \o <<p>>) = Len(refs) + 1
          /\ (refs \o <<p>>)[Len(refs) + 1] = p
      BY <1>2
    <3>3. Len(refs) \in Nat
      BY <1>2
    <3>4. QED
      BY <3>1, <3>2, <3>3
  <2>4. QED
    BY <2>2, <2>3
<1>6. QED
  BY <1>4, <1>5, ParentIsOne

LEMMA ThreadKept == ASSUME NEW m \in Message PROVE ThreadContinues(m, Thread(m))
<1> DEFINE c == Chain(m)
           t == Thread(m).references
<1>1. Thread(m).inReplyTo = Parent(m) /\ t = Fitting(Newest(c))
  BY DEF Thread
<1>2. c \in Seq(Id) /\ Len(c) \in Nat /\ MaxReferences \in Nat \ {0}
  BY ChainEnds, HeaderAssumption
<1>3. CASE c = <<>>
  <2>1. Max({1, Len(c) - MaxReferences + 1}) = 1
    BY <1>2, <1>3, MaxOfTwo
  <2>2. Newest(c) = <<>>
    BY <1>3, <2>1, SubSeqEmpty DEF Newest
  <2>3. t = <<>>
    BY <1>1, <2>2 DEF Fitting
  <2>4. Parent(m) = <<>>
    BY <1>3, ChainEnds
  <2>5. IsSuffix(<<>>, <<>>)
    BY <1>2, <1>3, EmptyIsSuffix
  <2>6. QED
    BY <1>1, <1>2, <1>3, <2>3, <2>4, <2>5 DEF ThreadContinues
<1>4. CASE c # <<>>
  <2> HIDE DEF c, t
  <2>1. PICK b \in 1..Len(c) :
          LET n == (Len(c) - b) + 1
          IN  /\ Fitting(Newest(c)) = SuffixFrom(c, b)
              /\ n <= MaxReferences
              /\ n > 1 => HeaderBytes(SuffixFrom(c, b)) <= MaxReferencesBytes
              /\ b > 1 => \/ n = MaxReferences
                          \/ HeaderBytes(SuffixFrom(c, b - 1)) > MaxReferencesBytes
    BY <1>2, <1>4, ChainCut
  <2>2. t = SuffixFrom(c, b)
    BY <1>1, <2>1
  <2>3. /\ t \in Seq(Id) /\ Len(t) = (Len(c) - b) + 1 /\ Len(t) \in Nat \ {0}
        /\ \A i \in 1..((Len(c) - b) + 1) : t[i] = c[(b + i) - 1]
    <3>1. /\ t \in Seq(Id) /\ Len(t) = (Len(c) - b) + 1
          /\ \A i \in 1..((Len(c) - b) + 1) : t[i] = c[(b + i) - 1]
      BY <1>2, <2>2, FromElements
    <3>2. QED
      BY <1>2, <3>1
  <2>4. IsSuffix(t, c)
    BY <1>2, <2>2, FromIsSuffix
  <2>5. t[Len(t)] = c[Len(c)]
    BY <1>2, <2>3
  <2>6. \/ ToSet(Parent(m)) \cap ToSet(m.references) # {}
        \/ IsSuffix(Parent(m), t)
    <3>1. CASE Parent(m) = <<>>
      BY <2>3, <3>1, EmptyIsSuffix
    <3>2. ASSUME NEW p \in Id, Parent(m) = <<p>>, p \in ToSet(m.references)
          PROVE  ToSet(Parent(m)) \cap ToSet(m.references) # {}
      <4>1. p \in ToSet(<<p>>)
        BY DEF ToSet
      <4>2. QED
        BY <3>2, <4>1
    <3>3. ASSUME NEW p \in Id, Parent(m) = <<p>>, c[Len(c)] = p
          PROVE  IsSuffix(Parent(m), t)
      <4> DEFINE s == <<p>>
      <4>1. s \in Seq(Id) /\ Len(s) = 1 /\ s[1] = p
        OBVIOUS
      <4> HIDE DEF s
      <4>2. Len(s) <= Len(t)
        BY <2>3, <4>1
      <4>3. \A i \in 1..Len(s) : s[(Len(s) - i) + 1] = t[(Len(t) - i) + 1]
        BY <2>3, <2>5, <3>3, <4>1
      <4>4. IsSuffix(s, t)
        BY <2>3, <4>1, <4>2, <4>3, SuffixByElements
      <4>5. QED
        BY <3>3, <4>4 DEF s
    <3>4. QED
      BY <3>1, <3>2, <3>3, ChainEnds DEF c
  <2>7. Len(t) <= MaxReferences
    BY <2>1, <2>3
  <2>8. Len(t) > 1 => HeaderBytes(t) <= MaxReferencesBytes
    BY <2>1, <2>2, <2>3
  <2>9. Len(t) < Len(c) =>
          \/ Len(t) = MaxReferences
          \/ HeaderBytes(SubSeq(c, Len(c) - Len(t), Len(c))) > MaxReferencesBytes
    <3>1. Len(c) - Len(t) = b - 1
      BY <1>2, <2>3
    <3>2. Len(t) < Len(c) => b > 1
      BY <1>2, <2>3
    <3>3. QED
      BY <2>1, <2>3, <3>1, <3>2 DEF SuffixFrom
  <2>10. QED
    BY <1>1, <2>4, <2>6, <2>7, <2>8, <2>9 DEF ThreadContinues, c, t
<1>5. QED
  BY <1>3, <1>4
-----------------------------------------------------------------------------
(* the links of a body *)

\* The recursive function inside FindURLs that joins the links of the parts.
IsJoining(g, body) ==
  g = [d \in SUBSET DOMAIN body |->
         IF d = {} THEN <<>> ELSE g[d \ {Max(d)}] \o body[Max(d)].urls]

Joining(body) == CHOOSE g : IsJoining(g, body)
Links(body) == Joining(body)[DOMAIN body]

LEMMA FindURLsJoins ==
  \A body : FindURLs(body) = Distinct(Links(body), ToSet(Links(body)), Itself(Links(body)))
BY DEF FindURLs, FoldLeft, MapThenFoldSet, Links, Joining, IsJoining

LEMMA LinksType ==
  ASSUME NEW P, NEW body \in Seq(P), NEW D, \A part \in ToSet(body) : part.urls \in Seq(D)
  PROVE  Links(body) \in Seq(D)
<1> DEFINE n == Len(body)
           step == [i \in 1..n |-> [v \in Seq(D) |-> v \o body[i].urls]]
<1>1. n \in Nat /\ DOMAIN body = 1..n /\ \A i \in 1..n : body[i].urls \in Seq(D)
  BY DEF ToSet
<1>2. step \in [1..n -> [Seq(D) -> Seq(D)]]
  <2>1. \A i \in 1..n, v \in Seq(D) : v \o body[i].urls \in Seq(D)
    BY <1>1, ConcatProperties
  <2>2. QED
    BY <2>1
<1>3. PICK g : IsLeftFold(g, n, Seq(D), <<>>, step)
  <2>1. <<>> \in Seq(D)
    OBVIOUS
  <2> HIDE DEF step, n
  <2>2. QED
    BY <1>1, <1>2, <2>1, LeftFoldExists, Zenon
<1>4. IsJoining(g, body)
  <2>1. ASSUME NEW d \in SUBSET (1..n), d # {}
        PROVE  g[d] = g[d \ {Max(d)}] \o body[Max(d)].urls
    <3>1. g[d \ {Max(d)}] \in Seq(D) /\ Max(d) \in 1..n
      BY <1>3, <2>1 DEF IsLeftFold
    <3>2. g[d] = step[Max(d)][g[d \ {Max(d)}]]
      BY <1>3, <2>1 DEF IsLeftFold
    <3>3. QED
      BY <3>1, <3>2
  <2>2. g[{}] = <<>> /\ g = [d \in SUBSET (1..n) |-> g[d]]
    BY <1>3 DEF IsLeftFold
  <2> HIDE DEF step
  <2>3. QED
    BY <1>1, <2>1, <2>2 DEF IsJoining
<1> DEFINE A == Joining(body)
           T == {k \in Nat : k <= n => A[1..k] \in Seq(D)}
<1>5. IsJoining(A, body)
  BY <1>4 DEF Joining
<1>6. 0 \in T
  <2>1. A[1..0] = <<>>
    BY <1>1, <1>5 DEF IsJoining
  <2>2. A[1..0] \in Seq(D)
    BY <2>1, <<>> \in Seq(D), Zenon
  <2> HIDE DEF A
  <2>3. QED
    BY <2>2
<1>7. ASSUME NEW k \in Nat, k \in T PROVE k + 1 \in T
  <2> HIDE DEF A, n
  <2>1. SUFFICES ASSUME k + 1 <= n PROVE A[1..(k + 1)] \in Seq(D)
    OBVIOUS
  <2>2. 1..(k + 1) \in SUBSET (1..n) /\ k + 1 \in 1..n /\ k <= n /\ (k + 1) - 1 = k
    BY <1>1, <2>1
  <2>3. 1..(k + 1) # {} /\ Max(1..(k + 1)) = k + 1 /\ (1..(k + 1)) \ {k + 1} = 1..k
    BY <2>2, LastPosition
  <2>4. A[1..(k + 1)] = A[1..k] \o body[k + 1].urls
    BY <1>1, <1>5, <2>2, <2>3 DEF IsJoining
  <2>5. A[1..k] \in Seq(D)
    BY <1>7, <2>2
  <2>6. QED
    BY <1>1, <2>2, <2>4, <2>5, ConcatProperties
<1>8. n \in T
  <2> HIDE DEF T, n
  <2>1. QED
    BY <1>1, <1>6, <1>7, NatInduct
<1>9. A[1..n] \in Seq(D)
  <2> HIDE DEF A
  <2>1. QED
    BY <1>1, <1>8
<1>10. QED
  BY <1>1, <1>9 DEF Links

Page == DOMAIN PageBytes

LEMMA UnsignedPart ==
  ASSUME NEW P, NEW body \in Seq(P)
  PROVE  Unsigned(body) \in Seq(P) /\ ToSet(Unsigned(body)) \subseteq ToSet(body)
<1> DEFINE signed == {i \in DOMAIN body : body[i].signed # "no"}
           first == Min(signed)
<1>1. DOMAIN body = 1..Len(body) /\ Len(body) \in Nat /\ \A i \in 1..Len(body) : body[i] \in P
  OBVIOUS
<1>2. ASSUME NEW j \in 0..Len(body)
      PROVE  /\ SubSeq(body, 1, j) \in Seq(P)
             /\ ToSet(SubSeq(body, 1, j)) \subseteq ToSet(body)
  <2> DEFINE s == SubSeq(body, 1, j)
  <2>1. s \in Seq(P) /\ Len(s) = j /\ \A i \in 1..j : s[i] = body[i]
    <3>1. \A i \in 1..j : body[i] \in P
      BY <1>1
    <3>2. /\ s \in Seq(P) /\ Len(s) = IF 1 <= j THEN j - 1 + 1 ELSE 0
          /\ \A i \in 1..(j - 1 + 1) : s[i] = body[1 + i - 1]
      BY <3>1, SubSeqProperties
    <3> HIDE DEF s
    <3>3. QED
      BY <3>2
  <2> HIDE DEF s
  <2>2. DOMAIN s = 1..j
    BY <2>1
  <2>3. ToSet(s) \subseteq ToSet(body)
    BY <1>1, <2>1, <2>2 DEF ToSet
  <2>4. QED
    BY <2>1, <2>3 DEF s
<1>3. CASE signed = {}
  BY <1>3 DEF Unsigned
<1>4. CASE signed # {}
  <2>1. signed \in SUBSET Nat
    BY <1>1
  <2>2. first \in signed
    <3> HIDE DEF signed
    <3>1. QED
      BY <1>4, <2>1, MinNatural
  <2>3. first \in 0..Len(body) /\ first - 1 \in 0..Len(body)
    <3> HIDE DEF first
    <3>1. QED
      BY <1>1, <2>2
  <2>4. \/ Unsigned(body) = SubSeq(body, 1, first - 1)
        \/ Unsigned(body) = SubSeq(body, 1, first)
    BY <1>4 DEF Unsigned
  <2> HIDE DEF first
  <2>5. QED
    BY <1>2, <2>3, <2>4
<1>5. QED
  BY <1>3, <1>4

\* What is cut from a text follows the first signature in it.
LEMMA UnsignedRest ==
  ASSUME NEW P, NEW body \in Seq(P), NEW i \in DOMAIN body, body[i] \notin ToSet(Unsigned(body))
  PROVE  \E j \in DOMAIN body : j <= i /\ body[j].signed # "no"
<1> DEFINE signed == {j \in DOMAIN body : body[j].signed # "no"}
           first == Min(signed)
<1>1. DOMAIN body = 1..Len(body) /\ Len(body) \in Nat /\ \A j \in 1..Len(body) : body[j] \in P
  OBVIOUS
<1>2. ASSUME NEW j \in 0..Len(body), i <= j PROVE body[i] \in ToSet(SubSeq(body, 1, j))
  <2> DEFINE s == SubSeq(body, 1, j)
  <2>1. \A k \in 1..j : body[k] \in P
    BY <1>1
  <2>2. /\ s \in Seq(P) /\ Len(s) = IF 1 <= j THEN j - 1 + 1 ELSE 0
        /\ \A k \in 1..(j - 1 + 1) : s[k] = body[1 + k - 1]
    BY <2>1, SubSeqProperties
  <2> HIDE DEF s
  <2>3. i \in 1..j /\ DOMAIN s = 1..j
    BY <1>1, <1>2, <2>2
  <2>4. s[i] = body[i]
    BY <2>2, <2>3
  <2>5. body[i] \in ToSet(s)
    BY <2>3, <2>4 DEF ToSet
  <2>6. QED
    BY <2>5 DEF s
<1>3. signed # {}
  <2>1. body[i] \in ToSet(body)
    BY DEF ToSet
  <2>2. QED
    BY <2>1 DEF Unsigned
<1>4. first \in signed
  <2>1. signed \in SUBSET Nat
    BY <1>1
  <2> HIDE DEF signed
  <2>2. QED
    BY <1>3, <2>1, MinNatural
<1>5. \/ Unsigned(body) = SubSeq(body, 1, first - 1)
      \/ Unsigned(body) = SubSeq(body, 1, first)
  BY <1>3 DEF Unsigned
<1>6. first \in DOMAIN body /\ body[first].signed # "no"
  BY <1>4
<1> HIDE DEF first
<1>7. first <= i
  <2>1. SUFFICES ASSUME i < first PROVE FALSE
    BY <1>1, <1>6
  <2>2. first \in 0..Len(body) /\ first - 1 \in 0..Len(body) /\ i <= first - 1 /\ i <= first
    BY <1>1, <1>6, <2>1
  <2>3. QED
    BY <1>2, <1>5, <2>2
<1>8. QED
  BY <1>6, <1>7

LEMMA WantedType ==
  ASSUME NEW m \in Message, Extract(m.mime).ok
  PROVE  FindURLs(Unsigned(Extract(m.mime).body)) \in Seq(Page)
<1> DEFINE body == Extract(m.mime).body
           asked == Unsigned(body)
<1>1. body \in Seq(ToSet(body)) /\ \A part \in ToSet(body) : part.urls \in Seq(Page)
  BY PipelineAssumption DEF Page
<1>2. asked \in Seq(ToSet(body)) /\ \A part \in ToSet(asked) : part.urls \in Seq(Page)
  <2> HIDE DEF body
  <2>1. QED
    BY <1>1, UnsignedPart
<1> HIDE DEF asked
<1>3. Links(asked) \in Seq(Page)
  BY <1>2, LinksType
<1>4. QED
  BY <1>3, FindURLsJoins, DistinctRepresents DEF asked
-----------------------------------------------------------------------------
(* the page texts shown to the model *)

Show(shown, page) ==
  LET n == Min({PageBytes[page], shown.left})
  IN  IF shown.left <= 0 THEN shown
      ELSE [left |-> shown.left - n,
            texts |-> Append(shown.texts, Beginning(page, n))]

Blankly == [left |-> MaxWebContext, texts |-> <<>>]

\* The recursive function inside Excerpts.
IsShowing(g, fetched) ==
  g = [d \in SUBSET DOMAIN fetched |->
         IF d = {} THEN Blankly ELSE Show(g[d \ {Max(d)}], fetched[Max(d)])]

Showing(fetched) == CHOOSE g : IsShowing(g, fetched)

LEMMA ExcerptsShows == \A fetched : Excerpts(fetched) = Showing(fetched)[DOMAIN fetched].texts
BY DEF Excerpts, FoldLeft, MapThenFoldSet, Showing, IsShowing, Show, Blankly

\* Each run of broken bytes has at least one byte, for which its mark stands.
LEMMA MarksType ==
  ASSUME NEW page \in Page, NEW n \in Nat
  PROVE  /\ Marks(page, n) \in Nat
         /\ Repaired(page, n) \in Nat
         /\ Repaired(page, n) <= n + (Mark - 1) * Marks(page, n)
<1> DEFINE whole == Whole(page, n)
           broken == Broken(page, n)
           starts == {i \in broken : i - 1 \notin broken}
<1>1. whole \in SUBSET (1..n)
  <2>1. \A c \in Characters[page] : c[1] \in Nat /\ c[2] \in Nat /\ 1 <= c[1]
    BY PipelineAssumption DEF Page
  <2>2. QED
    BY <2>1 DEF Whole
<1>2. IsFiniteSet(1..n) /\ Cardinality(1..n) = n
  BY FS_Interval
<1>3. broken = (1..n) \ whole /\ (1..n) \cap whole = whole
  BY <1>1 DEF Broken
<1>4. Marks(page, n) = Cardinality(starts) /\ starts \in SUBSET broken
  BY DEF Marks
<1>5. Repaired(page, n) = Cardinality(whole) + 3 * Marks(page, n)
  BY DEF Repaired, Mark
<1> HIDE DEF whole, broken, starts
<1>6. IsFiniteSet(whole) /\ Cardinality(whole) \in Nat
  BY <1>1, <1>2, FS_Subset, FS_CardinalityType
<1>7. IsFiniteSet(broken) /\ Cardinality(broken) = n - Cardinality(whole)
  <2>1. /\ IsFiniteSet((1..n) \ whole)
        /\ Cardinality((1..n) \ whole) = Cardinality(1..n) - Cardinality((1..n) \cap whole)
    BY <1>2, FS_Difference
  <2>2. QED
    BY <1>2, <1>3, <2>1
<1>8. Cardinality(starts) \in Nat /\ Cardinality(starts) <= Cardinality(broken)
  BY <1>4, <1>7, FS_Subset, FS_CardinalityType
<1>9. QED
  BY <1>4, <1>5, <1>6, <1>7, <1>8 DEF Mark

\* Only the character that the cut splits is broken in a page that is UTF-8.
LEMMA MarksFew ==
  ASSUME NEW page \in Page, IsUTF8(page), NEW n \in Nat, n <= PageBytes[page]
  PROVE  /\ Marks(page, n) <= 1
         /\ n = PageBytes[page] => Marks(page, n) = 0
<1> DEFINE broken == Broken(page, n)
           starts == {i \in broken : i - 1 \notin broken}
<1>1. Marks(page, n) = Cardinality(starts)
  BY DEF Marks
<1>2. PageBytes[page] \in Nat /\ \A c \in Characters[page] : c[1] \in Nat /\ c[2] \in Nat
  BY PipelineAssumption DEF Page
<1>3. \A c, d \in Characters[page] : c = d \/ c[2] < d[1] \/ d[2] < c[1]
  BY PipelineAssumption DEF Page
<1>4. ASSUME NEW i \in starts, NEW j \in starts, i < j PROVE FALSE
  <2>1. i \in 1..n /\ j \in 1..n /\ i \notin Whole(page, n)
    BY DEF Broken
  <2>2. j - 1 \in Whole(page, n) /\ i <= j - 1
    BY <1>4, <2>1 DEF Broken
  <2>3. PICK c \in Characters[page] : c[2] <= n /\ c[1] <= j - 1 /\ j - 1 <= c[2]
    BY <2>2 DEF Whole
  <2>4. i \in Whole(page, PageBytes[page])
    BY <1>2, <2>1 DEF IsUTF8, Broken
  <2>5. PICK d \in Characters[page] : d[1] <= i /\ i <= d[2]
    BY <2>4 DEF Whole
  <2>6. n < d[2]
    BY <1>2, <2>1, <2>5 DEF Whole
  <2>7. c[2] < d[1] \/ d[2] < c[1] \/ c = d
    BY <1>3
  <2> HIDE DEF starts
  <2>8. QED
    BY <1>2, <2>1, <2>2, <2>3, <2>5, <2>6, <2>7
<1>5. \A i, j \in starts : i = j
  <2>1. starts \in SUBSET Nat
    BY DEF Broken
  <2> HIDE DEF starts
  <2>2. QED
    BY <1>4, <2>1
<1>6. Marks(page, n) <= 1
  <2> HIDE DEF starts
  <2>1. CASE starts = {}
    BY <1>1, <2>1, FS_EmptySet
  <2>2. CASE starts # {}
    <3>1. PICK i : starts = {i}
      BY <1>5, <2>2
    <3>2. Cardinality({i}) = 1
      BY FS_Singleton
    <3>3. QED
      BY <1>1, <3>1, <3>2
  <2>3. QED
    BY <2>1, <2>2
<1>7. ASSUME n = PageBytes[page] PROVE Marks(page, n) = 0
  <2>1. starts = {}
    BY <1>7 DEF IsUTF8
  <2> HIDE DEF starts
  <2>2. QED
    BY <1>1, <2>1, FS_EmptySet
<1>8. QED
  BY <1>6, <1>7

Excerpt == [page : Page, bytes : Nat, length : Nat]
Shown == [left : Nat, texts : Seq(Excerpt)]

LEMMA ShowType ==
  ASSUME NEW st \in Shown, NEW page \in Page, st.left > 0
  PROVE  \E n \in Nat :
           /\ n = IF PageBytes[page] <= st.left THEN PageBytes[page] ELSE st.left
           /\ st.left - n \in Nat
           /\ Beginning(page, n) \in Excerpt
           /\ Show(st, page) = [left |-> st.left - n,
                                texts |-> Append(st.texts, Beginning(page, n))]
<1> DEFINE n == Min({PageBytes[page], st.left})
<1>1. PageBytes[page] \in Nat /\ st.left \in Nat
  BY PipelineAssumption DEF Page, Shown
<1>2. n = IF PageBytes[page] <= st.left THEN PageBytes[page] ELSE st.left
  BY <1>1, MinOfTwo
<1>3. Show(st, page) = [left |-> st.left - n,
                        texts |-> Append(st.texts, Beginning(page, n))]
  BY <1>1 DEF Show
<1> HIDE DEF n
<1>4. n \in Nat /\ st.left - n \in Nat
  BY <1>1, <1>2
<1>5. Beginning(page, n) \in Excerpt
  BY <1>4, MarksType DEF Beginning, Excerpt
<1>6. QED
  BY <1>2, <1>3, <1>4, <1>5

LEMMA ShowInShown ==
  ASSUME NEW st \in Shown, NEW page \in Page PROVE Show(st, page) \in Shown
<1>1. CASE st.left > 0
  <2>1. PICK n \in Nat :
          /\ st.left - n \in Nat
          /\ Beginning(page, n) \in Excerpt
          /\ Show(st, page) = [left |-> st.left - n,
                               texts |-> Append(st.texts, Beginning(page, n))]
    BY <1>1, ShowType
  <2>2. st.texts \in Seq(Excerpt)
    BY DEF Shown
  <2>3. Append(st.texts, Beginning(page, n)) \in Seq(Excerpt)
    BY <2>1, <2>2, AppendProperties
  <2>4. QED
    BY <2>1, <2>3 DEF Shown
<1>2. CASE st.left <= 0
  BY <1>2 DEF Show
<1>3. QED
  BY <1>1, <1>2 DEF Shown

LEMMA ShowingStep ==
  ASSUME NEW fetched \in Seq(Page)
  PROVE  /\ Showing(fetched)[1..0] = Blankly
         /\ \A k \in 1..Len(fetched) :
              Showing(fetched)[1..k] = Show(Showing(fetched)[1..(k - 1)], fetched[k])
<1> DEFINE n == Len(fetched)
           step == [i \in 1..n |-> [v \in Shown |-> Show(v, fetched[i])]]
<1>1. n \in Nat /\ DOMAIN fetched = 1..n /\ \A i \in 1..n : fetched[i] \in Page
  OBVIOUS
<1>2. step \in [1..n -> [Shown -> Shown]]
  <2>1. \A i \in 1..n, v \in Shown : Show(v, fetched[i]) \in Shown
    BY <1>1, ShowInShown
  <2>2. QED
    BY <2>1
<1>3. PICK g : IsLeftFold(g, n, Shown, Blankly, step)
  <2>1. Blankly \in Shown
    BY PipelineAssumption DEF Blankly, Shown
  <2> HIDE DEF step, n
  <2>2. QED
    BY <1>1, <1>2, <2>1, LeftFoldExists, Zenon
<1>4. IsShowing(g, fetched)
  <2>1. ASSUME NEW d \in SUBSET (1..n), d # {}
        PROVE  g[d] = Show(g[d \ {Max(d)}], fetched[Max(d)])
    <3>1. g[d \ {Max(d)}] \in Shown /\ Max(d) \in 1..n
      BY <1>3, <2>1 DEF IsLeftFold
    <3>2. g[d] = step[Max(d)][g[d \ {Max(d)}]]
      BY <1>3, <2>1 DEF IsLeftFold
    <3>3. QED
      BY <3>1, <3>2
  <2>2. g[{}] = Blankly /\ g = [d \in SUBSET (1..n) |-> g[d]]
    BY <1>3 DEF IsLeftFold
  <2> HIDE DEF step
  <2>3. QED
    BY <1>1, <2>1, <2>2 DEF IsShowing
<1> DEFINE A == Showing(fetched)
<1>5. IsShowing(A, fetched)
  BY <1>4 DEF Showing
<1>6. A[1..0] = Blankly
  BY <1>1, <1>5 DEF IsShowing
<1>7. ASSUME NEW k \in 1..n
      PROVE  A[1..k] = Show(A[1..(k - 1)], fetched[k])
  <2>1. 1..k \in SUBSET (DOMAIN fetched) /\ k \in Nat \ {0}
    BY <1>1
  <2>2. 1..k # {} /\ Max(1..k) = k /\ (1..k) \ {k} = 1..(k - 1)
    BY <2>1, LastPosition
  <2>3. A[1..k] = IF 1..k = {} THEN Blankly
                  ELSE Show(A[(1..k) \ {Max(1..k)}], fetched[Max(1..k)])
    <3> HIDE DEF A
    <3>1. QED
      BY <1>5, <2>1 DEF IsShowing
  <2>4. QED
    BY <2>2, <2>3
<1>8. QED
  BY <1>6, <1>7

BytesOf(texts) == [i \in DOMAIN texts |-> texts[i].bytes]
LengthsOf(texts) == [i \in DOMAIN texts |-> texts[i].length]
MarksOf(texts) == [i \in DOMAIN texts |-> Marks(texts[i].page, texts[i].bytes)]

\* What one more text adds.
LEMMA TextsSum ==
  ASSUME NEW texts \in Seq(Excerpt), NEW text \in Excerpt, NEW more, more = Append(texts, text)
  PROVE  /\ SumFunction(BytesOf(texts)) \in Nat
         /\ SumFunction(LengthsOf(texts)) \in Nat
         /\ SumFunction(MarksOf(texts)) \in Nat
         /\ SumFunction(BytesOf(more)) = SumFunction(BytesOf(texts)) + text.bytes
         /\ SumFunction(LengthsOf(more)) = SumFunction(LengthsOf(texts)) + text.length
         /\ SumFunction(MarksOf(more)) =
              SumFunction(MarksOf(texts)) + Marks(text.page, text.bytes)
<1> DEFINE k == Len(texts)
<1>1. /\ k \in Nat /\ DOMAIN texts = 1..k /\ DOMAIN more = 1..(k + 1)
      /\ more[k + 1] = text
      /\ \A i \in 1..k : more[i] = texts[i] /\ i \in 1..(k + 1)
      /\ \A i \in 1..(k + 1) : more[i] \in Excerpt
  <2>1. more \in Seq(Excerpt) /\ Len(more) = k + 1
    BY AppendProperties
  <2>2. more[k + 1] = text /\ \A i \in 1..k : more[i] = texts[i]
    BY AppendProperties
  <2>3. \A i \in 1..k : i \in 1..(k + 1)
    OBVIOUS
  <2>4. QED
    BY <2>1, <2>2, <2>3
<1> HIDE DEF k
<1>2. \A x \in Excerpt : x.bytes \in Nat /\ x.length \in Nat /\ Marks(x.page, x.bytes) \in Nat
  BY MarksType DEF Excerpt
<1>3. k + 1 \in 1..(k + 1)
  BY <1>1
<1>4. /\ SumFunction(BytesOf(texts)) \in Nat
      /\ SumFunction(BytesOf(more)) = SumFunction(BytesOf(texts)) + text.bytes
  <2>1. Summable(BytesOf(more), 1..(k + 1))
    BY <1>1, <1>2 DEF Summable, BytesOf
  <2>2. DOMAIN BytesOf(texts) = 1..k /\ DOMAIN BytesOf(more) = 1..(k + 1)
    BY <1>1 DEF BytesOf
  <2>3. \A i \in 1..k : BytesOf(texts)[i] = BytesOf(more)[i]
    BY <1>1 DEF BytesOf
  <2>4. BytesOf(more)[k + 1] = text.bytes
    BY <1>1, <1>3 DEF BytesOf
  <2>5. QED
    BY <1>1, <2>1, <2>2, <2>3, <2>4, SumAppend
<1>5. /\ SumFunction(LengthsOf(texts)) \in Nat
      /\ SumFunction(LengthsOf(more)) = SumFunction(LengthsOf(texts)) + text.length
  <2>1. Summable(LengthsOf(more), 1..(k + 1))
    BY <1>1, <1>2 DEF Summable, LengthsOf
  <2>2. DOMAIN LengthsOf(texts) = 1..k /\ DOMAIN LengthsOf(more) = 1..(k + 1)
    BY <1>1 DEF LengthsOf
  <2>3. \A i \in 1..k : LengthsOf(texts)[i] = LengthsOf(more)[i]
    BY <1>1 DEF LengthsOf
  <2>4. LengthsOf(more)[k + 1] = text.length
    BY <1>1, <1>3 DEF LengthsOf
  <2>5. QED
    BY <1>1, <2>1, <2>2, <2>3, <2>4, SumAppend
<1>6. /\ SumFunction(MarksOf(texts)) \in Nat
      /\ SumFunction(MarksOf(more)) = SumFunction(MarksOf(texts)) + Marks(text.page, text.bytes)
  <2>1. Summable(MarksOf(more), 1..(k + 1))
    BY <1>1, <1>2 DEF Summable, MarksOf
  <2>2. DOMAIN MarksOf(texts) = 1..k /\ DOMAIN MarksOf(more) = 1..(k + 1)
    BY <1>1 DEF MarksOf
  <2>3. \A i \in 1..k : MarksOf(texts)[i] = MarksOf(more)[i]
    BY <1>1 DEF MarksOf
  <2>4. MarksOf(more)[k + 1] = Marks(text.page, text.bytes)
    BY <1>1, <1>3 DEF MarksOf
  <2>5. QED
    BY <1>1, <2>1, <2>2, <2>3, <2>4, SumAppend
<1>7. QED
  BY <1>4, <1>5, <1>6

\* What has been shown of the first k pages: all of them whole, or as much as
\* fills the budget.
Filling(st, k, fetched) ==
  /\ st \in Shown
  /\ Len(st.texts) <= k
  /\ \A i \in 1..Len(st.texts) : st.texts[i].page = fetched[i]
  /\ SumFunction(BytesOf(st.texts)) + st.left = MaxWebContext
  /\ st.left > 0 =>
       /\ Len(st.texts) = k
       /\ \A i \in 1..k : st.texts[i].bytes = PageBytes[fetched[i]]

LEMMA FillingStep ==
  ASSUME NEW fetched \in Seq(Page), NEW k \in Nat, k + 1 <= Len(fetched), NEW st,
         Filling(st, k, fetched)
  PROVE  Filling(Show(st, fetched[k + 1]), k + 1, fetched)
<1> DEFINE page == fetched[k + 1]
<1>1. page \in Page /\ st \in Shown /\ st.left \in Nat /\ st.texts \in Seq(Excerpt)
  BY DEF Filling, Shown
<1>2. Len(st.texts) \in Nat
  BY <1>1
<1>3. CASE st.left <= 0
  <2>1. Show(st, page) = st
    BY <1>3 DEF Show
  <2>2. QED
    BY <1>1, <1>2, <1>3, <2>1 DEF Filling
<1>4. CASE st.left > 0
  <2> HIDE DEF page
  <2>1. PICK n \in Nat :
          /\ n = IF PageBytes[page] <= st.left THEN PageBytes[page] ELSE st.left
          /\ st.left - n \in Nat
          /\ Beginning(page, n) \in Excerpt
          /\ Show(st, page) = [left |-> st.left - n,
                               texts |-> Append(st.texts, Beginning(page, n))]
    BY <1>1, <1>4, ShowType
  <2> DEFINE text == Beginning(page, n)
             more == Append(st.texts, text)
             next == Show(st, page)
  <2>2. next.left = st.left - n /\ next.texts = more /\ next \in Shown
    <3>1. next.left = st.left - n /\ next.texts = more
      BY <2>1
    <3>2. next \in Shown
      BY <1>1, ShowInShown
    <3>3. QED
      BY <3>1, <3>2
  <2>3. Len(st.texts) = k /\ \A i \in 1..k : st.texts[i].bytes = PageBytes[fetched[i]]
    BY <1>4 DEF Filling
  <2>4. /\ more \in Seq(Excerpt) /\ Len(more) = k + 1 /\ more[k + 1] = text
        /\ \A i \in 1..k : more[i] = st.texts[i]
    <3> HIDE DEF text
    <3>1. QED
      BY <1>1, <2>1, <2>3, AppendProperties DEF text
  <2>5. SumFunction(BytesOf(more)) = SumFunction(BytesOf(st.texts)) + n
        /\ SumFunction(BytesOf(st.texts)) \in Nat
    <3>1. text.bytes = n /\ text \in Excerpt
      BY <2>1 DEF Beginning
    <3> HIDE DEF text
    <3>2. QED
      BY <1>1, <3>1, TextsSum
  <2>6. SumFunction(BytesOf(next.texts)) + next.left = MaxWebContext
    <3>1. SumFunction(BytesOf(st.texts)) + st.left = MaxWebContext
      BY DEF Filling
    <3> HIDE DEF next, more
    <3>2. next.left = st.left - n /\ BytesOf(next.texts) = BytesOf(more)
      BY <2>2
    <3> DEFINE shown == SumFunction(BytesOf(st.texts))
               total == SumFunction(BytesOf(next.texts))
    <3>3. total = shown + n /\ shown \in Nat
      BY <2>5, <3>2
    <3>4. shown + st.left = MaxWebContext
      BY <3>1
    <3> HIDE DEF shown, total
    <3>5. total + (st.left - n) = MaxWebContext
      <4>1. \A a, b, c \in Nat : (a + b) + (c - b) = a + c
        OBVIOUS
      <4>2. n \in Nat /\ st.left \in Nat
        BY <1>1
      <4>3. (shown + n) + (st.left - n) = shown + st.left
        BY <3>3, <4>1, <4>2
      <4>4. QED
        BY <3>3, <3>4, <4>3
    <3>6. QED
      BY <3>2, <3>5 DEF total
  <2>7. \A i \in 1..(k + 1) : next.texts[i].page = fetched[i]
    <3>1. \A i \in 1..k : st.texts[i].page = fetched[i]
      BY <2>3 DEF Filling
    <3> HIDE DEF next, more
    <3>2. \A i \in 1..(k + 1) : i \in 1..k \/ i = k + 1
      OBVIOUS
    <3>3. \A i \in 1..k : next.texts[i].page = fetched[i]
      BY <2>2, <2>4, <3>1
    <3>4. next.texts[k + 1] = text
      BY <2>2, <2>4
    <3>5. next.texts[k + 1].page = fetched[k + 1]
      BY <3>4 DEF page, Beginning
    <3>6. QED
      BY <3>2, <3>3, <3>5
  <2>8. ASSUME next.left > 0, NEW i \in 1..(k + 1)
        PROVE  next.texts[i].bytes = PageBytes[fetched[i]]
    <3>1. n = PageBytes[page]
      <4>1. PageBytes[page] \in Nat
        BY <1>1, PipelineAssumption DEF Page
      <4> HIDE DEF next
      <4>2. QED
        BY <1>1, <2>1, <2>2, <2>8, <4>1
    <3>2. i \in 1..k \/ i = k + 1
      OBVIOUS
    <3> HIDE DEF next, more
    <3>3. CASE i \in 1..k
      <4>1. next.texts[i] = st.texts[i]
        BY <2>2, <2>4, <3>3
      <4>2. QED
        BY <2>3, <3>3, <4>1
    <3>4. CASE i = k + 1
      <4>1. next.texts[i] = text
        BY <2>2, <2>4, <3>4
      <4>2. QED
        BY <3>1, <3>4, <4>1 DEF page, Beginning
    <3>5. QED
      BY <3>2, <3>3, <3>4
  <2>9. Len(next.texts) = k + 1
    <3> HIDE DEF next, more
    <3>1. QED
      BY <2>2, <2>4
  <2>10. Filling(next, k + 1, fetched)
    <3> HIDE DEF next
    <3>1. QED
      BY <2>2, <2>6, <2>7, <2>8, <2>9 DEF Filling
  <2>11. QED
    BY <2>10 DEF page
<1>5. QED
  BY <1>1, <1>3, <1>4

\* Marks make up for what the texts shown exceed the bytes taken.  If all pages
\* are UTF-8 only a text that is cut has a mark, and only one can be.
Repairing(st, fetched) ==
  /\ SumFunction(LengthsOf(st.texts)) <=
       SumFunction(BytesOf(st.texts)) + (Mark - 1) * SumFunction(MarksOf(st.texts))
  /\ (\A i \in DOMAIN fetched : IsUTF8(fetched[i])) =>
       /\ SumFunction(MarksOf(st.texts)) <= 1
       /\ (\A i \in DOMAIN st.texts : ~(st.texts[i].bytes < PageBytes[fetched[i]])) =>
            SumFunction(MarksOf(st.texts)) = 0

LEMMA RepairingStep ==
  ASSUME NEW fetched \in Seq(Page), NEW k \in Nat, k + 1 <= Len(fetched), NEW st,
         Filling(st, k, fetched), Repairing(st, fetched)
  PROVE  Repairing(Show(st, fetched[k + 1]), fetched)
<1> DEFINE page == fetched[k + 1]
           next == Show(st, page)
           texts == st.texts
           marks == SumFunction(MarksOf(texts))
           total == SumFunction(MarksOf(next.texts))
<1>1. page \in Page /\ st \in Shown /\ st.left \in Nat /\ texts \in Seq(Excerpt)
  BY DEF Filling, Shown
<1>2. k + 1 \in DOMAIN fetched /\ \A i \in 1..k : i \in DOMAIN fetched
  OBVIOUS
<1>3. CASE st.left <= 0
  <2>1. next = st
    BY <1>3 DEF Show
  <2>2. QED
    BY <2>1
<1>4. CASE st.left > 0
  <2>1. Len(texts) = k /\ \A i \in 1..k : texts[i].bytes = PageBytes[fetched[i]]
    BY <1>4 DEF Filling
  <2> HIDE DEF page
  <2>2. PICK n \in Nat :
          /\ n = IF PageBytes[page] <= st.left THEN PageBytes[page] ELSE st.left
          /\ Beginning(page, n) \in Excerpt
          /\ next = [left |-> st.left - n, texts |-> Append(texts, Beginning(page, n))]
    BY <1>1, <1>4, ShowType
  <2> DEFINE text == Beginning(page, n)
  <2>3. text.page = page /\ text.bytes = n /\ text.length = Repaired(page, n) /\ text \in Excerpt
    BY <2>2 DEF Beginning
  <2>4. next.texts = Append(texts, text)
    BY <2>2
  <2> HIDE DEF text, next, texts
  <2>5. next.texts[k + 1] = text /\ DOMAIN next.texts = 1..(k + 1) /\ DOMAIN texts = 1..k
    BY <1>1, <2>1, <2>3, <2>4, AppendProperties
  <2>6. /\ SumFunction(BytesOf(texts)) \in Nat
        /\ SumFunction(LengthsOf(texts)) \in Nat
        /\ SumFunction(MarksOf(texts)) \in Nat
        /\ SumFunction(BytesOf(next.texts)) = SumFunction(BytesOf(texts)) + n
        /\ SumFunction(LengthsOf(next.texts)) = SumFunction(LengthsOf(texts)) + Repaired(page, n)
        /\ SumFunction(MarksOf(next.texts)) = SumFunction(MarksOf(texts)) + Marks(page, n)
    BY <1>1, <2>3, <2>4, TextsSum
  <2>7. /\ Marks(page, n) \in Nat /\ Repaired(page, n) \in Nat
        /\ Repaired(page, n) <= n + (Mark - 1) * Marks(page, n)
    BY <1>1, MarksType
  <2>8. SumFunction(LengthsOf(texts)) <= SumFunction(BytesOf(texts)) + (Mark - 1) * marks
    BY DEF Repairing, texts
  <2>9. SumFunction(LengthsOf(next.texts)) <=
          SumFunction(BytesOf(next.texts)) + (Mark - 1) * total
    <3>1. \A a, b, c, d, e, f \in Nat :
            a <= b + 2 * c /\ d <= e + 2 * f => a + d <= (b + e) + 2 * (c + f)
      OBVIOUS
    <3>2. Mark - 1 = 2 /\ n \in Nat
      BY DEF Mark
    <3>3. SumFunction(LengthsOf(texts)) + Repaired(page, n) <=
            (SumFunction(BytesOf(texts)) + n) + 2 * (marks + Marks(page, n))
      BY <2>6, <2>7, <2>8, <3>1, <3>2
    <3>4. QED
      BY <2>6, <3>2, <3>3
  <2>10. ASSUME \A i \in DOMAIN fetched : IsUTF8(fetched[i])
         PROVE  /\ total <= 1
                /\ (\A i \in DOMAIN next.texts : ~(next.texts[i].bytes < PageBytes[fetched[i]])) =>
                     total = 0
    <3>1. marks = 0
      <4>1. \A i \in 1..k : PageBytes[fetched[i]] \in Nat
        BY <1>2, PipelineAssumption DEF Page
      <4>2. \A i \in DOMAIN texts : ~(texts[i].bytes < PageBytes[fetched[i]])
        BY <2>1, <2>5, <4>1
      <4>3. QED
        BY <2>10, <4>2 DEF Repairing, texts
    <3>2. total = Marks(page, n)
      BY <2>6, <2>7, <3>1
    <3>3. PageBytes[page] \in Nat /\ IsUTF8(page)
      BY <1>1, <1>2, <2>10, PipelineAssumption DEF Page, page
    <3>4. n <= PageBytes[page]
      BY <1>1, <2>2, <3>3
    <3>5. Marks(page, n) <= 1 /\ (n = PageBytes[page] => Marks(page, n) = 0)
      BY <1>1, <3>3, <3>4, MarksFew
    <3>6. ASSUME \A i \in DOMAIN next.texts : ~(next.texts[i].bytes < PageBytes[fetched[i]])
          PROVE  n = PageBytes[page]
      <4>1. ~(n < PageBytes[page])
        <5>1. k + 1 \in DOMAIN next.texts
          BY <2>5
        <5>2. QED
          BY <2>3, <2>5, <3>6, <5>1 DEF page
      <4>2. QED
        BY <3>3, <3>4, <4>1
    <3>7. QED
      BY <3>2, <3>5, <3>6
  <2>11. QED
    BY <2>9, <2>10 DEF Repairing, next, page
<1>5. QED
  BY <1>1, <1>3, <1>4 DEF page, next

Filled(st, k, fetched) == Filling(st, k, fetched) /\ Repairing(st, fetched)

\* The excerpts fill the budget as far as the pages go.
LEMMA ExcerptsFill ==
  ASSUME NEW fetched \in Seq(Page)
  PROVE  \E st : st.texts = Excerpts(fetched) /\ Filled(st, Len(fetched), fetched)
<1> DEFINE A == Showing(fetched)
           T == {k \in Nat : k <= Len(fetched) => Filled(A[1..k], k, fetched)}
<1>1. Len(fetched) \in Nat /\ DOMAIN fetched = 1..Len(fetched)
  OBVIOUS
<1>2. 0 \in T
  <2>1. A[1..0] = Blankly
    BY ShowingStep
  <2>2. Blankly \in Shown /\ Blankly.texts = <<>> /\ Blankly.left = MaxWebContext
    BY PipelineAssumption DEF Blankly, Shown
  <2>3. SumFunction(BytesOf(<<>>)) = 0
    <3>1. DOMAIN BytesOf(<<>>) = {}
      BY DEF BytesOf
    <3>2. QED
      BY <3>1, SumEmpty DEF SumFunction
  <2>4. Filling(Blankly, 0, fetched)
    <3>1. Len(Blankly.texts) = 0
      BY <2>2
    <3>2. 1..0 = {} /\ MaxWebContext \in Nat
      BY PipelineAssumption
    <3>3. QED
      BY <2>2, <2>3, <3>1, <3>2 DEF Filling
  <2>5. Repairing(Blankly, fetched)
    <3>1. /\ DOMAIN Blankly.texts = {} /\ DOMAIN BytesOf(Blankly.texts) = {}
          /\ DOMAIN LengthsOf(Blankly.texts) = {} /\ DOMAIN MarksOf(Blankly.texts) = {}
      BY <2>2 DEF BytesOf, LengthsOf, MarksOf
    <3>2. /\ SumFunction(BytesOf(Blankly.texts)) = 0
          /\ SumFunction(LengthsOf(Blankly.texts)) = 0
          /\ SumFunction(MarksOf(Blankly.texts)) = 0
      BY <3>1, SumEmpty DEF SumFunction
    <3>3. QED
      BY <3>2 DEF Repairing, Mark
  <2> HIDE DEF A
  <2>6. QED
    BY <2>1, <2>4, <2>5 DEF Filled
<1>3. ASSUME NEW k \in Nat, k \in T PROVE k + 1 \in T
  <2>1. SUFFICES ASSUME k + 1 <= Len(fetched)
                 PROVE  Filled(A[1..(k + 1)], k + 1, fetched)
    OBVIOUS
  <2>2. k + 1 \in 1..Len(fetched) /\ k <= Len(fetched) /\ (k + 1) - 1 = k
    BY <1>1, <2>1
  <2>3. A[1..(k + 1)] = Show(A[1..((k + 1) - 1)], fetched[k + 1])
    BY <2>2, ShowingStep
  <2> HIDE DEF A
  <2>4. Filled(A[1..k], k, fetched)
    BY <1>3, <2>2
  <2>5. QED
    BY <2>1, <2>2, <2>3, <2>4, FillingStep, RepairingStep DEF Filled
<1>4. Len(fetched) \in T
  <2> HIDE DEF T
  <2>1. QED
    BY <1>1, <1>2, <1>3, NatInduct
<1>5. Filled(A[1..Len(fetched)], Len(fetched), fetched)
  <2> HIDE DEF A
  <2>1. QED
    BY <1>1, <1>4
<1>6. A[1..Len(fetched)].texts = Excerpts(fetched)
  BY <1>1, ExcerptsShows
<1>7. QED
  BY <1>5, <1>6
-----------------------------------------------------------------------------
(* what an attempt carries from stage to stage *)

\* Each stage finds what the stages before it have settled, taken from this
\* message and nothing else, with the pages so far in the order of the links.
Carried ==
  /\ work = [to |-> work.to, thread |-> work.thread, body |-> work.body,
             files |-> work.files, notes |-> work.notes, pages |-> work.pages,
             excerpts |-> work.excerpts, refs |-> work.refs,
             exports |-> work.exports, reply |-> work.reply]
  /\ pc # "idle" => msg \in Message
  /\ pc \in Admitted =>
       work.to = RecipientsOf(msg, cfg) /\ work.thread = Thread(msg)
  /\ pc \in {"idle", "sender", "extract"} => work.pages = <<>>
  /\ pc \in Settled =>
       /\ work.body = Unsigned(Extract(msg.mime).body)
       /\ work.notes = Extract(msg.mime).inc.notes
       /\ work.files = Extract(msg.mime).inc.files
  /\ pc = "fetch" =>
       /\ Len(work.pages) \in 0..Len(Wanted)
       /\ work.pages = SubSeq(Wanted, 1, Len(work.pages))
  /\ pc \in Settled \ {"fetch"} =>
       work.pages = Wanted /\ work.excerpts = Excerpts(work.pages)
  /\ Replying => work.reply = Reply

LEMMA InitCarried == ASSUME PipelineInit PROVE Carried
BY DEF PipelineInit, Carried, Nothing, Replying, Admitted, Settled

LEMMA FinishCarried == ASSUME NEW result, Finish(result) PROVE Carried'
BY DEF Finish, Carried, Nothing, Replying, Admitted, Settled

LEMMA WantedIsSeq == ASSUME Passed, Carried, pc \in Settled PROVE Wanted \in Seq(Page)
BY WantedType DEF Passed, Carried, Wanted, Admitted, Settled

LEMMA NextCarried ==
  ASSUME Passed, Carried, [PipelineNext]_vars PROVE Carried'
<1> USE DEF Replying, Admitted, Settled
<1>1. ASSUME NEW m \in Message, Begin(m) PROVE Carried'
  BY <1>1 DEF Begin, Goto, Carried, Wanted
<1>2. CASE Address
  BY <1>2 DEF Address, Goto, Carried
<1>3. CASE KeepBody
  <2>1. work'.pages = <<>> /\ Wanted' = FindURLs(Unsigned(Extract(msg.mime).body))
    BY <1>3 DEF KeepBody, Got, Goto, Carried, Wanted
  <2>2. Wanted' \in Seq(Page)
    BY <1>3, <2>1, WantedType DEF KeepBody, Got, Carried
  <2>3. Len(work'.pages) = 0 /\ Len(Wanted') \in Nat
    BY <2>1, <2>2
  <2>4. SubSeq(Wanted', 1, 0) = <<>>
    BY SubSeqEmpty
  <2>5. Len(work'.pages) \in 0..Len(Wanted') /\ work'.pages = SubSeq(Wanted', 1, Len(work'.pages))
    BY <2>1, <2>3, <2>4
  <2>6. QED
    BY <1>3, <2>5 DEF KeepBody, Got, Goto, Carried
<1>4. CASE FetchPage
  <2> DEFINE n == Len(work.pages)
  <2>1. pc = "fetch" /\ Wanted \in Seq(Page) /\ Wanted' = Wanted
    BY <1>4, WantedIsSeq DEF FetchPage, Carried, Wanted
  <2>2. n \in 0..(Len(Wanted) - 1) /\ work.pages = SubSeq(Wanted, 1, n)
    BY <1>4, <2>1 DEF FetchPage, Missing, Carried
  <2>3. work'.pages = Append(work.pages, Wanted[n + 1])
    BY <1>4 DEF FetchPage, Carried
  <2> HIDE DEF n
  <2>4. work'.pages = SubSeq(Wanted, 1, n + 1)
    BY <2>1, <2>2, <2>3, PrefixGrows
  <2>5. Len(work'.pages) = n + 1 /\ n + 1 \in 0..Len(Wanted)
    BY <2>1, <2>2, <2>4, SubSeqProperties
  <2>6. /\ Len(work'.pages) \in 0..Len(Wanted')
        /\ work'.pages = SubSeq(Wanted', 1, Len(work'.pages))
    BY <2>1, <2>4, <2>5
  <2>7. QED
    BY <1>4, <2>6 DEF FetchPage, Carried
<1>5. CASE BuildPrompt
  <2>1. pc = "fetch" /\ Wanted \in Seq(Page) /\ Wanted' = Wanted
    BY <1>5, WantedIsSeq DEF BuildPrompt, Carried, Wanted
  <2>2. work.pages = Wanted
    <3>1. Len(work.pages) = Len(Wanted) /\ work.pages = SubSeq(Wanted, 1, Len(work.pages))
      BY <1>5, <2>1 DEF BuildPrompt, Missing, Carried
    <3>2. QED
      BY <2>1, <3>1, SubSeqFull
  <2>3. work'.pages = Wanted' /\ work'.excerpts = Excerpts(work'.pages)
    BY <1>5, <2>1, <2>2 DEF BuildPrompt, Carried
  <2>4. QED
    BY <1>5, <2>3 DEF BuildPrompt, Goto, Carried
<1>6. ASSUME NEW refs \in BOOLEAN, NEW exports, CallTools(refs, exports)
      PROVE  Carried'
  BY <1>6 DEF CallTools, Goto, Carried, Wanted
<1>7. CASE AskModel
  BY <1>7 DEF AskModel, Goto, Carried, Wanted, Reply
<1>8. CASE SenderTakes
  BY <1>8 DEF SenderTakes, Goto, Carried, Wanted, Reply
<1>9. CASE \/ ReadFails \/ SkipSender \/ AddressFails \/ ExtractFails \/ SkipEmpty
           \/ FetchFails \/ ToolsFail \/ AskFails \/ SendFails \/ Delivered
  BY <1>9, FinishCarried
  DEF ReadFails, SkipSender, AddressFails, ExtractFails, SkipEmpty, FetchFails,
      ToolsFail, AskFails, SendFails, Delivered
<1>10. CASE UNCHANGED vars
  BY <1>10 DEF vars, Carried, Wanted, Reply
<1>11. QED
  BY <1>1, <1>2, <1>3, <1>4, <1>5, <1>6, <1>7, <1>8, <1>9, <1>10
  DEF PipelineNext, Attempt

LEMMA CarriedAlways == PipelineSpec => [](Passed /\ Carried)
BY InitPassed, InitCarried, NextPassed, NextCarried, PTL DEF PipelineSpec

\* The reply handed to the sender is complete, and only of this attempt: all
\* linked pages and exports attached, all skipped attachments reported, the
\* thread continued, and the recipients those that the mail asks for.
THEOREM ReplyIsWholeAlways == PipelineSpec => []ReplyIsWhole
<1>1. ASSUME Passed, Carried PROVE ReplyIsWhole
  <2>1. SUFFICES ASSUME Replying
                 PROVE  /\ work.reply.attached
                             = FindURLs(Unsigned(Extract(msg.mime).body)) \o work.exports
                        /\ work.reply.report = Extract(msg.mime).inc.notes
                        /\ ThreadContinues(msg, work.reply.thread)
                        /\ AddressedAsAsked(msg, work.reply.to, Fallback(msg, cfg))
    BY DEF ReplyIsWhole
  <2>2. pc \in Settled \ {"fetch"} /\ pc \in Admitted /\ msg \in Message
    BY <1>1, <2>1 DEF Carried, Replying, Admitted, Settled
  <2>3. /\ work.reply.to = Recipients(msg, Fallback(msg, cfg))
        /\ Recipients(msg, Fallback(msg, cfg)) # <<>>
        /\ work.reply.thread = Thread(msg)
    BY <1>1, <2>1, <2>2 DEF Carried, Passed, Reply, RecipientsOf
  <2>4. /\ work.reply.attached = FindURLs(Unsigned(Extract(msg.mime).body)) \o work.exports
        /\ work.reply.report = Extract(msg.mime).inc.notes
    <3>1. /\ work.reply.attached = work.pages \o work.exports
          /\ work.reply.report = work.notes
      BY <1>1, <2>1 DEF Carried, Reply
    <3>2. /\ work.pages = Wanted /\ work.body = Unsigned(Extract(msg.mime).body)
          /\ work.notes = Extract(msg.mime).inc.notes
      BY <1>1, <2>2 DEF Carried
    <3>3. QED
      BY <3>1, <3>2 DEF Wanted
  <2>5. ThreadContinues(msg, work.reply.thread)
    BY <2>2, <2>3, ThreadKept
  <2>6. AddressedAsAsked(msg, work.reply.to, Fallback(msg, cfg))
    BY <2>2, <2>3, RecipientsAddressed
  <2>7. QED
    BY <2>4, <2>5, <2>6
<1>2. QED
  BY <1>1, CarriedAlways, PTL

LEMMA FillingIsWithin ==
  ASSUME NEW fetched \in Seq(Page), NEW st, Filled(st, Len(fetched), fetched)
  PROVE  FillsBudget(fetched, st.texts)
<1> DEFINE shown == st.texts
           total == SumFunction(BytesOf(shown))
           cut == {i \in DOMAIN fetched :
                     i \notin DOMAIN shown \/ shown[i].bytes < PageBytes[fetched[i]]}
           names == [i \in DOMAIN shown |-> shown[i].page]
           first == SubSeq(fetched, 1, Len(shown))
<1>1. shown \in Seq(Excerpt) /\ st.left \in Nat
  BY DEF Filled, Filling, Shown
<1>2. DOMAIN shown = 1..Len(shown) /\ Len(shown) \in Nat /\ \A i \in 1..Len(shown) : shown[i] \in Excerpt
  <2> HIDE DEF shown
  <2>1. QED
    BY <1>1
<1>3. DOMAIN fetched = 1..Len(fetched) /\ Len(fetched) \in Nat /\ \A i \in 1..Len(fetched) : fetched[i] \in Page
  OBVIOUS
<1>4. Len(shown) <= Len(fetched) /\ \A i \in 1..Len(shown) : shown[i].page = fetched[i]
  BY DEF Filled, Filling
<1>5. total + st.left = MaxWebContext
  BY DEF Filled, Filling
<1> HIDE DEF shown
<1>6. total \in Nat
  <2>1. Summable(BytesOf(shown), 1..Len(shown)) /\ DOMAIN BytesOf(shown) = 1..Len(shown)
    BY <1>2 DEF Summable, BytesOf, Excerpt
  <2>2. IsFiniteSet(1..Len(shown))
    BY <1>2, FS_Interval
  <2>3. QED
    BY <2>1, <2>2, SumType DEF SumFunction
<1>7. names = first
  <2>1. \A i \in 1..Len(shown) : fetched[i] \in Page
    BY <1>2, <1>3, <1>4
  <2>2. names \in Seq(Page) /\ Len(names) = Len(shown) /\ \A i \in 1..Len(shown) : names[i] = fetched[i]
    <3>1. names \in [1..Len(shown) -> Page] /\ \A i \in 1..Len(shown) : names[i] = fetched[i]
      BY <1>2, <1>4, <2>1
    <3> HIDE DEF names
    <3>2. QED
      BY <1>2, <3>1
  <2>3. first \in Seq(Page) /\ Len(first) = Len(shown) /\ \A i \in 1..Len(shown) : first[i] = fetched[i]
    <3>1. /\ first \in Seq(Page)
          /\ Len(first) = IF 1 <= Len(shown) THEN Len(shown) - 1 + 1 ELSE 0
          /\ \A i \in 1..(Len(shown) - 1 + 1) : first[i] = fetched[1 + i - 1]
      BY <1>2, <2>1, SubSeqProperties
    <3> HIDE DEF first
    <3>2. QED
      BY <1>2, <3>1
  <2> HIDE DEF names, first
  <2>4. QED
    BY <2>2, <2>3, SeqEqual
<1>8. total <= MaxWebContext
  <2> HIDE DEF total
  <2>1. QED
    BY <1>1, <1>5, <1>6
<1>9. ASSUME cut # {} PROVE total = MaxWebContext
  <2>1. ~(st.left > 0)
    <3>1. SUFFICES ASSUME st.left > 0 PROVE FALSE
      OBVIOUS
    <3>2. Len(shown) = Len(fetched) /\ \A i \in 1..Len(fetched) : shown[i].bytes = PageBytes[fetched[i]]
      BY <3>1 DEF Filled, Filling, shown
    <3>3. \A i \in 1..Len(fetched) : PageBytes[fetched[i]] \in Nat
      BY <1>3, PipelineAssumption DEF Page
    <3>4. \A i \in 1..Len(fetched) : ~(shown[i].bytes < PageBytes[fetched[i]])
      BY <3>2, <3>3
    <3>5. QED
      BY <1>2, <1>3, <1>9, <3>2, <3>4
  <2> HIDE DEF total
  <2>2. QED
    BY <1>1, <1>5, <1>6, <2>1
<1>10. SumFunction(LengthsOf(shown)) <= total + (Mark - 1) * SumFunction(MarksOf(shown))
  BY DEF Filled, Repairing, shown
<1>11. ASSUME \A i \in DOMAIN fetched : IsUTF8(fetched[i])
       PROVE  SumFunction(MarksOf(shown)) <= IF cut = {} THEN 0 ELSE 1
  <2>1. CASE cut = {}
    <3>1. \A i \in DOMAIN shown : ~(shown[i].bytes < PageBytes[fetched[i]])
      <4>1. \A i \in DOMAIN shown : i \in DOMAIN fetched
        BY <1>2, <1>3, <1>4
      <4>2. QED
        BY <2>1, <4>1
    <3>2. SumFunction(MarksOf(shown)) = 0
      BY <1>11, <3>1 DEF Filled, Repairing, shown
    <3>3. QED
      BY <2>1, <3>2
  <2>2. CASE cut # {}
    <3>1. SumFunction(MarksOf(shown)) <= 1
      BY <1>11 DEF Filled, Repairing, shown
    <3>2. QED
      BY <2>2, <3>1
  <2>3. QED
    BY <2>1, <2>2
<1>12. QED
  BY <1>7, <1>8, <1>9, <1>10, <1>11 DEF FillsBudget, BytesOf, LengthsOf, MarksOf, shown

\* The model is shown the pages in order and in full until the bytes taken use
\* up the budget, and never more than the budget and the marks for broken bytes.
THEOREM ExcerptsFillBudgetAlways == PipelineSpec => []ExcerptsFillBudget
<1>1. ASSUME Passed, Carried PROVE ExcerptsFillBudget
  <2>1. CASE ~Replying
    BY <2>1 DEF ExcerptsFillBudget
  <2>2. CASE Replying
    <3>1. work.pages = Wanted /\ work.excerpts = Excerpts(work.pages) /\ pc \in Settled
      BY <1>1, <2>2 DEF Carried, Replying, Admitted, Settled
    <3>2. work.pages \in Seq(Page)
      BY <1>1, <3>1, WantedIsSeq
    <3>3. PICK st : st.texts = work.excerpts /\ Filled(st, Len(work.pages), work.pages)
      BY <3>1, <3>2, ExcerptsFill
    <3>4. QED
      BY <3>2, <3>3, FillingIsWithin DEF ExcerptsFillBudget
  <2>3. QED
    BY <2>1, <2>2
<1>2. QED
  BY <1>1, CarriedAlways, PTL
-----------------------------------------------------------------------------
(* the two exports of a docset *)

ReadPage == [entry : Nat, bytes : Nat, score : Int]

\* The pages read are those of the entries walked so far, in their order.
Gathered ==
  /\ pages \in Seq(ReadPage)
  /\ \A i, j \in DOMAIN pages : i < j => pages[i].entry < pages[j].entry
  /\ \A n \in DOMAIN pages :
       LET i == pages[n].entry
       IN  /\ i \in 1..(at - 1) /\ docset.entries[i].kind = "page"
           /\ pages[n].bytes = Label + docset.entries[i].read
  /\ \A i \in 1..(at - 1) :
       docset.entries[i].kind = "page" => \E n \in DOMAIN pages : pages[n].entry = i

Stages == {"find", "walk", "md", "org", "excerpt", "done", "failed"}

\* The walk has passed over nothing that cannot be exported, it is within the
\* limit, and each conversion is made of all it has read.
Walked ==
  /\ IsDocset(docset) /\ phase \in Stages
  /\ at \in 1..(Len(docset.entries) + 1)
  /\ Gathered
  /\ \A i \in 1..(at - 1) : docset.entries[i].kind # "foul"
  /\ SourceBytes(pages) \in 0..MaxBytes
  /\ phase \in {"md", "org", "excerpt", "done"} => at = Len(docset.entries) + 1
  /\ phase \in {"org", "excerpt", "done"} => md.of = Entries(pages)
  /\ phase \in {"excerpt", "done"} =>
       org.of = Entries(pages) /\ md.blank = FALSE /\ org.blank = FALSE
  /\ phase = "done" =>
       excerpt.of = Entries(Selected(pages)) /\ excerpt.bytes <= ContextBytes

LEMMA DocInitWalked ==
  ASSUME DocInit, phase = "find", IsDocset(docset) PROVE Walked
<1>1. Len(docset.entries) \in Nat
  BY DEF IsDocset
<1>2. pages \in Seq(ReadPage) /\ DOMAIN pages = {} /\ at = 1 /\ 1..(at - 1) = {}
  BY DEF DocInit
<1>3. SourceBytes(pages) = 0
  <2>1. DOMAIN [i \in DOMAIN pages |-> pages[i].bytes] = {}
    BY <1>2
  <2>2. QED
    BY <2>1, SumEmpty DEF SourceBytes, SumFunction
<1>4. QED
  BY <1>1, <1>2, <1>3, DocsetAssumption DEF Walked, Gathered, Stages

\* A page that fits joins the others.
LEMMA AddPageWalked == ASSUME Walked, AddPage PROVE Walked'
<1> DEFINE n == Len(pages)
           page == [entry |-> at, bytes |-> Label + Entry.read, score |-> Entry.score]
<1>1. at \in 1..Len(docset.entries) /\ at \in Nat /\ Len(docset.entries) \in Nat
  BY DEF Walked, AddPage, Walking, IsDocset
<1>2. /\ Entry.read \in Nat /\ Entry.score \in Int /\ Entry.kind = "page"
      /\ Entry = docset.entries[at]
  <2>1. docset.entries \in Seq(DocEntry) /\ Entry.kind = "page"
    BY DEF Walked, IsDocset, AddPage
  <2>2. Entry = docset.entries[at]
    BY DEF Entry
  <2>3. docset.entries[at] \in DocEntry
    BY <1>1, <2>1
  <2>4. QED
    BY <2>1, <2>2, <2>3 DEF DocEntry
<1>3. page \in ReadPage
  BY <1>1, <1>2, DocsetAssumption DEF ReadPage
<1>4. pages' = Append(pages, page) /\ at' = at + 1 /\ UNCHANGED <<docset, phase, md, org>>
  BY DEF AddPage
<1>5. pages \in Seq(ReadPage) /\ n \in Nat /\ DOMAIN pages = 1..n
  BY DEF Walked, Gathered
<1>6. page.entry = at /\ page.bytes = Label + docset.entries[at].read
  BY <1>2
<1> HIDE DEF page, n
<1>7. /\ pages' \in Seq(ReadPage) /\ DOMAIN pages' = 1..(n + 1) /\ pages'[n + 1] = page
      /\ \A i \in 1..n : pages'[i] = pages[i]
  BY <1>3, <1>4, <1>5, AppendProperties DEF n
<1>8. 1..(at' - 1) = (1..(at - 1)) \cup {at} /\ at' \in 1..(Len(docset.entries) + 1)
  BY <1>1, <1>4
<1>9. \A i \in 1..(n + 1) : i \in 1..n \/ i = n + 1
  BY <1>5
<1>10. Gathered'
  <2>1. \A i, j \in 1..(n + 1) : i < j => pages'[i].entry < pages'[j].entry
    <3>1. SUFFICES ASSUME NEW i \in 1..(n + 1), NEW j \in 1..(n + 1), i < j
                   PROVE  pages'[i].entry < pages'[j].entry
      OBVIOUS
    <3>2. i \in 1..n /\ pages[i].entry \in 1..(at - 1)
      <4>1. i \in 1..n
        BY <1>5, <3>1
      <4>2. QED
        BY <1>5, <4>1 DEF Walked, Gathered
    <3>3. CASE j \in 1..n
      BY <1>5, <1>7, <3>1, <3>2, <3>3 DEF Walked, Gathered
    <3>4. CASE j = n + 1
      BY <1>1, <1>6, <1>7, <3>2, <3>4
    <3>5. QED
      BY <1>9, <3>3, <3>4
  <2>2. ASSUME NEW k \in 1..(n + 1)
        PROVE  LET i == pages'[k].entry
               IN  /\ i \in 1..(at' - 1) /\ docset.entries[i].kind = "page"
                   /\ pages'[k].bytes = Label + docset.entries[i].read
    <3>1. CASE k \in 1..n
      <4>1. /\ pages[k].entry \in 1..(at - 1)
            /\ docset.entries[pages[k].entry].kind = "page"
            /\ pages[k].bytes = Label + docset.entries[pages[k].entry].read
        BY <1>5, <3>1 DEF Walked, Gathered
      <4>2. pages'[k] = pages[k]
        BY <1>7, <3>1
      <4>3. QED
        BY <1>8, <4>1, <4>2
    <3>2. CASE k = n + 1
      BY <1>2, <1>6, <1>7, <1>8, <3>2
    <3>3. QED
      BY <1>9, <3>1, <3>2
  <2>3. ASSUME NEW i \in 1..(at' - 1), docset.entries[i].kind = "page"
        PROVE  \E k \in 1..(n + 1) : pages'[k].entry = i
    <3>1. CASE i = at
      BY <1>5, <1>6, <1>7, <3>1
    <3>2. CASE i \in 1..(at - 1)
      <4>1. PICK k \in 1..n : pages[k].entry = i
        BY <1>5, <2>3, <3>2 DEF Walked, Gathered
      <4>2. k \in 1..(n + 1) /\ pages'[k] = pages[k]
        BY <1>5, <1>7
      <4>3. QED
        BY <4>1, <4>2
    <3>3. QED
      BY <1>8, <3>1, <3>2
  <2>4. QED
    BY <1>4, <1>7, <2>1, <2>2, <2>3 DEF Gathered
<1>11. SourceBytes(pages') \in 0..MaxBytes
  <2> DEFINE f == [i \in DOMAIN pages |-> pages[i].bytes]
             g == [i \in DOMAIN pages' |-> pages'[i].bytes]
  <2>1. DOMAIN f = 1..n /\ DOMAIN g = 1..(n + 1) /\ \A i \in 1..n : f[i] = g[i]
    BY <1>5, <1>7
  <2>2. \A i \in 1..(n + 1) : pages'[i] \in ReadPage
    <3>1. \A i \in 1..n : pages[i] \in ReadPage
      BY <1>5
    <3>2. QED
      BY <1>3, <1>7, <1>9, <3>1
  <2>3. Summable(g, 1..(n + 1))
    BY <1>7, <2>2 DEF Summable, ReadPage
  <2>4. g[n + 1] = Label + Entry.read
    BY <1>2, <1>5, <1>6, <1>7
  <2>5. SumFunction(f) = SourceBytes(pages) /\ SumFunction(g) = SourceBytes(pages')
    BY DEF SourceBytes
  <2> HIDE DEF f, g
  <2>6. SumFunction(f) \in Nat /\ SumFunction(g) = SumFunction(f) + g[n + 1]
    BY <1>5, <2>1, <2>3, SumAppend
  <2>7. Label + Entry.read <= MaxBytes - SourceBytes(pages)
    BY DEF AddPage, Fits
  <2>8. QED
    BY <1>2, <2>4, <2>5, <2>6, <2>7, DocsetAssumption
<1>12. phase = "walk"
  BY DEF AddPage, Walking
<1>13. \A i \in 1..(at' - 1) : docset.entries[i].kind # "foul"
  BY <1>2, <1>8 DEF Walked
<1>14. QED
  BY <1>4, <1>8, <1>10, <1>11, <1>12, <1>13 DEF Walked

LEMMA NextWalked == ASSUME Walked, [DocNext]_docVars PROVE Walked'
<1> DEFINE Kept == UNCHANGED <<docset, at, pages>>
<1>1. CASE FindDocset \/ NotThere \/ RefuseEntry \/ Fails
  <2>1. Kept /\ UNCHANGED <<md, org, excerpt>> /\ phase' \in {"walk", "failed"}
    BY <1>1 DEF FindDocset, NotThere, RefuseEntry, Fails, Abandon, Enter
  <2>2. QED
    BY <2>1 DEF Walked, Gathered, Stages
<1>2. CASE PassAside
  <2>1. /\ at \in 1..Len(docset.entries) /\ at' = at + 1 /\ phase = "walk"
        /\ docset.entries[at].kind = "aside"
        /\ UNCHANGED <<docset, phase, pages, md, org, excerpt>>
    BY <1>2 DEF PassAside, Walking, Walked, IsDocset, Entry
  <2>2. 1..(at' - 1) = (1..(at - 1)) \cup {at} /\ at' \in 1..(Len(docset.entries) + 1)
    BY <2>1 DEF Walked, IsDocset
  <2>3. Gathered'
    BY <2>1, <2>2 DEF Walked, Gathered
  <2>4. QED
    BY <2>1, <2>2, <2>3 DEF Walked
<1>3. CASE AddPage
  BY <1>3, AddPageWalked
<1>4. CASE EndWalk
  <2>1. Kept /\ UNCHANGED <<md, org, excerpt>> /\ phase' \in {"failed", "md"}
        /\ at > Len(docset.entries)
    BY <1>4 DEF EndWalk, Enter
  <2>2. at = Len(docset.entries) + 1
    BY <2>1 DEF Walked, IsDocset
  <2>3. QED
    BY <2>1, <2>2 DEF Walked, Gathered, Stages
<1>5. CASE ConvertMarkdown
  <2>1. Kept /\ UNCHANGED <<org, excerpt>> /\ phase = "md" /\ phase' = "org"
        /\ md'.of = Entries(pages)
    BY <1>5 DEF ConvertMarkdown, Enter
  <2>2. QED
    BY <2>1 DEF Walked, Gathered, Stages
<1>6. CASE ConvertOrg
  <2>1. PICK blank \in BOOLEAN :
          /\ org' = [of |-> Entries(pages), blank |-> blank]
          /\ phase' = IF blank \/ md.blank THEN "failed" ELSE "excerpt"
    BY <1>6 DEF ConvertOrg, Enter
  <2>2. Kept /\ UNCHANGED <<md, excerpt>> /\ phase = "org"
    BY <1>6 DEF ConvertOrg
  <2>3. md.of = Entries(pages) /\ at = Len(docset.entries) + 1
    BY <2>2 DEF Walked
  <2>4. CASE phase' = "failed"
    BY <2>2, <2>4 DEF Walked, Gathered, Stages
  <2>5. CASE phase' = "excerpt"
    BY <2>1, <2>2, <2>3, <2>5 DEF Walked, Gathered, Stages
  <2>6. QED
    BY <2>1, <2>4, <2>5
<1>7. CASE ConvertExcerpt
  <2>1. PICK n \in 0..MaxExcerpt : \E kept \in CutTo(n) :
          excerpt' = [of |-> Entries(Selected(pages)), bytes |-> kept]
    BY <1>7 DEF ConvertExcerpt
  <2>2. PICK kept \in CutTo(n) :
          excerpt' = [of |-> Entries(Selected(pages)), bytes |-> kept]
    BY <2>1
  <2>3. kept <= ContextBytes
    BY <2>2, DocsetAssumption DEF CutTo
  <2>4. Kept /\ UNCHANGED <<md, org>> /\ phase = "excerpt" /\ phase' = "done"
    BY <1>7 DEF ConvertExcerpt, Enter
  <2>5. Entries(Selected(pages'))  = excerpt'.of /\ excerpt'.bytes = kept
    BY <2>2, <2>4
  <2>6. QED
    BY <2>3, <2>4, <2>5 DEF Walked, Gathered, Stages
<1>8. CASE UNCHANGED docVars
  BY <1>8 DEF docVars, Walked, Gathered, Stages, SourceBytes
<1>9. QED
  BY <1>1, <1>2, <1>3, <1>4, <1>5, <1>6, <1>7, <1>8 DEF DocNext

THEOREM WalkedAlways == DocSpec => []Walked
<1>1. ASSUME DocInit, phase = "find", IsDocset(docset) PROVE Walked
  BY <1>1, DocInitWalked
<1>2. Walked /\ [DocNext]_docVars => Walked'
  BY NextWalked
<1>3. QED
  BY <1>1, <1>2, PTL DEF DocSpec

LEMMA WalkedIsComplete == Walked => ExportComplete
<1> SUFFICES ASSUME Walked, phase = "done" PROVE ExportComplete
  BY DEF ExportComplete
<1> DEFINE entries == docset.entries
           all == {i \in DOMAIN entries : entries[i].kind = "page"}
           list == Entries(pages)
           f == [i \in all |-> Label + entries[i].read]
           g == [i \in DOMAIN pages |-> pages[i].bytes]
<1>1. DOMAIN entries = 1..(at - 1) /\ IsFiniteSet(DOMAIN pages)
  <2>1. entries \in Seq(DocEntry)
    BY DEF Walked, IsDocset
  <2>2. at = Len(entries) + 1
    BY DEF Walked
  <2>3. Len(pages) \in Nat /\ DOMAIN pages = 1..Len(pages)
    BY DEF Walked, Gathered
  <2>4. QED
    BY <2>1, <2>2, <2>3, FS_Interval
<1>2. DOMAIN list = DOMAIN pages /\ \A n \in DOMAIN pages : list[n] = pages[n].entry
  BY DEF Entries
<1>3. ToSet(list) = {list[n] : n \in DOMAIN pages}
  BY <1>2 DEF ToSet
<1> HIDE DEF list
<1>4. {list[n] : n \in DOMAIN pages} = all
  <2>1. \A n \in DOMAIN pages :
          pages[n].entry \in 1..(at - 1) /\ entries[pages[n].entry].kind = "page"
    BY DEF Walked, Gathered
  <2>2. \A i \in 1..(at - 1) :
          entries[i].kind = "page" => \E n \in DOMAIN pages : pages[n].entry = i
    BY DEF Walked, Gathered
  <2> HIDE DEF entries
  <2>3. QED
    BY <1>1, <1>2, <2>1, <2>2
<1>5. \A i, j \in DOMAIN list : i < j => list[i] < list[j]
  <2>1. \A i, j \in DOMAIN pages : i < j => pages[i].entry < pages[j].entry
    BY DEF Walked, Gathered
  <2>2. QED
    BY <1>2, <2>1
<1>6. \A i, j \in DOMAIN pages : list[i] = list[j] => i = j
  <2>1. SUFFICES ASSUME NEW i \in DOMAIN pages, NEW j \in DOMAIN pages, i # j
                 PROVE  list[i] # list[j]
    OBVIOUS
  <2>2. i \in Nat /\ j \in Nat /\ pages[i] \in ReadPage /\ pages[j] \in ReadPage
    BY DEF Walked, Gathered
  <2>3. i < j \/ j < i
    BY <2>1, <2>2
  <2>4. pages[i].entry \in Nat /\ pages[j].entry \in Nat
    BY <2>2 DEF ReadPage
  <2>5. list[i] < list[j] \/ list[j] < list[i]
    BY <1>2, <1>5, <2>3
  <2>6. QED
    BY <1>2, <2>4, <2>5
<1>7. \A n \in DOMAIN pages : g[n] = f[list[n]] /\ f[list[n]] \in Nat
  <2>1. SUFFICES ASSUME NEW n \in DOMAIN pages
                 PROVE  g[n] = f[list[n]] /\ f[list[n]] \in Nat
    OBVIOUS
  <2>2. list[n] \in all /\ pages[n].bytes = Label + entries[list[n]].read
    BY <1>1, <1>2 DEF Walked, Gathered
  <2>3. pages[n] \in ReadPage
    BY DEF Walked, Gathered
  <2>4. QED
    BY <2>2, <2>3 DEF ReadPage
<1>8. SumFunctionOnSet(g, DOMAIN pages) = SumFunctionOnSet(f, all)
  <2> HIDE DEF f, g
  <2>1. SumFunctionOnSet(g, DOMAIN pages) = SumFunctionOnSet(f, {list[n] : n \in DOMAIN pages})
    BY <1>1, <1>6, <1>7, SumImage
  <2>2. QED
    BY <1>4, <2>1
<1>9. SumFunction(f) <= MaxBytes
  <2>1. SumFunction(f) = SumFunctionOnSet(f, all) /\ SourceBytes(pages) = SumFunctionOnSet(g, DOMAIN pages)
    BY DEF SumFunction, SourceBytes
  <2>2. SourceBytes(pages) <= MaxBytes
    BY DocsetAssumption DEF Walked
  <2>3. QED
    BY <1>8, <2>1, <2>2
<1>10. md.of = list /\ org.of = list /\ ~md.blank /\ ~org.blank
  BY DEF Walked, list
<1>11. \A i \in DOMAIN entries : entries[i].kind # "foul"
  BY <1>1 DEF Walked
<1>12. QED
  BY <1>3, <1>4, <1>5, <1>9, <1>10, <1>11 DEF ExportComplete

\* Whatever the docset, and whichever of its commands fails, a result comes with
\* every page in both exports, in order and within the limit (exportDocset).
THEOREM ExportCompleteAlways == DocSpec => []ExportComplete
BY WalkedIsComplete, WalkedAlways, PTL
-----------------------------------------------------------------------------
(* the best pages of a docset *)

\* Pages with entries of their own, as the walk leaves them.
Walk == {p \in Seq(ReadPage) :
           \A i, j \in DOMAIN p : i < j => p[i].entry < p[j].entry}

\* The same pages, best first.
IsRanking(order, p) ==
  /\ order \in [1..Len(p) -> ToSet(p)]
  /\ \A q \in ToSet(p) : \E n \in 1..Len(p) : order[n] = q
  /\ \A i, j \in 1..Len(p) :
       i < j => order[i] # order[j] /\ order[i].score >= order[j].score

LEMMA PagesDiffer ==
  ASSUME NEW p \in Walk, NEW i \in DOMAIN p, NEW j \in DOMAIN p, i # j
  PROVE  p[i].entry # p[j].entry
<1>1. i \in Nat /\ j \in Nat /\ p[i] \in ReadPage /\ p[j] \in ReadPage
  BY DEF Walk
<1>2. p[i].entry \in Nat /\ p[j].entry \in Nat
  BY <1>1 DEF ReadPage
<1>3. p[i].entry < p[j].entry \/ p[j].entry < p[i].entry
  <2>1. i < j \/ j < i
    BY <1>1
  <2>2. QED
    BY <2>1 DEF Walk
<1>4. QED
  BY <1>2, <1>3

\* Each page has a place of its own, behind those that go before it.
LEMMA RankedIsRanking == ASSUME NEW p \in Walk PROVE IsRanking(Ranked(p), p)
<1> DEFINE S == ToSet(p)
           n == Len(p)
           Ahead(q) == {r \in S : Before(r, q)}
           place == [q \in S |-> Cardinality(Ahead(q)) + 1]
           order == Ranked(p)
<1>1. p \in Seq(ReadPage) /\ n \in Nat /\ DOMAIN p = 1..n
  BY DEF Walk
<1>2. \A q \in S : \E i \in 1..n : p[i] = q
  BY <1>1 DEF ToSet
<1>3. S \subseteq ReadPage
  BY <1>1, <1>2
<1>4. \A q, r \in S : q.entry = r.entry => q = r
  <2>1. SUFFICES ASSUME NEW q \in S, NEW r \in S, q # r PROVE q.entry # r.entry
    OBVIOUS
  <2>2. PICK i \in 1..n, j \in 1..n : p[i] = q /\ p[j] = r
    BY <1>2
  <2>3. QED
    BY <1>1, <2>1, <2>2, PagesDiffer
<1>5. IsFiniteSet(S) /\ Cardinality(S) = n
  <2>1. p \in [1..n -> S]
    BY <1>1 DEF ToSet
  <2>2. \A i, j \in 1..n : p[i] = p[j] => i = j
    BY <1>1, PagesDiffer
  <2>3. p \in Bijection(1..n, S)
    BY <1>2, <2>1, <2>2 DEF Bijection, Injection, Surjection, IsInjective
  <2>4. ExistsBijection(1..n, S)
    BY <2>3 DEF ExistsBijection
  <2>5. IsFiniteSet(S)
    BY <1>1, <2>4, FS_NatBijection
  <2>6. QED
    BY <1>1, <2>4, <2>5, FS_CountingElements
<1> HIDE DEF S, n
<1>6. \A q \in S : q.entry \in Nat /\ q.score \in Int
  BY <1>3 DEF ReadPage
<1>7. ASSUME NEW q \in S
      PROVE  /\ IsFiniteSet(Ahead(q)) /\ Cardinality(Ahead(q)) \in Nat
             /\ Cardinality(Ahead(q)) < n
  <2>1. Ahead(q) \in SUBSET S /\ q \notin Ahead(q)
    BY <1>6, <1>7 DEF Before
  <2>2. Cardinality(Ahead(q)) <= n /\ Cardinality(Ahead(q)) # n /\ IsFiniteSet(Ahead(q))
    BY <1>5, <1>7, <2>1, FS_Subset
  <2>3. Cardinality(Ahead(q)) \in Nat
    BY <2>2, FS_CardinalityType
  <2>4. QED
    BY <1>1, <2>2, <2>3
<1>8. place \in [S -> 1..n]
  <2>1. ASSUME NEW c \in Nat, c < n PROVE c + 1 \in 1..n
    BY <1>1, <2>1
  <2>2. \A q \in S : Cardinality(Ahead(q)) + 1 \in 1..n
    BY <1>7, <2>1
  <2> HIDE DEF Ahead
  <2>3. QED
    BY <2>2
<1>9. ASSUME NEW q \in S, NEW r \in S, Before(r, q) PROVE place[r] < place[q]
  <2>1. Ahead(r) \in SUBSET Ahead(q) /\ r \in Ahead(q) /\ r \notin Ahead(r)
    BY <1>6, <1>9 DEF Before
  <2>2. Cardinality(Ahead(r)) <= Cardinality(Ahead(q))
        /\ Cardinality(Ahead(r)) # Cardinality(Ahead(q))
    BY <1>7, <2>1, FS_Subset
  <2>3. Cardinality(Ahead(r)) \in Nat /\ Cardinality(Ahead(q)) \in Nat
    BY <1>7
  <2> HIDE DEF Ahead
  <2>4. QED
    BY <2>2, <2>3
<1>10. \A q, r \in S : q # r => Before(q, r) \/ Before(r, q)
  <2>1. SUFFICES ASSUME NEW q \in S, NEW r \in S, q # r PROVE Before(q, r) \/ Before(r, q)
    OBVIOUS
  <2>2. q.entry # r.entry
    BY <1>4, <2>1
  <2>3. QED
    BY <1>6, <2>2 DEF Before
<1> HIDE DEF Ahead
<1>11. \A q, r \in S : place[q] = place[r] => q = r
  <2>1. SUFFICES ASSUME NEW q \in S, NEW r \in S, q # r PROVE place[q] # place[r]
    OBVIOUS
  <2>2. place[q] \in Int /\ place[r] \in Int
    BY <1>8
  <2>3. place[q] < place[r] \/ place[r] < place[q]
    BY <1>9, <1>10, <2>1
  <2>4. QED
    BY <2>2, <2>3
<1>12. \A k \in 1..n : \E q \in S : place[q] = k
  <2> HIDE DEF place
  <2>1. place \in Injection(S, 1..n)
    BY <1>8, <1>11 DEF Injection, IsInjective
  <2>2. IsFiniteSet(1..n) /\ Cardinality(1..n) = n
    BY <1>1, FS_Interval
  <2>3. place \in Surjection(S, 1..n)
    BY <1>5, <2>1, <2>2, FS_Injection
  <2>4. QED
    BY <2>3 DEF Surjection
<1>13. /\ order = [k \in 1..n |-> order[k]]
       /\ \A k \in 1..n : order[k] = CHOOSE q \in S : Cardinality(Ahead(q)) + 1 = k
  <2>1. order = [k \in DOMAIN p |-> CHOOSE q \in S : Cardinality(Ahead(q)) + 1 = k]
    BY DEF Ranked, S, Ahead
  <2> HIDE DEF order
  <2>2. QED
    BY <1>1, <2>1
<1> HIDE DEF order
<1>14. ASSUME NEW k \in 1..n PROVE order[k] \in S /\ place[order[k]] = k
  <2>1. \E q \in S : Cardinality(Ahead(q)) + 1 = k
    BY <1>12
  <2>2. order[k] \in S /\ Cardinality(Ahead(order[k])) + 1 = k
    BY <1>13, <2>1
  <2>3. QED
    BY <2>2
<1> HIDE DEF place
<1>15. order \in [1..n -> S]
  BY <1>13, <1>14
<1>16. ASSUME NEW q \in S PROVE \E k \in 1..n : order[k] = q
  <2>1. place[q] \in 1..n
    BY <1>8
  <2>2. order[place[q]] = q
    BY <1>11, <1>14, <2>1
  <2>3. QED
    BY <2>1, <2>2
<1>17. ASSUME NEW i \in 1..n, NEW j \in 1..n, i < j
       PROVE  order[i] # order[j] /\ order[i].score >= order[j].score
  <2>1. place[order[i]] = i /\ place[order[j]] = j /\ order[i] \in S /\ order[j] \in S
    BY <1>14
  <2>2. order[i] # order[j] /\ ~Before(order[j], order[i])
    <3>1. i \in Int /\ j \in Int /\ ~(j < i) /\ i # j
      BY <1>1, <1>17
    <3>2. QED
      BY <1>9, <2>1, <3>1
  <2>3. ~(order[j].score > order[i].score)
    BY <2>2 DEF Before
  <2>4. QED
    BY <1>6, <2>1, <2>2, <2>3
<1>18. QED
  BY <1>15, <1>16, <1>17 DEF IsRanking, S, n, order

-----------------------------------------------------------------------------
\* Take inside Selected, and the recursive function of its fold.
Taking(taken, page) ==
  IF SourceBytes(taken) >= Budget THEN taken ELSE Append(taken, page)

IsTaking(g, order) ==
  g = [d \in SUBSET DOMAIN order |->
         IF d = {} THEN <<>> ELSE Taking(g[d \ {Max(d)}], order[Max(d)])]

Takings(order) == CHOOSE g : IsTaking(g, order)

LEMMA SelectedTakes == \A p : Selected(p) = Takings(Ranked(p))[DOMAIN Ranked(p)]
BY DEF Selected, FoldLeft, MapThenFoldSet, Takings, IsTaking, Taking

LEMMA TakingStep ==
  ASSUME NEW order \in Seq(ReadPage)
  PROVE  /\ Takings(order)[1..0] = <<>>
         /\ \A k \in 1..Len(order) :
              Takings(order)[1..k] = Taking(Takings(order)[1..(k - 1)], order[k])
<1> DEFINE n == Len(order)
           V == Seq(ReadPage)
           step == [i \in 1..n |-> [v \in V |-> Taking(v, order[i])]]
<1>1. n \in Nat /\ DOMAIN order = 1..n /\ \A i \in 1..n : order[i] \in ReadPage
  OBVIOUS
<1>2. step \in [1..n -> [V -> V]]
  <2>1. \A i \in 1..n, v \in V : Taking(v, order[i]) \in V
    BY <1>1, AppendProperties DEF Taking
  <2> HIDE DEF V
  <2>2. QED
    BY <2>1
<1>3. PICK g : IsLeftFold(g, n, V, <<>>, step)
  <2>1. <<>> \in V
    OBVIOUS
  <2> HIDE DEF step, n, V
  <2>2. QED
    BY <1>1, <1>2, <2>1, LeftFoldExists, Zenon
<1> HIDE DEF V
<1>4. IsTaking(g, order)
  <2>1. ASSUME NEW d \in SUBSET (1..n), d # {}
        PROVE  g[d] = Taking(g[d \ {Max(d)}], order[Max(d)])
    <3>1. g[d \ {Max(d)}] \in V /\ Max(d) \in 1..n
      BY <1>3, <2>1 DEF IsLeftFold
    <3>2. g[d] = step[Max(d)][g[d \ {Max(d)}]]
      BY <1>3, <2>1 DEF IsLeftFold
    <3>3. QED
      BY <3>1, <3>2
  <2>2. g[{}] = <<>> /\ g = [d \in SUBSET (1..n) |-> g[d]]
    BY <1>3 DEF IsLeftFold
  <2> HIDE DEF step
  <2>3. QED
    BY <1>1, <2>1, <2>2 DEF IsTaking
<1> DEFINE A == Takings(order)
<1>5. IsTaking(A, order)
  BY <1>4 DEF Takings
<1>6. A[1..0] = <<>>
  BY <1>1, <1>5 DEF IsTaking
<1>7. ASSUME NEW k \in 1..n
      PROVE  A[1..k] = Taking(A[1..(k - 1)], order[k])
  <2>1. 1..k \in SUBSET (DOMAIN order) /\ k \in Nat \ {0}
    BY <1>1
  <2>2. 1..k # {} /\ Max(1..k) = k /\ (1..k) \ {k} = 1..(k - 1)
    BY <2>1, LastPosition
  <2>3. A[1..k] = IF 1..k = {} THEN <<>>
                  ELSE Taking(A[(1..k) \ {Max(1..k)}], order[Max(1..k)])
    <3> HIDE DEF A
    <3>1. QED
      BY <1>5, <2>1 DEF IsTaking
  <2>4. QED
    BY <2>2, <2>3
<1>8. QED
  BY <1>6, <1>7

LEMMA SourceBytesType == ASSUME NEW p \in Seq(ReadPage) PROVE SourceBytes(p) \in Nat
<1> DEFINE f == [i \in DOMAIN p |-> p[i].bytes]
<1>1. DOMAIN p = 1..Len(p) /\ Len(p) \in Nat /\ \A i \in 1..Len(p) : p[i] \in ReadPage
  OBVIOUS
<1>2. IsFiniteSet(DOMAIN p)
  BY <1>1, FS_Interval
<1>3. Summable(f, DOMAIN p)
  BY <1>1 DEF Summable, ReadPage
<1>4. SourceBytes(p) = SumFunctionOnSet(f, DOMAIN p)
  BY DEF SourceBytes, SumFunction
<1> HIDE DEF f
<1>5. QED
  BY <1>2, <1>3, <1>4, SumType

\* The first m pages of the ranking, m no greater than it takes for the budget.
IsCut(taken, m, order) ==
  /\ taken \in Seq(ReadPage) /\ Len(taken) = m
  /\ \A i \in 1..m : taken[i] = order[i]
  /\ m > 0 => SourceBytes(SubSeq(order, 1, m - 1)) < Budget

LEMMA SelectedCuts ==
  ASSUME NEW p \in Walk
  PROVE  \E m \in 0..Len(p) :
           /\ IsCut(Selected(p), m, Ranked(p))
           /\ m = Len(p) \/ SourceBytes(Selected(p)) >= Budget
<1> DEFINE order == Ranked(p)
           n == Len(p)
           A == Takings(order)
<1>1. p \in Seq(ReadPage) /\ n \in Nat
  BY DEF Walk
<1>2. order \in [1..n -> ReadPage]
  <2>1. ToSet(p) \subseteq ReadPage
    BY <1>1 DEF ToSet
  <2>2. order \in [1..n -> ToSet(p)]
    BY RankedIsRanking DEF IsRanking
  <2> HIDE DEF order
  <2>3. QED
    BY <2>1, <2>2
<1> HIDE DEF order
<1>3. order \in Seq(ReadPage) /\ Len(order) = n /\ DOMAIN order = 1..n
  BY <1>1, <1>2
<1>4. /\ A[1..0] = <<>>
      /\ \A k \in 1..n : A[1..k] = Taking(A[1..(k - 1)], order[k])
  BY <1>3, TakingStep
<1> HIDE DEF A, n
<1> DEFINE Holds(k) ==
             \E m \in 0..k : /\ IsCut(A[1..k], m, order)
                             /\ m = k \/ SourceBytes(A[1..k]) >= Budget
           T == {k \in Nat : k <= n => Holds(k)}
<1>5. Holds(0)
  <2>1. <<>> \in Seq(ReadPage) /\ Len(<<>>) = 0 /\ 1..0 = {}
    OBVIOUS
  <2>2. IsCut(A[1..0], 0, order)
    BY <1>4, <2>1 DEF IsCut
  <2>3. QED
    BY <2>2
<1>6. ASSUME NEW k \in Nat, k + 1 <= n, Holds(k) PROVE Holds(k + 1)
  <2>1. PICK m \in 0..k : /\ IsCut(A[1..k], m, order)
                          /\ m = k \/ SourceBytes(A[1..k]) >= Budget
    BY <1>6
  <2>2. A[1..(k + 1)] = Taking(A[1..k], order[k + 1])
    <3>1. k + 1 \in 1..n /\ (k + 1) - 1 = k
      BY <1>1, <1>6
    <3>2. QED
      BY <1>4, <3>1
  <2>3. CASE SourceBytes(A[1..k]) >= Budget
    <3>1. A[1..(k + 1)] = A[1..k] /\ m \in 0..(k + 1)
      BY <2>2, <2>3 DEF Taking
    <3>2. QED
      BY <2>1, <2>3, <3>1
  <2>4. CASE ~(SourceBytes(A[1..k]) >= Budget)
    <3> DEFINE s == A[1..k]
               t == A[1..(k + 1)]
    <3>1. m = k /\ IsCut(s, k, order) /\ t = Append(s, order[k + 1])
      BY <2>1, <2>2, <2>4 DEF Taking
    <3> HIDE DEF s, t
    <3>2. s \in Seq(ReadPage) /\ Len(s) = k /\ \A i \in 1..k : s[i] = order[i]
      BY <3>1 DEF IsCut
    <3>3. order[k + 1] \in ReadPage
      BY <1>1, <1>2, <1>6
    <3>4. /\ t \in Seq(ReadPage) /\ Len(t) = k + 1 /\ t[k + 1] = order[k + 1]
          /\ \A i \in 1..k : t[i] = s[i]
      BY <3>1, <3>2, <3>3, AppendProperties
    <3>5. \A i \in 1..(k + 1) : t[i] = order[i]
      BY <3>2, <3>4
    <3>6. s = SubSeq(order, 1, k)
      BY <1>1, <1>3, <1>6, <3>2
    <3>7. SourceBytes(s) < Budget
      BY <2>4, <3>2, SourceBytesType, DocsetAssumption DEF s, Budget
    <3>8. IsCut(t, k + 1, order)
      <4>1. (k + 1) - 1 = k
        OBVIOUS
      <4>2. QED
        BY <3>4, <3>5, <3>6, <3>7, <4>1 DEF IsCut
    <3>9. k + 1 \in 0..(k + 1)
      OBVIOUS
    <3>10. QED
      BY <3>8, <3>9 DEF t
  <2>5. QED
    BY <2>3, <2>4
<1>7. \A k \in Nat : k \in T => k + 1 \in T
  <2> HIDE DEF Holds
  <2>1. SUFFICES ASSUME NEW k \in Nat, k \in T, k + 1 <= n PROVE Holds(k + 1)
    OBVIOUS
  <2>2. k <= n
    BY <1>1, <2>1 DEF n
  <2>3. Holds(k)
    BY <2>1, <2>2
  <2>4. QED
    BY <1>6, <2>1, <2>3
<1>8. Nat \subseteq T
  <2>1. 0 \in T
    <3> HIDE DEF Holds
    <3>1. QED
      BY <1>5
  <2> HIDE DEF T
  <2>2. QED
    BY <1>7, <2>1, NatInduct
<1>9. Holds(n)
  <2> HIDE DEF Holds
  <2>1. n \in T /\ n <= n
    BY <1>1, <1>8 DEF n
  <2>2. QED
    BY <2>1
<1>10. Selected(p) = A[1..n]
  BY <1>3, SelectedTakes DEF A, order
<1>11. QED
  BY <1>9, <1>10 DEF order, n

\* Pages weigh the same in the order of the walk and in that of the ranking.
LEMMA BestWeigh ==
  ASSUME NEW p \in Walk, NEW order, IsRanking(order, p), NEW k \in 0..Len(p),
         NEW S, S = {i \in DOMAIN p : \E j \in 1..k : order[j] = p[i]}
  PROVE  SumFunction([i \in S |-> p[i].bytes]) = SourceBytes(SubSeq(order, 1, k))
<1> DEFINE n == Len(p)
           t == SubSeq(order, 1, k)
           f == [i \in S |-> p[i].bytes]
           g == [j \in DOMAIN t |-> t[j].bytes]
           h == [j \in 1..k |-> CHOOSE i \in DOMAIN p : p[i] = order[j]]
<1>1. p \in Seq(ReadPage) /\ n \in Nat /\ DOMAIN p = 1..n /\ k \in Nat /\ k <= n
  BY DEF Walk
<1>2. \A i \in DOMAIN p : p[i] \in ReadPage
  BY <1>1
<1> HIDE DEF n
<1>3. \A j \in 1..k : order[j] \in ToSet(p) /\ j \in 1..n
  <2>1. \A j \in 1..n : order[j] \in ToSet(p)
    BY DEF IsRanking, n
  <2>2. \A j \in 1..k : j \in 1..n
    BY <1>1
  <2>3. QED
    BY <2>1, <2>2
<1>4. \A j \in 1..k : \E i \in DOMAIN p : p[i] = order[j]
  BY <1>3 DEF ToSet
<1>5. \A j \in 1..k : h[j] \in DOMAIN p /\ p[h[j]] = order[j]
  BY <1>4
<1>6. DOMAIN t = 1..k /\ \A j \in 1..k : t[j] = order[j]
  <2>1. order \in Seq(ToSet(p)) /\ Len(order) = n
    BY <1>1 DEF IsRanking, n
  <2>2. QED
    BY <1>1, <2>1
<1> HIDE DEF h, t
<1>7. \A i, j \in 1..k : h[i] = h[j] => i = j
  <2>1. SUFFICES ASSUME NEW i \in 1..k, NEW j \in 1..k, i # j PROVE h[i] # h[j]
    OBVIOUS
  <2>2. i < j \/ j < i
    BY <1>1, <2>1
  <2>3. order[i] # order[j]
    BY <1>3, <2>2 DEF IsRanking, n
  <2>4. QED
    BY <1>5, <2>3
<1>8. {h[j] : j \in 1..k} = S
  <2>1. ASSUME NEW i \in S PROVE \E j \in 1..k : h[j] = i
    <3>1. PICK j \in 1..k : order[j] = p[i]
      BY <2>1
    <3>2. i \in DOMAIN p /\ h[j] \in DOMAIN p /\ p[h[j]] = p[i]
      BY <1>5, <2>1, <3>1
    <3>3. h[j] = i
      BY <3>2, PagesDiffer
    <3>4. QED
      BY <3>3
  <2>2. \A j \in 1..k : h[j] \in S
    BY <1>5
  <2>3. \A i : i \in {h[j] : j \in 1..k} <=> i \in S
    BY <2>1, <2>2
  <2>4. QED
    BY <2>3
<1>9. \A j \in 1..k : g[j] = f[h[j]] /\ f[h[j]] \in Nat
  <2>1. SUFFICES ASSUME NEW j \in 1..k PROVE g[j] = f[h[j]] /\ f[h[j]] \in Nat
    OBVIOUS
  <2>2. h[j] \in S /\ p[h[j]] = order[j] /\ t[j] = order[j] /\ j \in DOMAIN t
    BY <1>5, <1>6, <1>8
  <2>3. p[h[j]].bytes \in Nat
    BY <1>2, <1>5 DEF ReadPage
  <2>4. QED
    BY <2>2, <2>3
<1> HIDE DEF f, g
<1>10. SumFunctionOnSet(g, 1..k) = SumFunctionOnSet(f, S)
  <2> DEFINE places == 1..k
  <2>1. IsFiniteSet(places)
    BY <1>1, FS_Interval
  <2>2. /\ \A i, j \in places : h[i] = h[j] => i = j
        /\ \A j \in places : g[j] = f[h[j]] /\ f[h[j]] \in Nat
    BY <1>7, <1>9
  <2> HIDE DEF places
  <2>3. SumFunctionOnSet(g, places) = SumFunctionOnSet(f, {h[j] : j \in places})
    BY <2>1, <2>2, SumImage
  <2>4. QED
    BY <1>8, <2>3 DEF places
<1>11. SumFunction(f) = SumFunctionOnSet(f, S) /\ SourceBytes(t) = SumFunctionOnSet(g, 1..k)
  BY <1>6 DEF f, g, SourceBytes, SumFunction
<1>12. QED
  BY <1>10, <1>11 DEF f, t

LEMMA WalkedIsBest == Walked => ExcerptIsBest
<1> SUFFICES ASSUME Walked, phase = "done" PROVE ExcerptIsBest
  BY DEF ExcerptIsBest
<1> DEFINE order == Ranked(pages)
           n == Len(pages)
           best == Selected(pages)
           taken == {i \in DOMAIN pages : Contains(excerpt.of, pages[i].entry)}
           bytes(S) == SumFunction([i \in S |-> pages[i].bytes])
           last == Last(excerpt.of)
           Leading(k) == {i \in DOMAIN pages : \E j \in 1..k : order[j] = pages[i]}
<1>1. pages \in Walk /\ n \in Nat /\ DOMAIN pages = 1..n
  BY DEF Walked, Gathered, Walk
<1>2. excerpt.of = Entries(best) /\ excerpt.bytes <= ContextBytes
  BY DEF Walked
<1>3. IsRanking(order, pages)
  BY <1>1, RankedIsRanking
<1>4. PICK m \in 0..n : IsCut(best, m, order) /\ (m = n \/ SourceBytes(best) >= Budget)
  BY <1>1, SelectedCuts
<1> HIDE DEF order, best
<1>5. /\ best \in Seq(ReadPage) /\ Len(best) = m /\ DOMAIN best = 1..m /\ m \in Nat
      /\ m <= n /\ \A j \in 1..m : best[j] = order[j]
  <2>1. best \in Seq(ReadPage) /\ Len(best) = m /\ \A j \in 1..m : best[j] = order[j]
    BY <1>4 DEF IsCut
  <2>2. QED
    BY <1>1, <2>1
<1>6. /\ excerpt.of = [j \in 1..m |-> order[j].entry]
      /\ Len(excerpt.of) = m /\ (last = order[m].entry \/ m = 0)
  <2>1. excerpt.of = [j \in 1..m |-> order[j].entry]
    BY <1>2, <1>5 DEF Entries
  <2>2. Len(excerpt.of) = m
    BY <1>5, <2>1
  <2>3. QED
    BY <1>5, <2>1, <2>2 DEF Last
<1>7. order \in Seq(ToSet(pages)) /\ Len(order) = n
  BY <1>1, <1>3 DEF IsRanking
<1>8. \A j \in 1..n : \E i \in DOMAIN pages : pages[i] = order[j]
  <2>1. \A j \in 1..n : order[j] \in ToSet(pages)
    BY <1>3 DEF IsRanking
  <2>2. QED
    BY <2>1 DEF ToSet
<1>9. \A i \in DOMAIN pages : \E j \in 1..n : order[j] = pages[i]
  BY <1>3 DEF IsRanking, ToSet
<1>10. ASSUME NEW i \in DOMAIN pages, NEW j \in 1..n, order[j].entry = pages[i].entry
       PROVE  order[j] = pages[i]
  BY <1>1, <1>8, <1>10, PagesDiffer
<1>11. \A j \in 1..m : j \in 1..n
  BY <1>5
<1>12. taken = Leading(m)
  <2>1. \A i \in DOMAIN pages :
          Contains(excerpt.of, pages[i].entry) <=> \E j \in 1..m : order[j].entry = pages[i].entry
    BY <1>6 DEF Contains
  <2>2. QED
    BY <1>10, <1>11, <2>1
<1>13. ASSUME NEW i \in taken, NEW j \in DOMAIN pages \ taken
       PROVE  pages[i].score >= pages[j].score
  <2>1. PICK a \in 1..m : order[a] = pages[i]
    BY <1>12, <1>13
  <2>2. PICK b \in 1..n : order[b] = pages[j]
    BY <1>9, <1>13
  <2>3. b \notin 1..m
    BY <1>12, <1>13, <2>2
  <2>4. a < b /\ a \in 1..n
    BY <1>1, <1>5, <2>3
  <2>5. QED
    BY <1>3, <2>1, <2>2, <2>4 DEF IsRanking
<1>14. \A k \in 0..n : bytes(Leading(k)) = SourceBytes(SubSeq(order, 1, k))
  BY <1>1, <1>3, BestWeigh
<1>15. ASSUME taken # DOMAIN pages PROVE bytes(taken) >= Budget
  <2>1. m # n
    BY <1>9, <1>12, <1>15
  <2>2. best = SubSeq(order, 1, m)
    BY <1>1, <1>5, <1>7
  <2>3. QED
    BY <1>4, <1>12, <1>14, <2>1, <2>2
<1>16. bytes({i \in taken : pages[i].entry # last}) < Budget
  <2>1. CASE m = 0
    <3> DEFINE rest == {i \in taken : pages[i].entry # last}
    <3>1. rest = {}
      BY <1>12, <2>1
    <3>2. bytes({}) = 0
      BY SumEmpty DEF SumFunction
    <3> HIDE DEF rest
    <3>3. bytes(rest) = 0 /\ 0 < Budget
      BY <3>1, <3>2, DocsetAssumption DEF Budget
    <3>4. QED
      BY <3>3 DEF rest
  <2>2. CASE m > 0
    <3>1. m - 1 \in 0..n /\ m \in 1..n
      BY <1>1, <1>5, <2>2
    <3>2. {i \in taken : pages[i].entry # last} = Leading(m - 1)
      <4>1. ASSUME NEW i \in DOMAIN pages, NEW j \in 1..m, order[j] = pages[i]
            PROVE  pages[i].entry # last <=> j \in 1..(m - 1)
        <5>1. last = order[m].entry
          BY <1>6, <2>2
        <5>2. CASE j = m
          BY <1>5, <4>1, <5>1, <5>2
        <5>3. CASE j # m
          <6>1. j \in 1..(m - 1) /\ j < m /\ j \in 1..n
            BY <1>5, <1>11, <5>3
          <6>2. order[j] # order[m]
            BY <1>3, <3>1, <6>1 DEF IsRanking
          <6>3. pages[i].entry # order[m].entry
            BY <1>10, <3>1, <4>1, <6>2
          <6>4. QED
            BY <5>1, <6>1, <6>3
        <5>4. QED
          BY <5>2, <5>3
      <4>2. \A j \in 1..(m - 1) : j \in 1..m
        BY <1>5
      <4>3. QED
        BY <1>12, <4>1, <4>2
    <3>3. SourceBytes(SubSeq(order, 1, m - 1)) < Budget
      BY <1>4, <2>2 DEF IsCut
    <3>4. QED
      BY <1>14, <3>1, <3>2, <3>3
  <2>3. QED
    BY <1>5, <2>1, <2>2
<1>17. QED
  BY <1>2, <1>13, <1>15, <1>16 DEF ExcerptIsBest

\* Whatever the docset, the excerpt is made of its best pages, as many as the
\* budget for their sources asks for (exportDocset).
THEOREM ExcerptIsBestAlways == DocSpec => []ExcerptIsBest
BY WalkedIsBest, WalkedAlways, PTL
-----------------------------------------------------------------------------
(* the layers of a configuration *)

LEMMA LayerOver ==
  \A f, g, s : s \in DOMAIN g =>
    /\ s \in DOMAIN Config!Over(f, g)
    /\ Config!Over(f, g)[s] = IF s \in DOMAIN f THEN f[s] ELSE g[s]
BY DEF Config!Over

\* For any command line, environment and files, each setting comes from the
\* highest layer that mentions it, and a command from one layer (loadConfig).
LEMMA LayersPrecede ==
  ASSUME NEW asked, Config!IsGiven(asked) PROVE Config!Precedence(asked)
<1> DEFINE config == Config!LoadConfig(asked)
           path == Config!ConfigPath(asked)
           env == [s \in Config!EnvSettings \cap DOMAIN asked.env |-> asked.env[s]]
           file == Config!FileLayer(asked)
<1> SUFFICES ASSUME Config!Loads(asked)
             PROVE  /\ \A s \in DOMAIN Config!Default :
                         config.set[s] =
                           IF s \in DOMAIN asked.flags THEN asked.flags[s]
                           ELSE IF s \in DOMAIN file.set THEN file.set[s]
                           ELSE IF s \in DOMAIN env THEN asked.env[s]
                           ELSE Config!Default[s]
                    /\ config.send =
                         IF asked.flagSend # <<>> THEN asked.flagSend ELSE file.send
  BY DEF Config!Precedence
<1>1. /\ asked.flagSend \in Seq(STRING)
      /\ \A name \in DOMAIN asked.files : asked.files[name].send \in Seq(STRING)
  BY DEF Config!IsGiven
<1>2. \A s \in Seq(STRING) : <<>> \o s = s /\ s \o <<>> = s
  OBVIOUS
<1>3. CASE path = Unset
  <2>1. /\ config.set = Config!Over(asked.flags, Config!Over(env, Config!Default))
        /\ config.send = <<>> \o asked.flagSend
    BY <1>3 DEF Config!LoadConfig, Config!Parsed, Config!FromEnv
  <2>2. file.set = <<>> /\ file.send = <<>>
    BY <1>3 DEF Config!FileLayer
  <2>3. DOMAIN file.set = {}
    BY <2>2
  <2>4. \A s \in DOMAIN Config!Default :
          config.set[s] = IF s \in DOMAIN asked.flags THEN asked.flags[s]
                          ELSE IF s \in DOMAIN env THEN env[s] ELSE Config!Default[s]
    BY <2>1, LayerOver
  <2> HIDE DEF config, file, path
  <2>5. QED
    BY <1>1, <1>2, <2>1, <2>2, <2>3, <2>4
<1>4. CASE path # Unset
  <2>1. path \in DOMAIN asked.files /\ file = asked.files[path]
    BY <1>4 DEF Config!Loads, Config!FileLayer
  <2>2. config.set = Config!Over(asked.flags, Config!Over(file.set, Config!Over(env, Config!Default)))
    BY <1>4, <2>1 DEF Config!LoadConfig, Config!Parsed, Config!FromEnv, Config!Decoded, Config!Cleared
  <2>3. config.send =
          IF asked.flagSend # <<>> THEN <<>> \o asked.flagSend
          ELSE (IF file.send # <<>> THEN file.send ELSE <<>>) \o asked.flagSend
    BY <1>4, <2>1 DEF Config!LoadConfig, Config!Parsed, Config!FromEnv, Config!Decoded, Config!Cleared
  <2>4. \A s \in DOMAIN Config!Default :
          config.set[s] = IF s \in DOMAIN asked.flags THEN asked.flags[s]
                          ELSE IF s \in DOMAIN file.set THEN file.set[s]
                          ELSE IF s \in DOMAIN env THEN env[s] ELSE Config!Default[s]
    BY <2>2, LayerOver
  <2>5. file.send \in Seq(STRING)
    BY <1>1, <2>1
  <2> HIDE DEF config, file, path
  <2>6. config.send = IF asked.flagSend # <<>> THEN asked.flagSend ELSE file.send
    BY <1>1, <1>2, <2>3, <2>5
  <2>7. QED
    BY <2>4, <2>6
<1>5. QED
  BY <1>3, <1>4
-----------------------------------------------------------------------------
(* the scan of a Maildir *)

\* What FindsDue asks of what is listed, from any folder on.
IsDue(fsys, excluded, dir, f) ==
  /\ \E d \in OnTheWay(dir, f) : Inside(d, f) /\ MessageDir(fsys, d)
  /\ \A d \in OnTheWay(dir, f) : MessageDir(fsys, d) => Inside(d, f)
  /\ OnTheWay(dir, f) \cap excluded = {}
  /\ Last(f) \notin Hidden

DueBelow(fsys, excluded, dir) == {f \in Listed(fsys) : IsDue(fsys, excluded, dir, f)}

Children(fsys, dir) == {e \in fsys.dirs : Inside(dir, e)}

\* The recursive function inside Scanned.
IsScan(g, fsys, excluded) ==
  g = [d \in fsys.dirs |->
         IF d \in excluded THEN {}
         ELSE IF MessageDir(fsys, d) THEN MessagesIn(fsys, d)
         ELSE UNION {g[e] : e \in {e \in fsys.dirs : Inside(d, e)}}]

Scan(fsys, excluded) == CHOOSE g : IsScan(g, fsys, excluded)

LEMMA ScannedIsScan ==
  \A fsys, excluded, dir : Scanned(fsys, excluded, dir) = Scan(fsys, excluded)[dir]
BY DEF Scanned, Scan, IsScan

\* Prefixes of a path by their length.
LEMMA PrefixOf ==
  ASSUME NEW D, NEW d \in Seq(D), NEW f \in Seq(D)
  PROVE  /\ IsPrefix(d, f) <=> Len(d) <= Len(f) /\ \A i \in 1..Len(d) : d[i] = f[i]
         /\ d \in Prefixes(f) <=> IsPrefix(d, f)
<1>1. Len(d) \in Nat /\ Len(f) \in Nat
  OBVIOUS
<1>2. SubSeq(d, 1, Len(d)) = d
  OBVIOUS
<1>3. ASSUME NEW k \in 0..Len(f)
      PROVE  /\ SubSeq(f, 1, k) \in Seq(D) /\ Len(SubSeq(f, 1, k)) = k
             /\ \A i \in 1..k : SubSeq(f, 1, k)[i] = f[i]
  <2>1. \A i \in 1..k : f[i] \in D
    BY <1>1
  <2>2. QED
    BY <1>1, <2>1, SubSeqProperties
<1>4. ASSUME NEW k \in 0..Len(f)
      PROVE  d = SubSeq(f, 1, k) <=> Len(d) = k /\ \A i \in 1..Len(d) : d[i] = f[i]
  <2>1. ASSUME Len(d) = k, \A i \in 1..Len(d) : d[i] = f[i] PROVE d = SubSeq(f, 1, k)
    BY <1>3, <2>1, SeqEqual
  <2>2. QED
    BY <1>3, <2>1
<1>5. IsPrefix(d, f) <=> Len(d) <= Len(f) /\ \A i \in 1..Len(d) : d[i] = f[i]
  <2>1. Len(d) <= Len(f) => Len(d) \in 0..Len(f)
    BY <1>1
  <2>2. QED
    BY <1>2, <1>4, <2>1 DEF IsPrefix
<1>6. d \in Prefixes(f) <=> \E k \in 0..Len(f) : d = SubSeq(f, 1, k)
  BY DEF Prefixes
<1>7. d \in Prefixes(f) <=> Len(d) <= Len(f) /\ \A i \in 1..Len(d) : d[i] = f[i]
  <2>1. Len(d) <= Len(f) => Len(d) \in 0..Len(f)
    BY <1>1
  <2>2. QED
    BY <1>1, <1>4, <1>6, <2>1
<1>8. QED
  BY <1>5, <1>7

LEMMA OnTheWayIs ==
  ASSUME NEW D, NEW d \in Seq(D), NEW f \in Seq(D), NEW c
  PROVE  c \in OnTheWay(d, f) <=>
           c \in Seq(D) /\ IsPrefix(d, c) /\ IsPrefix(c, f) /\ c # f
<1>1. ASSUME c \in Prefixes(f) PROVE c \in Seq(D)
  <2>1. PICK k \in 0..Len(f) : c = SubSeq(f, 1, k)
    BY <1>1 DEF Prefixes
  <2>2. \A i \in 1..k : f[i] \in D
    OBVIOUS
  <2>3. QED
    BY <2>1, <2>2, SubSeqProperties
<1>2. QED
  BY <1>1, PrefixOf DEF OnTheWay

LEMMA PrefixesNest ==
  ASSUME NEW D, NEW d \in Seq(D), NEW c \in Seq(D), NEW f \in Seq(D), IsPrefix(c, f)
  PROVE  /\ IsPrefix(d, c) => IsPrefix(d, f)
         /\ IsPrefix(d, f) /\ Len(d) <= Len(c) => IsPrefix(d, c)
         /\ IsPrefix(d, f) /\ Len(d) = Len(c) => d = c
<1>1. Len(d) \in Nat /\ Len(c) \in Nat /\ Len(f) \in Nat
  OBVIOUS
<1>2. Len(c) <= Len(f) /\ \A i \in 1..Len(c) : c[i] = f[i]
  BY PrefixOf
<1>3. IsPrefix(d, f) <=> Len(d) <= Len(f) /\ \A i \in 1..Len(d) : d[i] = f[i]
  BY PrefixOf
<1>4. IsPrefix(d, c) <=> Len(d) <= Len(c) /\ \A i \in 1..Len(d) : d[i] = c[i]
  BY PrefixOf
<1>5. Len(d) <= Len(c) => \A i \in 1..Len(d) : i \in 1..Len(c)
  BY <1>1
<1>6. ASSUME IsPrefix(d, f), Len(d) = Len(c) PROVE d = c
  <2>1. \A i \in 1..Len(d) : d[i] = c[i]
    BY <1>2, <1>3, <1>6
  <2>2. QED
    BY <1>6, <2>1, SeqEqual
<1>7. QED
  BY <1>1, <1>2, <1>3, <1>4, <1>5, <1>6

\* From the folder a file is in there is no other on the way to it.
LEMMA WayInside ==
  ASSUME NEW D, NEW d \in Seq(D), NEW f \in Seq(D), Inside(d, f)
  PROVE  OnTheWay(d, f) = {d}
<1>1. IsPrefix(d, f) /\ Len(f) = Len(d) + 1 /\ Len(d) \in Nat /\ d # f
  BY DEF Inside
<1>2. IsPrefix(d, d)
  BY PrefixOf
<1>3. ASSUME NEW c \in Seq(D), IsPrefix(d, c), IsPrefix(c, f), c # f PROVE c = d
  <2>1. Len(d) <= Len(c) /\ Len(c) <= Len(f) /\ Len(c) \in Nat
    BY <1>3, PrefixOf
  <2>2. IsPrefix(f, f)
    BY PrefixOf
  <2>3. Len(c) # Len(f)
    BY <1>3, <2>2, PrefixesNest
  <2>4. Len(c) = Len(d)
    BY <1>1, <2>1, <2>3
  <2>5. QED
    BY <1>1, <1>3, <2>4, PrefixesNest
<1>4. QED
  BY <1>1, <1>2, <1>3, OnTheWayIs

\* One folder further down, one folder less is on the way.
LEMMA WayDown ==
  ASSUME NEW D, NEW d \in Seq(D), NEW e \in Seq(D), NEW f \in Seq(D),
         Inside(d, e), IsPrefix(e, f), e # f
  PROVE  OnTheWay(d, f) = {d} \cup OnTheWay(e, f)
<1>1. IsPrefix(d, e) /\ Len(e) = Len(d) + 1 /\ Len(d) \in Nat
  BY DEF Inside
<1>2. IsPrefix(d, d) /\ IsPrefix(d, f) /\ Len(e) <= Len(f) /\ d # f
  <2>1. IsPrefix(d, d)
    BY PrefixOf
  <2>2. IsPrefix(d, f)
    BY <1>1, PrefixesNest
  <2>3. Len(e) <= Len(f)
    BY PrefixOf
  <2>4. QED
    BY <1>1, <2>1, <2>2, <2>3
<1>3. ASSUME NEW c \in Seq(D), IsPrefix(d, c), IsPrefix(c, f), c # d PROVE IsPrefix(e, c)
  <2>1. Len(d) <= Len(c) /\ Len(c) \in Nat
    BY <1>3, PrefixOf
  <2>2. Len(d) # Len(c)
    BY <1>2, <1>3, PrefixesNest
  <2>3. Len(e) <= Len(c)
    BY <1>1, <2>1, <2>2
  <2>4. QED
    BY <1>3, <2>3, PrefixesNest
<1>4. \A c \in Seq(D) : IsPrefix(e, c) => IsPrefix(d, c)
  BY <1>1, PrefixesNest
<1>5. \A c : c \in OnTheWay(d, f) <=> c = d \/ c \in OnTheWay(e, f)
  BY <1>2, <1>3, <1>4, OnTheWayIs
<1>6. QED
  BY <1>5

\* What is due below a folder comes from it or from the folders in it.
LEMMA DueBelowStep ==
  ASSUME NEW fsys, IsFileSystem(fsys), NEW excluded, NEW d \in fsys.dirs
  PROVE  DueBelow(fsys, excluded, d) =
           IF d \in excluded THEN {}
           ELSE IF MessageDir(fsys, d) THEN MessagesIn(fsys, d)
           ELSE UNION {DueBelow(fsys, excluded, e) : e \in Children(fsys, d)}
<1> DEFINE D == STRING
           Due(e, f) == IsDue(fsys, excluded, e, f)
           MsgDir(e) == MessageDir(fsys, e)
<1>1. fsys.dirs \subseteq Seq(D) /\ Listed(fsys) \subseteq Seq(D)
  BY DEF IsFileSystem
<1>2. \A f \in Listed(fsys) : f \notin fsys.dirs /\ \A e \in Prefixes(f) : e # f => e \in fsys.dirs
  BY DEF IsFileSystem
<1> HIDE DEF D
<1>3. \A e, f : Due(e, f) <=>
        /\ \E c \in OnTheWay(e, f) : Inside(c, f) /\ MsgDir(c)
        /\ \A c \in OnTheWay(e, f) : MsgDir(c) => Inside(c, f)
        /\ OnTheWay(e, f) \cap excluded = {}
        /\ Last(f) \notin Hidden
  BY DEF IsDue
<1> HIDE DEF Due, MsgDir
<1>4. ASSUME NEW e \in fsys.dirs, NEW f \in Listed(fsys), Due(e, f)
      PROVE  IsPrefix(e, f) /\ e # f /\ e \in OnTheWay(e, f)
  <2>1. PICK c \in OnTheWay(e, f) : Inside(c, f)
    BY <1>3, <1>4
  <2>2. e \in Seq(D) /\ f \in Seq(D) /\ e # f
    BY <1>1, <1>2
  <2>3. c \in Seq(D) /\ IsPrefix(e, c) /\ IsPrefix(c, f)
    BY <2>1, <2>2, OnTheWayIs
  <2>4. IsPrefix(e, f) /\ IsPrefix(e, e)
    BY <2>2, <2>3, PrefixesNest, PrefixOf
  <2>5. QED
    BY <2>2, <2>4, OnTheWayIs
<1>5. CASE d \in excluded
  <2>1. \A f \in Listed(fsys) : ~Due(d, f)
    BY <1>3, <1>4, <1>5
  <2>2. QED
    BY <1>5, <2>1 DEF DueBelow, Due
<1>6. CASE d \notin excluded /\ MsgDir(d)
  <2>1. ASSUME NEW f \in Listed(fsys)
        PROVE  Due(d, f) <=> Inside(d, f) /\ Last(f) \notin Hidden
    <3>1. ASSUME Due(d, f) PROVE Inside(d, f) /\ Last(f) \notin Hidden
      BY <1>3, <1>4, <1>6, <3>1
    <3>2. ASSUME Inside(d, f), Last(f) \notin Hidden PROVE Due(d, f)
      <4>1. OnTheWay(d, f) = {d}
        BY <1>1, <3>2, WayInside
      <4>2. QED
        BY <1>3, <1>6, <3>2, <4>1
    <3>3. QED
      BY <3>1, <3>2
  <2>2. QED
    BY <1>6, <2>1 DEF DueBelow, MessagesIn, Due, MsgDir
<1>7. CASE d \notin excluded /\ ~MsgDir(d)
  <2>1. ASSUME NEW f \in Listed(fsys), Due(d, f)
        PROVE  \E e \in Children(fsys, d) : Due(e, f)
    <3>1. PICK c \in OnTheWay(d, f) : Inside(c, f) /\ MsgDir(c)
      BY <1>3, <2>1
    <3>2. d \in Seq(D) /\ f \in Seq(D)
      BY <1>1
    <3>3. c \in Seq(D) /\ IsPrefix(d, c) /\ IsPrefix(c, f) /\ c # f /\ c # d
      BY <1>7, <3>1, <3>2, OnTheWayIs
    <3>4. Len(d) \in Nat /\ Len(c) \in Nat /\ Len(f) = Len(c) + 1 /\ Len(d) < Len(c)
      <4>1. Len(d) <= Len(c) /\ Len(d) \in Nat /\ Len(c) \in Nat
        BY <3>2, <3>3, PrefixOf
      <4>2. IsPrefix(d, f)
        BY <3>2, <3>3, PrefixesNest
      <4>3. Len(d) # Len(c)
        BY <3>2, <3>3, <4>2, PrefixesNest
      <4>4. Len(f) = Len(c) + 1
        BY <3>1 DEF Inside
      <4>5. QED
        BY <4>1, <4>3, <4>4
    <3> DEFINE e == SubSeq(f, 1, Len(d) + 1)
    <3>5. e \in Seq(D) /\ Len(e) = Len(d) + 1 /\ e \in Prefixes(f)
      <4>1. Len(d) + 1 \in 0..Len(f) /\ Len(d) + 1 \in Int /\ 1 <= Len(d) + 1
        BY <3>4
      <4>2. \A i \in 1..(Len(d) + 1) : f[i] \in D
        BY <3>2, <4>1
      <4>3. e \in Prefixes(f)
        BY <4>1 DEF Prefixes
      <4>4. e \in Seq(D) /\ Len(e) = ((Len(d) + 1) - 1) + 1
        BY <4>1, <4>2, SubSeqProperties
      <4>5. QED
        BY <3>4, <4>3, <4>4
    <3> HIDE DEF e
    <3>6. e # f /\ e \in fsys.dirs /\ IsPrefix(e, f)
      <4>1. Len(e) # Len(f)
        BY <3>4, <3>5
      <4>2. IsPrefix(e, f)
        BY <3>2, <3>5, PrefixOf
      <4>3. QED
        BY <1>2, <3>5, <4>1, <4>2
    <3>7. Inside(d, e)
      <4>1. IsPrefix(d, f) /\ Len(d) <= Len(e)
        BY <1>4, <2>1, <3>4, <3>5
      <4>2. IsPrefix(d, e)
        BY <3>2, <3>5, <3>6, <4>1, PrefixesNest
      <4>3. QED
        BY <3>5, <4>2 DEF Inside
    <3>8. OnTheWay(d, f) = {d} \cup OnTheWay(e, f)
      BY <3>2, <3>5, <3>6, <3>7, WayDown
    <3>9. Due(e, f)
      BY <1>3, <2>1, <3>1, <3>3, <3>8
    <3>10. QED
      BY <3>6, <3>7, <3>9 DEF Children
  <2>2. ASSUME NEW e \in Children(fsys, d), NEW f \in Listed(fsys), Due(e, f)
        PROVE  Due(d, f)
    <3>1. e \in fsys.dirs /\ Inside(d, e)
      BY DEF Children
    <3>2. IsPrefix(e, f) /\ e # f
      BY <1>4, <2>2, <3>1
    <3>3. OnTheWay(d, f) = {d} \cup OnTheWay(e, f)
      BY <1>1, <3>1, <3>2, WayDown
    <3>4. QED
      BY <1>3, <1>7, <2>2, <3>3
  <2>3. \A f : f \in DueBelow(fsys, excluded, d)
                 <=> f \in UNION {DueBelow(fsys, excluded, e) : e \in Children(fsys, d)}
    BY <2>1, <2>2 DEF DueBelow, Due
  <2>4. QED
    BY <1>7, <2>3 DEF MsgDir
<1>8. QED
  BY <1>5, <1>6, <1>7

\* The folders are finitely many, so the walk has one outcome.
LEMMA OneScan ==
  ASSUME NEW fsys, IsFileSystem(fsys), NEW excluded, NEW g, NEW h,
         IsScan(g, fsys, excluded), IsScan(h, fsys, excluded)
  PROVE  \A d \in fsys.dirs : g[d] = h[d]
<1> DEFINE Deeper(d) == {e \in fsys.dirs : Len(e) > Len(d)}
           Bad == {d \in fsys.dirs : g[d] # h[d]}
           Sizes == {Cardinality(Deeper(d)) : d \in Bad}
<1>1. SUFFICES ASSUME Bad # {} PROVE FALSE
  OBVIOUS
<1>2. IsFiniteSet(fsys.dirs) /\ \A d \in fsys.dirs : Len(d) \in Nat
  BY DEF IsFileSystem
<1>3. ASSUME NEW d \in fsys.dirs
      PROVE  IsFiniteSet(Deeper(d)) /\ Cardinality(Deeper(d)) \in Nat
  <2>1. Deeper(d) \in SUBSET fsys.dirs
    OBVIOUS
  <2> HIDE DEF Deeper
  <2>2. QED
    BY <1>2, <2>1, FS_Subset, FS_CardinalityType
<1>4. PICK d \in Bad : \A e \in Bad : Cardinality(Deeper(d)) <= Cardinality(Deeper(e))
  <2> HIDE DEF Deeper
  <2>1. Sizes \in SUBSET Nat /\ Sizes # {}
    BY <1>1, <1>3
  <2>2. PICK n \in Sizes : \A m \in Sizes : n <= m
    <3> HIDE DEF Sizes
    <3>1. QED
      BY <2>1, LeastNatural
  <2>3. QED
    BY <2>2
<1>5. ASSUME NEW e \in Children(fsys, d) PROVE g[e] = h[e]
  <2>1. e \in fsys.dirs /\ Len(e) = Len(d) + 1
    BY DEF Children, Inside
  <2>2. Deeper(e) \in SUBSET Deeper(d) /\ e \in Deeper(d) /\ e \notin Deeper(e)
    BY <1>2, <2>1
  <2> HIDE DEF Deeper
  <2>3. Cardinality(Deeper(e)) <= Cardinality(Deeper(d))
        /\ Cardinality(Deeper(e)) # Cardinality(Deeper(d))
    BY <1>3, <2>2, FS_Subset
  <2>4. ~(Cardinality(Deeper(d)) <= Cardinality(Deeper(e)))
    BY <1>3, <2>1, <2>3
  <2>5. QED
    BY <1>4, <2>1, <2>4
<1>6. ASSUME NEW k, IsScan(k, fsys, excluded)
      PROVE  k[d] = IF d \in excluded THEN {}
                    ELSE IF MessageDir(fsys, d) THEN MessagesIn(fsys, d)
                    ELSE UNION {k[e] : e \in Children(fsys, d)}
  BY <1>6 DEF IsScan, Children
<1>7. UNION {g[e] : e \in Children(fsys, d)} = UNION {h[e] : e \in Children(fsys, d)}
  BY <1>5
<1>8. g[d] = h[d]
  BY <1>6, <1>7
<1>9. QED
  BY <1>8

\* In any file system, the scan of a folder finds what is due below it.
LEMMA ScannedIsDue ==
  ASSUME NEW fsys, IsFileSystem(fsys), NEW excluded, NEW dir \in fsys.dirs
  PROVE  Scanned(fsys, excluded, dir) = DueBelow(fsys, excluded, dir)
<1> DEFINE due == [d \in fsys.dirs |-> DueBelow(fsys, excluded, d)]
<1>1. IsScan(due, fsys, excluded)
  <2>1. ASSUME NEW d \in fsys.dirs
        PROVE  due[d] = IF d \in excluded THEN {}
                        ELSE IF MessageDir(fsys, d) THEN MessagesIn(fsys, d)
                        ELSE UNION {due[e] : e \in {e \in fsys.dirs : Inside(d, e)}}
    <3>1. UNION {DueBelow(fsys, excluded, e) : e \in Children(fsys, d)}
            = UNION {due[e] : e \in {e \in fsys.dirs : Inside(d, e)}}
      BY DEF Children
    <3>2. due[d] = DueBelow(fsys, excluded, d)
      OBVIOUS
    <3> HIDE DEF due
    <3>3. DueBelow(fsys, excluded, d) =
            IF d \in excluded THEN {}
            ELSE IF MessageDir(fsys, d) THEN MessagesIn(fsys, d)
            ELSE UNION {DueBelow(fsys, excluded, e) : e \in Children(fsys, d)}
      BY DueBelowStep
    <3>4. QED
      BY <3>1, <3>2, <3>3
  <2>2. due = [d \in fsys.dirs |-> due[d]]
    OBVIOUS
  <2> HIDE DEF due
  <2>3. QED
    BY <2>1, <2>2 DEF IsScan
<1>2. IsScan(Scan(fsys, excluded), fsys, excluded)
  BY <1>1 DEF Scan
<1> HIDE DEF due
<1>3. Scan(fsys, excluded)[dir] = due[dir]
  BY <1>1, <1>2, OneScan
<1>4. QED
  BY <1>3, ScannedIsScan DEF due

\* Wherever the settings put the archive and failed folders, once they are there
\* the scan finds the mail that is due, and nothing from them as FindsDue says
\* (findMessages).
LEMMA ScanFindsDue ==
  ASSUME NEW fsys, IsFileSystem(fsys), NEW root, NEW excluded,
         \A e \in excluded : Real(fsys, e) \in fsys.dirs
  PROVE  FindsDue(fsys, root, excluded)
<1> DEFINE found == FindMessages(fsys, root, excluded)
           D == STRING
<1>1. root \in fsys.dirs => found = DueBelow(fsys, excluded, root)
  BY ScannedIsDue DEF FindMessages
<1>2. root \notin fsys.dirs => found = {}
  BY DEF FindMessages
<1> HIDE DEF found
<1>3. ASSUME NEW e \in excluded, NEW f \in found, IsPrefix(Real(fsys, e), f), Real(fsys, e) = e
      PROVE  IsStrictPrefix(e, root)
  <2>1. root \in fsys.dirs /\ f \in Listed(fsys) /\ IsDue(fsys, excluded, root, f)
    BY <1>1, <1>2 DEF DueBelow
  <2>2. e \in fsys.dirs /\ f \notin fsys.dirs
    BY <1>3, <2>1 DEF IsFileSystem
  <2>3. e \in Seq(D) /\ f \in Seq(D) /\ root \in Seq(D) /\ e # f /\ IsPrefix(e, f)
    BY <1>3, <2>1, <2>2 DEF IsFileSystem
  <2> HIDE DEF D
  <2>4. e \notin OnTheWay(root, f)
    BY <2>1 DEF IsDue
  <2>5. ~IsPrefix(root, e)
    BY <2>3, <2>4, OnTheWayIs
  <2>6. IsPrefix(root, f)
    <3>1. PICK c : c \in OnTheWay(root, f)
      BY <2>1 DEF IsDue
    <3>2. QED
      BY <2>3, <3>1, OnTheWayIs, PrefixesNest
  <2>7. Len(root) \in Nat /\ Len(e) \in Nat /\ ~(Len(root) <= Len(e))
    BY <2>3, <2>5, <2>6, PrefixesNest
  <2>8. IsPrefix(e, root)
    BY <2>3, <2>6, <2>7, PrefixesNest
  <2>9. QED
    BY <2>7, <2>8 DEF IsStrictPrefix
<1>4. QED
  BY <1>1, <1>3 DEF FindsDue, DueBelow, IsDue, found
-----------------------------------------------------------------------------
(* the folders of a run *)

\* The names of the folders that the program makes are strings, too.
Names == STRING \cup {"Archive", "Failed", "cur", "new", "tmp"}

LEMMA ListsGrow == ASSUME NEW S, NEW U, S \subseteq U PROVE Seq(S) \subseteq Seq(U)
<1>1. ASSUME NEW s \in Seq(S) PROVE s \in Seq(U)
  <2>1. \A i \in 1..Len(s) : s[i] \in U
    OBVIOUS
  <2>2. QED
    BY <2>1
<1>2. QED
  BY <1>1

LEMMA StringsAreNames == Seq(STRING) \subseteq Seq(Names)
BY ListsGrow DEF Names

\* Down inside Clean, and the recursive function of its fold.
Down(path, name) ==
  CASE name = ".." -> IF path = <<>> THEN path ELSE Config!Front(path)
    [] name = "." -> path
    [] OTHER -> Append(path, name)

IsCleaning(g, names) ==
  g = [d \in SUBSET DOMAIN names |->
         IF d = {} THEN <<>> ELSE Down(g[d \ {Config!Max(d)}], names[Config!Max(d)])]

Cleanings(names) == CHOOSE g : IsCleaning(g, names)

LEMMA CleanIsCleaning ==
  \A names : Config!Clean(names) = Cleanings(names)[DOMAIN names]
BY DEF Config!Clean, Config!FoldLeft, Config!MapThenFoldSet, Cleanings, IsCleaning, Down

LEMMA DownType ==
  ASSUME NEW path \in Seq(Names), NEW name \in Names PROVE Down(path, name) \in Seq(Names)
<1>1. Append(path, name) \in Seq(Names)
  BY AppendProperties
<1>2. CASE path # <<>>
  <2>1. Len(path) - 1 \in 0..Len(path)
    BY <1>2
  <2>2. \A i \in 1..(Len(path) - 1) : path[i] \in Names
    BY <2>1
  <2>3. Config!Front(path) \in Seq(Names)
    BY <2>1, <2>2, SubSeqProperties DEF Config!Front
  <2>4. QED
    BY <1>1, <2>3 DEF Down
<1>3. CASE path = <<>>
  BY <1>1, <1>3 DEF Down
<1>4. QED
  BY <1>2, <1>3

LEMMA CleanType ==
  ASSUME NEW names \in Seq(Names) PROVE Config!Clean(names) \in Seq(Names)
<1> DEFINE n == Len(names)
           V == Seq(Names)
           step == [i \in 1..n |-> [v \in V |-> Down(v, names[i])]]
           A == Cleanings(names)
<1>1. n \in Nat /\ DOMAIN names = 1..n /\ \A i \in 1..n : names[i] \in Names
  OBVIOUS
<1>2. step \in [1..n -> [V -> V]]
  BY <1>1, DownType
<1>3. PICK g : IsLeftFold(g, n, V, <<>>, step)
  <2>1. <<>> \in V
    OBVIOUS
  <2> HIDE DEF step, n, V
  <2>2. QED
    BY <1>1, <1>2, <2>1, LeftFoldExists, Zenon
<1> HIDE DEF V
<1>4. \A s : Config!Max(s) = Max(s)
  BY DEF Config!Max, Max
<1>5. IsCleaning(g, names)
  <2>1. ASSUME NEW d \in SUBSET (1..n), d # {}
        PROVE  g[d] = Down(g[d \ {Config!Max(d)}], names[Config!Max(d)])
    <3>1. g[d \ {Max(d)}] \in V /\ Max(d) \in 1..n
      BY <1>3, <2>1 DEF IsLeftFold
    <3>2. g[d] = step[Max(d)][g[d \ {Max(d)}]]
      BY <1>3, <2>1 DEF IsLeftFold
    <3>3. QED
      BY <1>4, <3>1, <3>2
  <2>2. g[{}] = <<>> /\ g = [d \in SUBSET (1..n) |-> g[d]]
    BY <1>3 DEF IsLeftFold
  <2> HIDE DEF step
  <2>3. QED
    BY <1>1, <2>1, <2>2 DEF IsCleaning
<1>6. IsCleaning(A, names)
  BY <1>5 DEF Cleanings
<1>7. A[1..0] \in V
  <2> HIDE DEF A
  <2>1. A[1..0] = <<>>
    BY <1>1, <1>6 DEF IsCleaning
  <2>2. QED
    BY <2>1 DEF V
<1>8. ASSUME NEW k \in 1..n, A[1..(k - 1)] \in V PROVE A[1..k] \in V
  <2>1. 1..k \in SUBSET (DOMAIN names) /\ k \in Nat \ {0}
    BY <1>1
  <2>2. 1..k # {} /\ Config!Max(1..k) = k /\ (1..k) \ {k} = 1..(k - 1)
    BY <1>4, <2>1, LastPosition
  <2>3. A[1..k] = IF 1..k = {} THEN <<>>
                  ELSE Down(A[(1..k) \ {Config!Max(1..k)}], names[Config!Max(1..k)])
    <3> HIDE DEF A
    <3>1. QED
      BY <1>6, <2>1 DEF IsCleaning
  <2>4. A[1..k] = Down(A[1..(k - 1)], names[k])
    BY <2>2, <2>3
  <2>5. QED
    BY <1>1, <1>8, <2>4, DownType DEF V
<1> DEFINE T == {k \in Nat : k <= n => A[1..k] \in V}
<1> HIDE DEF A, n
<1>9. ASSUME NEW k \in Nat, k \in T PROVE k + 1 \in T
  <2>1. SUFFICES ASSUME k + 1 <= n PROVE A[1..(k + 1)] \in V
    OBVIOUS
  <2>2. k + 1 \in 1..n /\ (k + 1) - 1 = k /\ k <= n
    BY <1>1, <2>1
  <2>3. A[1..k] \in V
    BY <1>9, <2>2
  <2>4. QED
    BY <1>8, <2>2, <2>3
<1>10. 0 \in T
  BY <1>7
<1>11. Nat \subseteq T
  <2> HIDE DEF T
  <2>1. QED
    BY <1>9, <1>10, NatInduct
<1>12. A[1..n] \in V
  BY <1>1, <1>11
<1>13. QED
  BY <1>1, <1>12, CleanIsCleaning DEF A, V

\* The three folders of settings that are valid.
LEMMA FoldersType ==
  ASSUME NEW asked, Config!IsGiven(asked), Config!Starts(asked),
         NEW set, set = Config!LoadConfig(asked).set
  PROVE  Config!Archive(set) \in Seq(Names) /\ Config!Failed(set) \in Seq(Names)
<1> DEFINE folders == {"maildir", "archive", "failed"}
<1>1. Config!Loads(asked) /\ Config!Valid(set)
  BY DEF Config!Starts
<1>2. ASSUME NEW s \in folders PROVE set[s] = EmptyPath \/ set[s].names \in Seq(Names)
  <2> DEFINE file == Config!FileLayer(asked)
             IsPathIn(layer) ==
               s \in DOMAIN layer => layer[s] = EmptyPath \/ layer[s].names \in Seq(Names)
  <2>1. s \in DOMAIN Config!Default /\ IsPathIn(Config!Default)
    <3>1. /\ Config!Default.maildir = EmptyPath
          /\ Config!Default.archive.names = <<"Archive">>
          /\ Config!Default.failed.names = <<"Failed">>
      BY DEF Config!Default
    <3>2. <<"Archive">> \in Seq(Names) /\ <<"Failed">> \in Seq(Names)
      <4>1. \A name \in Names : <<name>> \in Seq(Names)
        OBVIOUS
      <4>2. QED
        BY <4>1 DEF Names
    <3>3. s \in DOMAIN Config!Default
      BY DEF Config!Default
    <3>4. QED
      BY <3>1, <3>2, <3>3
  <2>2. IsPathIn(asked.flags) /\ IsPathIn(asked.env)
        /\ \A name \in DOMAIN asked.files : IsPathIn(asked.files[name].set)
    BY StringsAreNames DEF Config!IsGiven
  <2>3. IsPathIn(file.set)
    <3>1. CASE Config!ConfigPath(asked) = Unset
      <4>1. file.set = <<>>
        BY <3>1 DEF Config!FileLayer
      <4>2. DOMAIN file.set = {}
        BY <4>1
      <4>3. QED
        BY <4>2
    <3>2. CASE Config!ConfigPath(asked) # Unset
      BY <1>1, <2>2, <3>2 DEF Config!FileLayer, Config!Loads
    <3>3. QED
      BY <3>1, <3>2
  <2> HIDE DEF file
  <2>4. set[s] = IF s \in DOMAIN asked.flags THEN asked.flags[s]
                 ELSE IF s \in DOMAIN file.set THEN file.set[s]
                 ELSE IF s \in Config!EnvSettings \cap DOMAIN asked.env THEN asked.env[s]
                 ELSE Config!Default[s]
    BY <1>1, <2>1, LayersPrecede DEF Config!Precedence, file
  <2>5. QED
    BY <2>1, <2>2, <2>3, <2>4
<1>3. /\ set.maildir.names \in Seq(Names) /\ set.archive.names \in Seq(Names)
      /\ set.failed.names \in Seq(Names)
  BY <1>1, <1>2 DEF Config!Valid
<1>4. Config!Root(set) \in Seq(Names)
  BY <1>3, CleanType DEF Config!Root
<1>5. ASSUME NEW path, path.names \in Seq(Names)
      PROVE  Config!Resolved(Config!Root(set), path) \in Seq(Names)
  <2>1. Config!Root(set) \o path.names \in Seq(Names)
    BY <1>4, <1>5
  <2>2. QED
    BY <1>5, <2>1, CleanType DEF Config!Resolved
<1>6. QED
  BY <1>3, <1>5 DEF Config!Archive, Config!Failed

\* Where a path leads to is a path, if links lead to paths.
LEMMA RealType ==
  ASSUME NEW fsys, \A l \in DOMAIN fsys.links : fsys.links[l] \in Seq(Names),
         NEW path \in Seq(Names)
  PROVE  Real(fsys, path) \in Seq(Names)
<1> DEFINE linked == Prefixes(path) \cap DOMAIN fsys.links
           link == CHOOSE l \in linked : TRUE
           rest == SubSeq(path, Len(link) + 1, Len(path))
<1>1. CASE linked = {}
  BY <1>1 DEF Real
<1>2. CASE linked # {}
  <2>1. link \in Prefixes(path) /\ link \in DOMAIN fsys.links
    BY <1>2
  <2>2. PICK k \in 0..Len(path) : link = SubSeq(path, 1, k)
    BY <2>1 DEF Prefixes
  <2>3. \A i \in 1..Len(path) : path[i] \in Names
    OBVIOUS
  <2> HIDE DEF link
  <2>4. Len(link) = k
    <3>1. \A i \in 1..k : path[i] \in Names
      BY <2>2, <2>3
    <3>2. QED
      BY <2>2, <3>1, SubSeqProperties
  <2>5. rest \in Seq(Names)
    <3>1. \A i \in (Len(link) + 1)..Len(path) : path[i] \in Names
      BY <2>2, <2>3, <2>4
    <3>2. QED
      BY <2>2, <2>4, <3>1, SubSeqProperties
  <2> HIDE DEF rest
  <2>6. fsys.links[link] \o rest \in Seq(Names)
    BY <2>1, <2>5, ConcatProperties
  <2>7. Real(fsys, path) = fsys.links[link] \o rest
    BY <1>2 DEF Real, link, rest
  <2>8. QED
    BY <2>6, <2>7
<1>3. QED
  BY <1>1, <1>2

\* A path is among its own prefixes.
LEMMA PathIsPrefix == ASSUME NEW path \in Seq(Names) PROVE path \in Prefixes(path)
<1>1. path = SubSeq(path, 1, Len(path)) /\ Len(path) \in 0..Len(path)
  OBVIOUS
<1>2. QED
  BY <1>1 DEF Prefixes

\* ensureMaildir adds folders, among them the one it is called for.
LEMMA PreparedAdds ==
  ASSUME NEW fsys, DOMAIN fsys = {"dirs", "links", "mail"},
         \A l \in DOMAIN fsys.links : fsys.links[l] \in Seq(Names), NEW dir \in Seq(Names)
  PROVE  LET made == Prepared(fsys, dir)
         IN  /\ DOMAIN made = {"dirs", "links", "mail"}
             /\ made.links = fsys.links /\ made.mail = fsys.mail
             /\ fsys.dirs \subseteq made.dirs
             /\ \A path : Real(made, path) = Real(fsys, path)
             /\ Real(fsys, dir) \in made.dirs
<1> DEFINE made == Prepared(fsys, dir)
           new == {dir} \cup {Append(dir, name) : name \in {"cur", "new", "tmp"}}
           more == UNION {Prefixes(Real(fsys, d)) : d \in new}
<1>1. made = [fsys EXCEPT !.dirs = fsys.dirs \cup more]
  BY DEF Prepared
<1>2. Real(fsys, dir) \in more
  <2>1. Real(fsys, dir) \in Prefixes(Real(fsys, dir))
    BY RealType, PathIsPrefix
  <2>2. QED
    BY <2>1
<1> HIDE DEF more, made
<1>3. /\ DOMAIN made = {"dirs", "links", "mail"}
      /\ made.links = fsys.links /\ made.mail = fsys.mail
      /\ made.dirs = fsys.dirs \cup more
  BY <1>1
<1>4. \A path : Real(made, path) = Real(fsys, path)
  BY <1>3 DEF Real
<1>5. QED
  BY <1>2, <1>3, <1>4 DEF made

\* Before its first scan the bot has made both folders, and no message has changed.
LEMMA ReadyHasFolders ==
  ASSUME NEW bot \in Bots, Config!Starts(bot.given),
         NEW set, set = Config!LoadConfig(bot.given).set
  PROVE  /\ Ready(bot).mail = bot.fs.mail
         /\ \A dir \in {Config!Archive(set), Config!Failed(set)} :
              Real(Ready(bot), dir) \in Ready(bot).dirs
<1> DEFINE archive == Config!Archive(set)
           failed == Config!Failed(set)
           one == Prepared(bot.fs, archive)
           two == Prepared(one, failed)
<1>1. Config!IsGiven(bot.given) /\ IsFileSystem(bot.fs)
  BY InvocationAssumption
<1>2. archive \in Seq(Names) /\ failed \in Seq(Names)
  BY <1>1, FoldersType
<1>3. Ready(bot) = two
  BY DEF Ready
<1>4. /\ DOMAIN bot.fs = {"dirs", "links", "mail"}
      /\ \A l \in DOMAIN bot.fs.links : bot.fs.links[l] \in Seq(Names)
  BY <1>1, StringsAreNames DEF IsFileSystem
<1> HIDE DEF archive, failed
<1>5. /\ DOMAIN one = {"dirs", "links", "mail"}
      /\ one.links = bot.fs.links /\ one.mail = bot.fs.mail
      /\ \A path : Real(one, path) = Real(bot.fs, path)
      /\ Real(bot.fs, archive) \in one.dirs
  BY <1>2, <1>4, PreparedAdds
<1> HIDE DEF one
<1>6. /\ two.mail = one.mail /\ one.dirs \subseteq two.dirs
      /\ \A path : Real(two, path) = Real(one, path)
      /\ Real(one, failed) \in two.dirs
  BY <1>2, <1>4, <1>5, PreparedAdds
<1>7. QED
  BY <1>3, <1>5, <1>6 DEF archive, failed

-----------------------------------------------------------------------------
(* MimeWalk: the parts of a message, level by level *)

Depths == 0..(MaxDepth + 1)

LEMMA DepthsAre == MaxDepth + 1 \in Nat \ {0} /\ Depths \subseteq Nat
BY LimitsAssumption DEF Depths

Inner(p) == ToSet(p.parts)

\* The recursive function Level.
IsLevel(g) ==
  g = [n \in Depths |->
        [p \in Part |->
           IF n = 0 THEN {p}
           ELSE IF IsContainer(p) THEN UNION {g[n - 1][q] : q \in ToSet(p.parts)}
           ELSE {}]]

LEMMA InnerAreParts ==
  ASSUME NEW p \in Part PROVE Inner(p) \subseteq Part /\ IsFiniteSet(Inner(p))
BY PartAssumption, ListSet DEF Inner

LEMMA LevelEquation ==
  /\ Level = [n \in Depths |-> Level[n]]
  /\ \A p \in Part : Level[0][p] = {p}
  /\ \A n \in 1..(MaxDepth + 1), p \in Part :
       Level[n][p] = IF IsContainer(p) THEN UNION {Level[n - 1][q] : q \in Inner(p)} ELSE {}
<1> DEFINE V == [Part -> SUBSET Part]
           base == [p \in Part |-> {p}]
           step == [v \in V |->
                      [p \in Part |->
                         IF IsContainer(p) THEN UNION {v[q] : q \in Inner(p)} ELSE {}]]
<1>1. MaxDepth + 1 \in Nat
  BY LimitsAssumption
<1>2. step \in [V -> V]
  <2>1. ASSUME NEW v \in V, NEW p \in Part PROVE UNION {v[q] : q \in Inner(p)} \in SUBSET Part
    BY InnerAreParts
  <2>2. QED
    BY <2>1
<1>3. PICK g : g \in [Depths -> V] /\ g[0] = base
               /\ \A k \in 1..(MaxDepth + 1) : g[k] = step[g[k - 1]]
  <2>1. base \in V
    OBVIOUS
  <2> HIDE DEF V, base, step
  <2>2. PICK g : IsRecursion(g, MaxDepth + 1, V, base, step)
    BY <1>1, <1>2, <2>1, RecursionExists, Zenon
  <2>3. QED
    BY <2>2 DEF IsRecursion, Depths
<1>4. IsLevel(g)
  <2>1. ASSUME NEW n \in Depths
        PROVE  g[n] = [p \in Part |->
           IF n = 0 THEN {p}
           ELSE IF IsContainer(p) THEN UNION {g[n - 1][q] : q \in ToSet(p.parts)}
           ELSE {}]
    <3>1. CASE n = 0
      BY <1>3, <3>1
    <3>2. CASE n # 0
      <4>1. n \in 1..(MaxDepth + 1) /\ n - 1 \in Depths
        BY <1>1, <3>2 DEF Depths
      <4>2. g[n] = step[g[n - 1]] /\ g[n - 1] \in V
        BY <1>3, <4>1
      <4>3. QED
        BY <3>2, <4>2 DEF Inner
    <3>3. QED
      BY <3>1, <3>2
  <2> HIDE DEF V
  <2>2. QED
    BY <1>3, <2>1 DEF IsLevel
<1>5. IsLevel(Level)
  <2>1. Level = CHOOSE f : IsLevel(f)
    BY DEF Level, IsLevel, Depths
  <2>2. QED
    BY <1>4, <2>1
<1>6. QED
  <2>1. 0 \in Depths /\ \A n \in 1..(MaxDepth + 1) : n \in Depths /\ n # 0
    BY <1>1 DEF Depths
  <2>2. \A n \in Depths :
          Level[n] = [p \in Part |->
                        IF n = 0 THEN {p}
                        ELSE IF IsContainer(p) THEN UNION {Level[n - 1][q] : q \in ToSet(p.parts)}
                        ELSE {}]
    BY <1>5 DEF IsLevel
  <2>3. Level = [n \in Depths |-> Level[n]]
    BY <1>5 DEF IsLevel
  <2> HIDE DEF V, base, step
  <2>4. QED
    BY <2>1, <2>2, <2>3 DEF Inner

LEMMA LevelIs ==
  /\ \A p \in Part : Level[0][p] = {p}
  /\ \A k \in Nat, p \in Part : \A r : k + 1 \in Depths =>
       (r \in Level[k + 1][p] <=> IsContainer(p) /\ \E q \in Inner(p) : r \in Level[k][q])
<1> SUFFICES ASSUME NEW k \in Nat, NEW p \in Part, NEW r, k + 1 \in Depths
             PROVE  r \in Level[k + 1][p] <=> IsContainer(p) /\ \E q \in Inner(p) : r \in Level[k][q]
  BY LevelEquation
<1> DEFINE n == k + 1
<1>1. n \in 1..(MaxDepth + 1) /\ n - 1 = k
  BY DepthsAre DEF Depths
<1> HIDE DEF n
<1>2. Level[n][p] = IF IsContainer(p) THEN UNION {Level[n - 1][q] : q \in Inner(p)} ELSE {}
  BY <1>1, LevelEquation
<1>3. r \in Level[n][p] <=> IsContainer(p) /\ \E q \in Inner(p) : r \in Level[n - 1][q]
  BY <1>2
<1>4. QED
  BY <1>1, <1>3 DEF n

\* Where nothing lies n levels below a part, nothing lies further down.
LEMMA NothingBelow ==
  ASSUME NEW n \in Depths, NEW m \in Depths, n <= m, NEW p \in Part, Level[n][p] = {}
  PROVE  Level[m][p] = {}
<1> DEFINE d == m - n
           T == {k \in Nat : k + d \in Depths =>
                   \A q \in Part : Level[k][q] = {} => Level[k + d][q] = {}}
<1>1. d \in Nat /\ n \in Nat /\ m \in Nat /\ n + d = m
  BY DepthsAre
<1> HIDE DEF d
<1>2. 0 \in T
  BY LevelIs
<1>3. ASSUME NEW k \in Nat, k \in T PROVE k + 1 \in T
  <2>1. SUFFICES ASSUME (k + 1) + d \in Depths, NEW q \in Part, Level[k + 1][q] = {}
                 PROVE  Level[(k + 1) + d][q] = {}
    OBVIOUS
  <2> DEFINE e == k + d
  <2>2. k + 1 \in Depths /\ e \in Nat /\ e \in Depths /\ e + 1 \in Depths /\ (k + 1) + d = e + 1
    BY <1>1, <2>1, DepthsAre DEF Depths
  <2>3. \A r \in Inner(q) : IsContainer(q) => Level[k][r] = {} /\ r \in Part
    BY <2>1, <2>2, LevelIs, InnerAreParts
  <2>4. \A r \in Inner(q) : IsContainer(q) => Level[e][r] = {}
    BY <1>3, <2>2, <2>3
  <2> HIDE DEF e
  <2>5. Level[e + 1][q] = {}
    BY <2>2, <2>4, LevelIs
  <2>6. QED
    BY <2>2, <2>5
<1>4. Nat \subseteq T
  <2> HIDE DEF T
  <2>1. QED
    BY <1>2, <1>3, NatInduct
<1>5. QED
  BY <1>1, <1>4

\* What the walk looks at in a part is finite.
LEMMA PartsType ==
  ASSUME NEW p \in Part
  PROVE  Parts(p) \subseteq Part /\ IsFiniteSet(Parts(p)) /\ p \in Parts(p)
<1> DEFINE T == {k \in Nat : k \in Depths =>
                   \A q \in Part : Level[k][q] \subseteq Part /\ IsFiniteSet(Level[k][q])}
<1>1. 0 \in T
  <2>1. ASSUME NEW q \in Part PROVE Level[0][q] \subseteq Part /\ IsFiniteSet(Level[0][q])
    <3>1. Level[0][q] = {q}
      BY LevelIs
    <3>2. QED
      BY <3>1, FS_Singleton
  <2>2. QED
    BY <2>1
<1>2. ASSUME NEW k \in Nat, k \in T PROVE k + 1 \in T
  <2>1. SUFFICES ASSUME k + 1 \in Depths, NEW q \in Part
                 PROVE  Level[k + 1][q] \subseteq Part /\ IsFiniteSet(Level[k + 1][q])
    OBVIOUS
  <2>2. k \in Depths
    BY <2>1, DepthsAre DEF Depths
  <2>3. CASE ~IsContainer(q)
    <3>1. Level[k + 1][q] = {}
      BY <2>1, <2>3, LevelIs
    <3>2. QED
      BY <3>1, FS_EmptySet
  <2>4. CASE IsContainer(q)
    <3> DEFINE levels == {Level[k][r] : r \in Inner(q)}
    <3>1. Level[k + 1][q] = UNION levels
      BY <2>1, <2>4, LevelIs
    <3>2. \A r \in Inner(q) : r \in Part
      BY InnerAreParts
    <3>3. \A s \in levels : s \subseteq Part /\ IsFiniteSet(s)
      BY <1>2, <2>2, <3>2
    <3>4. [r \in Inner(q) |-> Level[k][r]] \in Surjection(Inner(q), levels)
      BY DEF Surjection
    <3> HIDE DEF levels
    <3>5. IsFiniteSet(levels)
      BY <3>4, InnerAreParts, FS_Surjection
    <3>6. QED
      BY <3>1, <3>3, <3>5, FS_UNION
  <2>5. QED
    BY <2>3, <2>4
<1>3. Nat \subseteq T
  <2> HIDE DEF T
  <2>1. QED
    BY <1>1, <1>2, NatInduct
<1> DEFINE all == {Level[n][p] : n \in Depths}
<1>4. \A s \in all : s \subseteq Part /\ IsFiniteSet(s)
  BY <1>3, DepthsAre
<1>5. IsFiniteSet(all)
  <2>1. [n \in Depths |-> Level[n][p]] \in Surjection(Depths, all)
    BY DEF Surjection
  <2>2. IsFiniteSet(Depths)
    BY DepthsAre, FS_Interval DEF Depths
  <2> HIDE DEF all
  <2>3. QED
    BY <2>1, <2>2, FS_Surjection
<1>6. p \in UNION all
  <2>1. 0 \in Depths /\ p \in Level[0][p]
    BY DepthsAre, LevelIs DEF Depths
  <2>2. QED
    BY <2>1
<1>7. Parts(p) = UNION all
  BY DEF Parts, Depths
<1> HIDE DEF all
<1>8. QED
  BY <1>4, <1>5, <1>6, <1>7, FS_UNION

\* A part that is nested n levels deep at most is looked at with everything in it.
Shallow(n, p) == n \in Depths \ {0} /\ Level[n][p] = {}

LEMMA ShallowParts ==
  ASSUME NEW n, NEW p \in Part, Shallow(n, p)
  PROVE  /\ \A r : r \in Parts(p) <=> r = p \/ (IsContainer(p) /\ \E q \in Inner(p) : r \in Parts(q))
         /\ IsContainer(p) => \A q \in Inner(p) : Shallow(n - 1, q)
<1> DEFINE top == MaxDepth + 1
           k == n - 1
<1>1. /\ top \in Nat \ {0} /\ Depths = 0..top /\ top \in Depths
      /\ n = k + 1 /\ k \in Nat /\ k \in Depths /\ k <= top /\ k + 1 \in Depths
  BY DepthsAre DEF Shallow, Depths
<1> HIDE DEF top, k
<1>2. ASSUME NEW q \in Inner(p), IsContainer(p)
      PROVE  q \in Part /\ Level[k][q] = {} /\ Shallow(k, q) /\ Level[top][q] = {}
  <2>1. q \in Part /\ Level[k][q] = {}
    BY <1>1, <1>2, InnerAreParts, LevelIs DEF Shallow
  <2>2. k # 0
    BY <2>1, LevelIs
  <2>3. Level[top][q] = {}
    BY <1>1, <2>1, NothingBelow
  <2>4. QED
    BY <1>1, <2>1, <2>2, <2>3 DEF Shallow
<1>3. \A q, r : r \in Parts(q) <=> \E m \in Depths : r \in Level[m][q]
  BY DEF Parts, Depths
<1>4. ASSUME NEW r
      PROVE  r \in Parts(p) <=> r = p \/ (IsContainer(p) /\ \E q \in Inner(p) : r \in Parts(q))
  <2>1. ASSUME r \in Parts(p), r # p
        PROVE  IsContainer(p) /\ \E q \in Inner(p) : r \in Parts(q)
    <3>1. PICK m \in Depths : r \in Level[m][p]
      BY <1>3, <2>1
    <3>2. m # 0
      BY <2>1, <3>1, LevelIs
    <3> DEFINE j == m - 1
    <3>3. j \in Nat /\ m = j + 1 /\ j \in Depths /\ j + 1 \in Depths
      BY <1>1, <3>2
    <3> HIDE DEF j
    <3>4. IsContainer(p) /\ \E q \in Inner(p) : r \in Level[j][q]
      BY <3>1, <3>3, LevelIs
    <3>5. QED
      BY <1>3, <3>3, <3>4
  <2>2. ASSUME IsContainer(p), NEW q \in Inner(p), r \in Parts(q) PROVE r \in Parts(p)
    <3>1. PICK m \in Depths : r \in Level[m][q]
      BY <1>3, <2>2
    <3>2. m # top
      BY <1>2, <2>2, <3>1
    <3>3. m \in Nat /\ m + 1 \in Depths
      BY <1>1, <3>2
    <3>4. r \in Level[m + 1][p]
      BY <2>2, <3>1, <3>3, LevelIs
    <3>5. QED
      BY <1>3, <3>3, <3>4
  <2>3. p \in Parts(p)
    BY PartsType
  <2>4. IsContainer(p) /\ (\E q \in Inner(p) : r \in Parts(q)) => r \in Parts(p)
    BY <2>2
  <2>5. r = p => r \in Parts(p)
    BY <2>3
  <2>6. QED
    BY <2>1, <2>4, <2>5
<1>5. QED
  BY <1>2, <1>4 DEF k

-----------------------------------------------------------------------------
(* the walk, level by level *)

Outcomes == [ok : BOOLEAN, body : Seq(Part), inc : Accounts]
Sorted == [ok : BOOLEAN, inc : Accounts, plain : Seq(Part), html : Seq(Part)]
Readers == [Part -> [Accounts -> Outcomes]]

LEMMA VisitType ==
  ASSUME NEW below \in Readers, NEW seen \in Sorted, NEW q \in Part
  PROVE  Visit(below, seen, q) \in Sorted
<1> DEFINE got == below[q][seen.inc]
<1>1. got \in Outcomes /\ seen.inc \in Accounts
  BY DEF Readers, Sorted
<1> HIDE DEF got
<1>2. \A a, b \in Seq(Part) : a \o b \in Seq(Part) /\ a \o <<>> \in Seq(Part)
  OBVIOUS
<1>3. Visit(below, seen, q) =
        IF ~seen.ok \/ ~got.ok THEN [seen EXCEPT !.ok = FALSE]
        ELSE [ok |-> TRUE, inc |-> got.inc,
              html |-> seen.html \o (IF q.type = "html" THEN got.body ELSE <<>>),
              plain |-> seen.plain \o (IF q.type = "html" THEN <<>> ELSE got.body)]
  BY DEF Visit, got
<1>4. CASE ~seen.ok \/ ~got.ok
  BY <1>3, <1>4 DEF Sorted
<1>5. CASE seen.ok /\ got.ok
  BY <1>1, <1>2, <1>3, <1>5 DEF Sorted, Outcomes
<1>6. QED
  BY <1>4, <1>5

\* A part is sorted only when it and everything before it could be read.
Follows(next, seen, q, got) ==
  /\ next.ok <=> seen.ok /\ got.ok
  /\ next.ok => next.inc = got.inc
  /\ next.ok /\ q.type = "html" =>
       next.html = seen.html \o got.body /\ next.plain = seen.plain
  /\ next.ok /\ q.type # "html" =>
       next.html = seen.html /\ next.plain = seen.plain \o got.body

LEMMA VisitIs ==
  ASSUME NEW below \in Readers, NEW seen \in Sorted, NEW q \in Part
  PROVE  Follows(Visit(below, seen, q), seen, q, below[q][seen.inc])
<1> DEFINE got == below[q][seen.inc]
           next == Visit(below, seen, q)
           html == seen.html \o (IF q.type = "html" THEN got.body ELSE <<>>)
           plain == seen.plain \o (IF q.type = "html" THEN <<>> ELSE got.body)
<1>1. next = IF ~seen.ok \/ ~got.ok THEN [seen EXCEPT !.ok = FALSE]
             ELSE [ok |-> TRUE, inc |-> got.inc, html |-> html, plain |-> plain]
  BY DEF Visit
<1> HIDE DEF html, plain, got, next
<1>2. CASE ~seen.ok \/ ~got.ok
  <2>1. next.ok = FALSE
    BY <1>1, <1>2 DEF Sorted
  <2>2. QED
    BY <1>2, <2>1 DEF Follows, got, next
<1>3. CASE seen.ok /\ got.ok
  <2>1. next = [ok |-> TRUE, inc |-> got.inc, html |-> html, plain |-> plain]
    BY <1>1, <1>3
  <2>2. next.ok = TRUE /\ next.html = html /\ next.plain = plain /\ next.inc = got.inc
    BY <2>1
  <2>3. seen.html \o <<>> = seen.html /\ seen.plain \o <<>> = seen.plain
    BY DEF Sorted
  <2>4. QED
    BY <1>3, <2>2, <2>3 DEF html, plain, Follows, got, next
<1>4. QED
  BY <1>2, <1>3

\* The recursive function of the fold in ReadParts.
IsSorting(g, below, p, inc) ==
  g = [d \in SUBSET DOMAIN p.parts |->
         IF d = {} THEN Unseen(inc) ELSE Visit(below, g[d \ {Max(d)}], p.parts[Max(d)])]

Sorting(below, p, inc) == CHOOSE g : IsSorting(g, below, p, inc)

\* What is sorted once k parts have been visited.
Seen(below, p, inc, k) == Sorting(below, p, inc)[1..k]

LEMMA ReadPartsSorts ==
  \A below, p, inc :
    ReadParts(below, p, inc) =
      LET all == Sorting(below, p, inc)[DOMAIN p.parts]
      IN  IF all.ok THEN Limited(Preferred(all.plain, all.html), all.inc) ELSE Refused
BY DEF ReadParts, FoldLeft, MapThenFoldSet, Sorting, IsSorting

LEMMA SeenStep ==
  ASSUME NEW below \in Readers, NEW p \in Part, NEW inc \in Accounts
  PROVE  /\ Seen(below, p, inc, 0) = Unseen(inc)
         /\ \A k \in 1..Len(p.parts) :
              /\ Seen(below, p, inc, k) = Visit(below, Seen(below, p, inc, k - 1), p.parts[k])
              /\ p.parts[k] \in Part
         /\ \A k \in 0..Len(p.parts) : Seen(below, p, inc, k) \in Sorted
         /\ ReadParts(below, p, inc) =
              LET all == Seen(below, p, inc, Len(p.parts))
              IN  IF all.ok THEN Limited(Preferred(all.plain, all.html), all.inc) ELSE Refused
<1> DEFINE s == p.parts
           n == Len(s)
           V == Sorted
           base == Unseen(inc)
           step == [i \in 1..n |-> [v \in V |-> Visit(below, v, s[i])]]
<1>1. n \in Nat /\ DOMAIN s = 1..n /\ \A i \in 1..n : s[i] \in Part
  <2>1. s \in Seq(Part)
    BY PartAssumption
  <2>2. QED
    BY <2>1
<1>2. base \in V
  BY DEF Unseen, Sorted
<1> HIDE DEF n, V, s, base
<1>3. step \in [1..n -> [V -> V]]
  BY <1>1, VisitType DEF V
<1>4. PICK g : IsLeftFold(g, n, V, base, step)
  <2> HIDE DEF step
  <2>1. QED
    BY <1>1, <1>2, <1>3, LeftFoldExists, Zenon
<1>5. IsSorting(g, below, p, inc)
  <2>1. ASSUME NEW d \in SUBSET (1..n), d # {}
        PROVE  g[d] = Visit(below, g[d \ {Max(d)}], s[Max(d)])
    <3>1. g[d \ {Max(d)}] \in V /\ Max(d) \in 1..n
      BY <1>4, <2>1 DEF IsLeftFold
    <3>2. g[d] = step[Max(d)][g[d \ {Max(d)}]]
      BY <1>4, <2>1 DEF IsLeftFold
    <3>3. QED
      BY <3>1, <3>2
  <2>2. g[{}] = base /\ g = [d \in SUBSET (1..n) |-> g[d]]
    BY <1>4 DEF IsLeftFold
  <2> HIDE DEF step
  <2>3. QED
    BY <1>1, <2>1, <2>2 DEF IsSorting, s, base
<1> DEFINE A == Sorting(below, p, inc)
<1>6. IsSorting(A, below, p, inc)
  BY <1>5 DEF Sorting
<1> HIDE DEF A
<1>7. A[1..0] = base
  BY <1>1, <1>6 DEF IsSorting, s, base
<1>8. ASSUME NEW k \in 1..n PROVE A[1..k] = Visit(below, A[1..(k - 1)], s[k])
  <2>1. 1..k \in SUBSET (DOMAIN s) /\ k \in Nat \ {0}
    BY <1>1
  <2>2. 1..k # {} /\ Max(1..k) = k /\ (1..k) \ {k} = 1..(k - 1)
    BY <2>1, LastPosition
  <2>3. A[1..k] = IF 1..k = {} THEN base
                  ELSE Visit(below, A[(1..k) \ {Max(1..k)}], s[Max(1..k)])
    BY <1>6, <2>1 DEF IsSorting, s, base
  <2>4. QED
    BY <2>2, <2>3
<1> DEFINE T == {k \in Nat : k <= n => A[1..k] \in V}
<1>9. Nat \subseteq T
  <2>1. 0 \in T
    BY <1>2, <1>7
  <2>2. ASSUME NEW k \in Nat, k \in T PROVE k + 1 \in T
    <3>1. SUFFICES ASSUME k + 1 <= n PROVE A[1..(k + 1)] \in V
      OBVIOUS
    <3>2. k + 1 \in 1..n /\ (k + 1) - 1 = k /\ A[1..k] \in V
      BY <1>1, <2>2, <3>1
    <3>3. A[1..(k + 1)] = Visit(below, A[1..k], s[k + 1])
      BY <1>8, <3>2
    <3>4. QED
      BY <1>1, <3>2, <3>3, VisitType DEF V
  <2> HIDE DEF T
  <2>3. QED
    BY <2>1, <2>2, NatInduct
<1>10. \A k \in 0..n : A[1..k] \in V
  BY <1>1, <1>9
<1>11. DOMAIN s = 1..n
  BY <1>1
<1>12. QED
  BY <1>1, <1>7, <1>8, <1>10, <1>11, ReadPartsSorts DEF Seen, A, V, s, n, base

LEMMA JoinedType == ASSUME NEW body \in Seq(Part) PROVE Joined(body) \in Int
<1> DEFINE f == [i \in DOMAIN body |-> body[i].text]
<1>1. DOMAIN body = 1..Len(body) /\ Len(body) \in Nat /\ \A i \in 1..Len(body) : body[i] \in Part
  OBVIOUS
<1>2. IsFiniteSet(DOMAIN f) /\ Summable(f, DOMAIN f)
  BY <1>1, FS_Interval, PartAssumption DEF Summable
<1> HIDE DEF f
<1>3. SumFunction(f) \in Nat
  BY <1>2, SumType DEF SumFunction
<1>4. QED
  BY <1>1, <1>3, LimitsAssumption DEF Joined, f

LEMMA AccountsType ==
  /\ NoFiles \in Accounts
  /\ \A p \in Part, inc \in Accounts : Attach(p, inc) \in Accounts
<1>1. NoFiles \in Accounts
  BY LimitsAssumption DEF NoFiles, Accounts
<1>2. ASSUME NEW p \in Part, NEW inc \in Accounts PROVE Attach(p, inc) \in Accounts
  <2>1. p.text \in Nat /\ inc.remaining \in Int /\ inc.files \in Seq(Part) /\ inc.notes \in Seq(Part)
    BY PartAssumption DEF Accounts
  <2>2. Append(inc.files, p) \in Seq(Part) /\ Append(inc.notes, p) \in Seq(Part)
    BY <2>1
  <2>3. inc.remaining - p.text \in Int
    BY <2>1
  <2>4. QED
    BY <2>1, <2>2, <2>3 DEF Attach, Accounts
<1>3. QED
  BY <1>1, <1>2

LEMMA ReadPartType ==
  ASSUME NEW below \in Readers, NEW p \in Part, NEW inc \in Accounts
  PROVE  ReadPart(below, p, inc) \in Outcomes
<1>1. Refused \in Outcomes
  BY AccountsType DEF Refused, Outcomes
<1>2. \A body \in Seq(Part), acc \in Accounts : Limited(body, acc) \in Outcomes
  BY <1>1 DEF Limited, Outcomes
<1>3. ReadText(p, inc) \in Outcomes
  <2>1. <<p>> \in Seq(Part) /\ <<>> \in Seq(Part)
    OBVIOUS
  <2>2. QED
    BY <1>1, <1>2, <2>1 DEF ReadText
<1>4. ReadParts(below, p, inc) \in Outcomes
  <2> DEFINE all == Seen(below, p, inc, Len(p.parts))
  <2>1. p.parts \in Seq(Part)
    BY PartAssumption
  <2>2. Len(p.parts) \in 0..Len(p.parts)
    BY <2>1
  <2>3. all \in Sorted
    BY <2>2, SeenStep
  <2>4. ReadParts(below, p, inc) =
          IF all.ok THEN Limited(Preferred(all.plain, all.html), all.inc) ELSE Refused
    BY SeenStep
  <2> HIDE DEF all
  <2>5. QED
    BY <1>1, <1>2, <2>3, <2>4 DEF Sorted, Preferred
<1>5. Attach(p, inc) \in Accounts
  BY AccountsType
<1>6. \A acc \in Accounts : [ok |-> TRUE, body |-> <<>>, inc |-> acc] \in Outcomes
  BY DEF Outcomes
<1>7. QED
  BY <1>1, <1>3, <1>4, <1>5, <1>6 DEF ReadPart

\* The recursive function Read.
IsRead(g) ==
  g = [n \in Depths |->
        [p \in Part |->
          [inc \in Accounts |->
             IF n = 0 THEN Refused ELSE ReadPart(g[n - 1], p, inc)]]]

LEMMA ReadEquation ==
  /\ \A n \in Depths : Read[n] \in Readers
  /\ Read[0] = [p \in Part |-> [inc \in Accounts |-> Refused]]
  /\ \A n \in 1..(MaxDepth + 1) :
       Read[n] = [p \in Part |-> [inc \in Accounts |-> ReadPart(Read[n - 1], p, inc)]]
<1> DEFINE V == Readers
           base == [p \in Part |-> [inc \in Accounts |-> Refused]]
           step == [v \in V |->
                      [p \in Part |-> [inc \in Accounts |-> ReadPart(v, p, inc)]]]
           top == MaxDepth + 1
<1>1. top \in Nat \ {0} /\ Depths = 0..top
  BY DepthsAre DEF Depths
<1>2. step \in [V -> V]
  BY ReadPartType DEF Readers
<1>3. base \in V
  BY AccountsType DEF Refused, Outcomes, Readers
<1> HIDE DEF top
<1>4. PICK g : g \in [0..top -> V] /\ g[0] = base /\ \A k \in 1..top : g[k] = step[g[k - 1]]
  <2>1. top \in Nat
    BY <1>1
  <2> HIDE DEF V, base, step
  <2>2. PICK g : IsRecursion(g, top, V, base, step)
    BY <1>2, <1>3, <2>1, RecursionExists, Zenon
  <2>3. QED
    BY <2>2 DEF IsRecursion
<1>5. ASSUME NEW n \in 1..top
      PROVE  n # 0 /\ n - 1 \in Depths /\ n \in Depths
  BY <1>1
<1>6. ASSUME NEW n \in 1..top
      PROVE  g[n] = [p \in Part |-> [inc \in Accounts |-> ReadPart(g[n - 1], p, inc)]]
  <2>1. g[n] = step[g[n - 1]] /\ g[n - 1] \in V
    BY <1>1, <1>4, <1>5
  <2>2. QED
    BY <2>1
<1>7. ASSUME NEW n \in Depths
      PROVE  g[n] = [p \in Part |->
                      [inc \in Accounts |->
                         IF n = 0 THEN Refused ELSE ReadPart(g[n - 1], p, inc)]]
  <2>1. CASE n = 0
    BY <1>4, <2>1
  <2>2. CASE n # 0
    <3>1. n \in 1..top
      BY <1>1, <2>2
    <3>2. g[n] = [p \in Part |-> [inc \in Accounts |-> ReadPart(g[n - 1], p, inc)]]
      BY <1>6, <3>1
    <3>3. QED
      BY <2>2, <3>2
  <2>3. QED
    BY <2>1, <2>2
<1>8. IsRead(g)
  <2>1. g = [n \in Depths |-> g[n]]
    BY <1>1, <1>4
  <2>2. QED
    BY <1>7, <2>1 DEF IsRead
<1>9. IsRead(Read)
  <2>1. Read = CHOOSE f : IsRead(f)
    BY DEF Read, IsRead, Depths
  <2>2. QED
    BY <1>8, <2>1
<1> HIDE DEF V, base, step
<1>10. ASSUME NEW n \in Depths
       PROVE  Read[n] = [p \in Part |->
                          [inc \in Accounts |->
                             IF n = 0 THEN Refused ELSE ReadPart(Read[n - 1], p, inc)]]
  BY <1>9 DEF IsRead
<1>11. Read[0] = base
  <2>1. 0 \in Depths
    BY <1>1
  <2>2. QED
    BY <1>10, <2>1 DEF base
<1>12. ASSUME NEW n \in 1..top
       PROVE  Read[n] = [p \in Part |-> [inc \in Accounts |-> ReadPart(Read[n - 1], p, inc)]]
  <2>1. n # 0 /\ n \in Depths
    BY <1>5
  <2>2. Read[n] = [p \in Part |->
                    [inc \in Accounts |->
                       IF n = 0 THEN Refused ELSE ReadPart(Read[n - 1], p, inc)]]
    BY <1>10, <2>1
  <2>3. QED
    BY <2>1, <2>2
<1> DEFINE T == {k \in Nat : k \in Depths => Read[k] \in V}
<1>13. Nat \subseteq T
  <2>1. 0 \in T
    BY <1>3, <1>11
  <2>2. ASSUME NEW k \in Nat, k \in T PROVE k + 1 \in T
    <3>1. SUFFICES ASSUME k + 1 \in Depths PROVE Read[k + 1] \in V
      OBVIOUS
    <3> DEFINE n == k + 1
    <3>2. n \in 1..top /\ n - 1 = k /\ k \in Depths
      BY <1>1, <3>1
    <3> HIDE DEF n
    <3>3. Read[k] \in V
      BY <2>2, <3>2
    <3>4. Read[n] = [p \in Part |-> [inc \in Accounts |-> ReadPart(Read[k], p, inc)]]
      BY <1>12, <3>2
    <3>5. Read[n] \in V
      BY <3>3, <3>4, ReadPartType DEF V, Readers
    <3>6. QED
      BY <3>5 DEF n
  <2> HIDE DEF T
  <2>3. QED
    BY <2>1, <2>2, NatInduct
<1>14. QED
  BY <1>11, <1>12, <1>13, DepthsAre DEF V, base, top

LEMMA ReadIs ==
  /\ \A n \in Depths : Read[n] \in Readers
  /\ \A p \in Part, inc \in Accounts : Read[0][p][inc] = Refused
  /\ \A k \in Nat, p \in Part, inc \in Accounts : k + 1 \in Depths =>
       k \in Depths /\ Read[k + 1][p][inc] = ReadPart(Read[k], p, inc)
<1>1. \A p \in Part, inc \in Accounts : Read[0][p][inc] = Refused
  BY ReadEquation
<1>2. ASSUME NEW k \in Nat, NEW p \in Part, NEW inc \in Accounts, k + 1 \in Depths
      PROVE  k \in Depths /\ Read[k + 1][p][inc] = ReadPart(Read[k], p, inc)
  <2> DEFINE n == k + 1
  <2>1. n \in 1..(MaxDepth + 1) /\ n - 1 = k /\ k \in Depths
    BY <1>2, DepthsAre DEF Depths
  <2> HIDE DEF n
  <2>2. Read[n] = [q \in Part |-> [acc \in Accounts |-> ReadPart(Read[k], q, acc)]]
    BY <2>1, ReadEquation
  <2>3. Read[n][p][inc] = ReadPart(Read[k], p, inc)
    BY <2>2
  <2>4. QED
    BY <2>1, <2>3 DEF n
<1>3. QED
  BY <1>1, <1>2, ReadEquation

-----------------------------------------------------------------------------
(* which texts are kept *)

\* The parts of a multipart have nothing in common.
LEMMA PartsApart ==
  ASSUME NEW p \in Part, IsContainer(p), NEW i \in DOMAIN p.parts, NEW j \in DOMAIN p.parts
  PROVE  /\ \A x \in Parts(p.parts[i]) : p.id < x.id /\ x # p
         /\ i < j => \A x \in Parts(p.parts[i]), y \in Parts(p.parts[j]) : x.id < y.id
         /\ i # j => Parts(p.parts[i]) \cap Parts(p.parts[j]) = {}
<1>1. DOMAIN p.parts = 1..Len(p.parts) /\ p.id \in Int
      /\ \A k \in DOMAIN p.parts : Parts(p.parts[k]) \subseteq Part
  <2>1. p.parts \in Seq(Part)
    BY PartAssumption
  <2>2. QED
    BY <2>1, PartsType, PartAssumption
<1>2. \A k \in DOMAIN p.parts : \A x \in Parts(p.parts[k]) : x.id \in Int
  BY <1>1, PartAssumption
<1>3. \A x \in Parts(p.parts[i]) : p.id < x.id
  BY PlaceAssumption
<1>4. \A k, l \in DOMAIN p.parts : k < l =>
        \A x \in Parts(p.parts[k]), y \in Parts(p.parts[l]) : x.id < y.id
  BY PlaceAssumption
<1>5. \A k, l \in DOMAIN p.parts : k < l => Parts(p.parts[k]) \cap Parts(p.parts[l]) = {}
  <2>1. SUFFICES ASSUME NEW k \in DOMAIN p.parts, NEW l \in DOMAIN p.parts, k < l,
                        NEW x \in Parts(p.parts[k]), x \in Parts(p.parts[l])
                 PROVE  FALSE
    OBVIOUS
  <2>2. x.id < x.id
    BY <1>4, <2>1
  <2>3. QED
    BY <1>2, <2>2
<1>6. i # j => i < j \/ j < i
  BY <1>1
<1>7. QED
  BY <1>1, <1>2, <1>3, <1>4, <1>5, <1>6

LEMMA InnerApart ==
  ASSUME NEW p \in Part, IsContainer(p), NEW q \in Inner(p), NEW r \in Inner(p),
         NEW x, x \in Parts(q), x \in Parts(r)
  PROVE  q = r
<1>1. PICK i \in DOMAIN p.parts : q = p.parts[i]
  BY DEF Inner, ToSet
<1>2. PICK j \in DOMAIN p.parts : r = p.parts[j]
  BY DEF Inner, ToSet
<1>3. QED
  BY <1>1, <1>2, PartsApart

\* What is in a part that is not a container.
LEMMA LeafParts ==
  ASSUME NEW n, NEW p \in Part, Shallow(n, p), ~IsContainer(p)
  PROVE  /\ Parts(p) = {p} /\ Containers(p) = {} /\ KeptTexts(p) = Texts(p)
         /\ Texts(p) = IF IsText(p) /\ p.text > 0 THEN {p} ELSE {}
<1>1. Parts(p) = {p}
  BY ShallowParts
<1>2. QED
  BY <1>1 DEF Containers, KeptTexts, Texts

\* What is in a container.
LEMMA ContainerParts ==
  ASSUME NEW n, NEW p \in Part, Shallow(n, p), IsContainer(p)
  PROVE  /\ \A x : x \in Texts(p) <=> \E q \in Inner(p) : x \in Texts(q)
         /\ \A c : c \in Containers(p) <=> c = p \/ \E q \in Inner(p) : c \in Containers(q)
         /\ \A q \in Inner(p) : q \in Part /\ Shallow(n - 1, q) /\ Parts(q) \subseteq Parts(p)
<1>1. ~IsText(p)
  BY DEF IsText, IsContainer
<1>2. \A r : r \in Parts(p) <=> r = p \/ \E q \in Inner(p) : r \in Parts(q)
  BY ShallowParts
<1>3. \A q \in Inner(p) : q \in Part /\ Shallow(n - 1, q)
  BY ShallowParts, InnerAreParts
<1>4. QED
  BY <1>1, <1>2, <1>3 DEF Texts, Containers

LEMMA InnerInside ==
  ASSUME NEW n, NEW p \in Part, Shallow(n, p), NEW c \in Containers(p), NEW x \in Inner(c)
  PROVE  x \in Parts(p)
<1> DEFINE T == {k \in Nat : \A q \in Part : Shallow(k, q) =>
                   \A d \in Containers(q) : Inner(d) \subseteq Parts(q)}
<1>1. 0 \in T
  BY DEF Shallow
<1>2. ASSUME NEW k \in Nat, k \in T PROVE k + 1 \in T
  <2>1. SUFFICES ASSUME NEW q \in Part, Shallow(k + 1, q),
                        NEW d \in Containers(q), NEW y \in Inner(d)
                 PROVE  y \in Parts(q)
    OBVIOUS
  <2>2. CASE ~IsContainer(q)
    BY <2>1, <2>2, LeafParts
  <2>3. CASE IsContainer(q)
    <3>1. (k + 1) - 1 = k
      OBVIOUS
    <3>2. \A r \in Inner(q) : r \in Part /\ Shallow(k, r) /\ Parts(r) \subseteq Parts(q)
      BY <2>1, <2>3, <3>1, ContainerParts
    <3>3. CASE d = q
      <4>1. y \in Parts(y)
        BY <3>2, <3>3, PartsType
      <4>2. QED
        BY <3>2, <3>3, <4>1
    <3>4. CASE d # q
      <4>1. PICK r \in Inner(q) : d \in Containers(r)
        BY <2>1, <2>3, <3>4, ContainerParts
      <4>2. y \in Parts(r)
        BY <1>2, <3>2, <4>1
      <4>3. QED
        BY <3>2, <4>2
    <3>5. QED
      BY <3>3, <3>4
  <2>4. QED
    BY <2>2, <2>3
<1>3. Nat \subseteq T
  <2> HIDE DEF T
  <2>1. QED
    BY <1>1, <1>2, NatInduct
<1>4. n \in Nat
  BY DepthsAre DEF Shallow
<1>5. QED
  BY <1>3, <1>4

\* A part of p that is not HTML has something to say.
PlainThere(p) == \E r \in Inner(p) : r.type # "html" /\ Texts(r) # {}

\* A container keeps what its parts keep, but not the HTML ones beside other text.
LEMMA ContainerKeeps ==
  ASSUME NEW n, NEW p \in Part, Shallow(n, p), IsContainer(p)
  PROVE  \A x : x \in KeptTexts(p) <=>
           \E q \in Inner(p) : x \in KeptTexts(q) /\ ~(q.type = "html" /\ PlainThere(p))
<1>1. \A q \in Inner(p) : q \in Part /\ Shallow(n - 1, q) /\ Parts(q) \subseteq Parts(p)
  BY ContainerParts
<1>2. ASSUME NEW q \in Inner(p), NEW x \in Texts(q)
      PROVE  /\ GivesWay(x, p) <=> q.type = "html" /\ PlainThere(p)
             /\ \A r \in Inner(p) : \A c \in Containers(r) : GivesWay(x, c) => c \in Containers(q)
  <2>1. x \in Parts(q)
    BY DEF Texts
  <2>2. GivesWay(x, p) <=> x.type = "html" /\ x \in Inner(p) /\ PlainThere(p)
    BY DEF GivesWay, PlainThere, Inner
  <2>3. x \in Inner(p) => x = q
    <3>1. x \in Inner(p) => x \in Parts(x)
      BY <1>1, PartsType
    <3>2. QED
      BY <2>1, <3>1, InnerApart
  <2>4. q.type = "html" => x = q
    <3>1. q.type = "html" => ~IsContainer(q)
      BY DEF IsContainer
    <3>2. QED
      BY <1>1, <2>1, <3>1, LeafParts
  <2>5. ASSUME NEW r \in Inner(p), NEW c \in Containers(r), GivesWay(x, c)
        PROVE  c \in Containers(q)
    <3>1. x \in Inner(c)
      BY <2>5 DEF GivesWay, Inner
    <3>2. x \in Parts(r)
      BY <1>1, <3>1, InnerInside
    <3>3. r = q
      BY <2>1, <3>2, InnerApart
    <3>4. QED
      BY <3>3
  <2>6. QED
    BY <2>2, <2>3, <2>4, <2>5
<1>3. \A x : x \in Texts(p) <=> \E q \in Inner(p) : x \in Texts(q)
  BY ContainerParts
<1>4. \A c : c \in Containers(p) <=> c = p \/ \E q \in Inner(p) : c \in Containers(q)
  BY ContainerParts
<1>5. ASSUME NEW x, x \in KeptTexts(p)
      PROVE  \E q \in Inner(p) : x \in KeptTexts(q) /\ ~(q.type = "html" /\ PlainThere(p))
  <2>1. x \in Texts(p) /\ \A c \in Containers(p) : ~GivesWay(x, c)
    BY <1>5 DEF KeptTexts
  <2>2. PICK q \in Inner(p) : x \in Texts(q)
    BY <1>3, <2>1
  <2>3. \A c \in Containers(q) : ~GivesWay(x, c)
    BY <1>4, <2>1
  <2>4. ~GivesWay(x, p)
    BY <1>4, <2>1
  <2>5. QED
    BY <1>2, <2>2, <2>3, <2>4 DEF KeptTexts
<1>6. ASSUME NEW q \in Inner(p), NEW x \in KeptTexts(q), ~(q.type = "html" /\ PlainThere(p))
      PROVE  x \in KeptTexts(p)
  <2>1. x \in Texts(q) /\ \A c \in Containers(q) : ~GivesWay(x, c)
    BY DEF KeptTexts
  <2>2. ~GivesWay(x, p)
    BY <1>2, <1>6, <2>1
  <2>3. \A r \in Inner(p) : \A c \in Containers(r) : ~GivesWay(x, c)
    BY <1>2, <2>1
  <2>4. x \in Texts(p)
    BY <1>3, <2>1
  <2>5. QED
    BY <1>4, <2>2, <2>3, <2>4 DEF KeptTexts
<1>7. QED
  BY <1>5, <1>6

\* Where there is text, some is kept.
LEMMA SomeKept ==
  ASSUME NEW n, NEW p \in Part, Shallow(n, p)
  PROVE  Texts(p) # {} <=> KeptTexts(p) # {}
<1> DEFINE T == {k \in Nat : \A q \in Part : Shallow(k, q) /\ Texts(q) # {} => KeptTexts(q) # {}}
<1>1. 0 \in T
  BY DEF Shallow
<1>2. ASSUME NEW k \in Nat, k \in T PROVE k + 1 \in T
  <2>1. SUFFICES ASSUME NEW q \in Part, Shallow(k + 1, q), Texts(q) # {}
                 PROVE  KeptTexts(q) # {}
    OBVIOUS
  <2>2. CASE ~IsContainer(q)
    BY <2>1, <2>2, LeafParts
  <2>3. CASE IsContainer(q)
    <3>1. (k + 1) - 1 = k
      OBVIOUS
    <3>2. \A r \in Inner(q) : r \in Part /\ Shallow(k, r)
      BY <2>1, <2>3, <3>1, ContainerParts
    <3>3. \A r \in Inner(q) : Texts(r) # {} => KeptTexts(r) # {}
      BY <1>2, <3>2
    <3>4. PICK r \in Inner(q) : Texts(r) # {} /\ ~(r.type = "html" /\ PlainThere(q))
      <4>1. CASE PlainThere(q)
        BY <4>1 DEF PlainThere
      <4>2. CASE ~PlainThere(q)
        <5>1. \E r \in Inner(q) : Texts(r) # {}
          BY <2>1, <2>3, ContainerParts
        <5>2. QED
          BY <4>2, <5>1
      <4>3. QED
        BY <4>1, <4>2
    <3>5. PICK x : x \in KeptTexts(r)
      BY <3>3, <3>4
    <3>6. x \in KeptTexts(q)
      BY <2>1, <2>3, <3>4, <3>5, ContainerKeeps
    <3>7. QED
      BY <3>6
  <2>4. QED
    BY <2>2, <2>3
<1>3. Nat \subseteq T
  <2> HIDE DEF T
  <2>1. QED
    BY <1>1, <1>2, NatInduct
<1>4. n \in Nat
  BY DepthsAre DEF Shallow
<1>5. KeptTexts(p) \subseteq Texts(p)
  BY DEF KeptTexts
<1>6. QED
  BY <1>3, <1>4, <1>5

-----------------------------------------------------------------------------
(* lists in the order of the message, and their bytes *)

LEMMA InOrderFew == InOrder(<<>>, {}) /\ \A p : InOrder(<<p>>, {p})
BY DEF InOrder, ToSet

LEMMA InOrderJoin ==
  ASSUME NEW a \in Seq(Part), NEW b \in Seq(Part), NEW A, NEW B, InOrder(a, A), InOrder(b, B),
         \A x \in A, y \in B : x.id < y.id
  PROVE  InOrder(a \o b, A \cup B) /\ a \o b \in Seq(Part)
<1> DEFINE c == a \o b
           m == Len(a)
           n == Len(b)
<1>1. /\ m \in Nat /\ n \in Nat /\ DOMAIN a = 1..m /\ DOMAIN b = 1..n /\ DOMAIN c = 1..(m + n)
      /\ c \in Seq(Part)
      /\ \A i \in 1..m : c[i] = a[i]
      /\ \A i \in (m + 1)..(m + n) : c[i] = b[i - m]
  OBVIOUS
<1>2. A = {a[i] : i \in 1..m} /\ B = {b[i] : i \in 1..n}
  BY <1>1 DEF InOrder, ToSet
<1>3. /\ \A i, j \in 1..m : i < j => a[i].id < a[j].id
      /\ \A i, j \in 1..n : i < j => b[i].id < b[j].id
  BY <1>1 DEF InOrder
<1> HIDE DEF c, m, n
<1>4. ASSUME NEW i \in 1..(m + n) PROVE i \in 1..m \/ (i - m \in 1..n /\ i \in (m + 1)..(m + n))
  BY <1>1
<1>5. {c[i] : i \in 1..(m + n)} = A \cup B
  <2>1. ASSUME NEW i \in 1..(m + n) PROVE c[i] \in A \cup B
    BY <1>1, <1>2, <1>4
  <2>2. ASSUME NEW x \in A PROVE \E i \in 1..(m + n) : x = c[i]
    <3>1. PICK i \in 1..m : x = a[i]
      BY <1>2
    <3>2. i \in 1..(m + n)
      BY <1>1
    <3>3. QED
      BY <1>1, <3>1, <3>2
  <2>3. ASSUME NEW x \in B PROVE \E i \in 1..(m + n) : x = c[i]
    <3>1. PICK i \in 1..n : x = b[i]
      BY <1>2
    <3>2. m + i \in 1..(m + n) /\ m + i \in (m + 1)..(m + n) /\ (m + i) - m = i
      BY <1>1
    <3>3. QED
      BY <1>1, <3>1, <3>2
  <2>4. QED
    BY <2>1, <2>2, <2>3
<1>6. ASSUME NEW i \in 1..(m + n), NEW j \in 1..(m + n), i < j PROVE c[i].id < c[j].id
  <2>1. CASE i \in 1..m /\ j \in 1..m
    BY <1>1, <1>3, <1>6, <2>1
  <2>2. CASE i \in 1..m /\ j \notin 1..m
    <3>1. c[i] \in A /\ c[j] \in B
      BY <1>1, <1>2, <1>4, <2>2
    <3>2. QED
      BY <3>1
  <2>3. CASE i \notin 1..m
    <3>1. i - m \in 1..n /\ j - m \in 1..n /\ i - m < j - m
      BY <1>1, <1>4, <1>6, <2>3
    <3>2. c[i] = b[i - m] /\ c[j] = b[j - m]
      BY <1>1, <1>4, <1>6, <2>3
    <3>3. QED
      BY <1>3, <3>1, <3>2
  <2>4. QED
    BY <2>1, <2>2, <2>3
<1>7. QED
  BY <1>1, <1>5, <1>6 DEF InOrder, ToSet, c

LEMMA InOrderType ==
  ASSUME NEW list \in Seq(Part), NEW S, InOrder(list, S)
  PROVE  S \subseteq Part /\ IsFiniteSet(S) /\ (list = <<>> <=> S = {})
<1>1. S = ToSet(list)
  BY DEF InOrder
<1>2. list = <<>> <=> ToSet(list) = {}
  <2>1. ToSet(<<>>) = {}
    BY DEF ToSet
  <2>2. ASSUME list # <<>> PROVE list[1] \in ToSet(list)
    <3>1. 1 \in DOMAIN list
      BY <2>2
    <3>2. QED
      BY <3>1 DEF ToSet
  <2>3. QED
    BY <2>1, <2>2
<1>3. QED
  BY <1>1, <1>2, ListSet

\* Counting what is in a list once.
LEMMA JoinedBytes ==
  ASSUME NEW list \in Seq(Part), NEW S, InOrder(list, S)
  PROVE  Joined(list) = BodyBytes(S)
<1> DEFINE n == Len(list)
           f == [q \in S |-> q.text]
           g == [i \in DOMAIN list |-> list[i].text]
<1>1. n \in Nat /\ DOMAIN list = 1..n /\ \A i \in 1..n : list[i] \in Part
  OBVIOUS
<1>2. S = {list[i] : i \in 1..n}
  BY <1>1 DEF InOrder, ToSet
<1>3. \A i, j \in 1..n : i < j => list[i].id < list[j].id
  BY <1>1 DEF InOrder
<1>4. \A i, j \in 1..n : list[i] = list[j] => i = j
  <2>1. SUFFICES ASSUME NEW i \in 1..n, NEW j \in 1..n, list[i] = list[j], i < j PROVE FALSE
    BY <1>1
  <2>2. list[i].id < list[i].id /\ list[i].id \in Int
    BY <1>1, <1>3, <2>1, PartAssumption
  <2>3. QED
    BY <2>2
<1>5. IsFiniteSet(1..n)
  BY <1>1, FS_Interval
<1>6. \A i \in 1..n : g[i] = f[list[i]] /\ f[list[i]] \in Nat
  BY <1>1, <1>2, PartAssumption
<1>7. SumFunction(g) = SumFunction(f)
  <2>1. DOMAIN g = 1..n /\ DOMAIN f = {list[i] : i \in 1..n}
    BY <1>1, <1>2
  <2>2. SumFunctionOnSet(g, 1..n) = SumFunctionOnSet(f, {list[i] : i \in 1..n})
    <3> DEFINE D == 1..n
    <3>1. /\ IsFiniteSet(D)
          /\ \A x, y \in D : list[x] = list[y] => x = y
          /\ \A x \in D : g[x] = f[list[x]] /\ f[list[x]] \in Nat
      BY <1>4, <1>5, <1>6
    <3> HIDE DEF D, f, g
    <3>2. SumFunctionOnSet(g, D) = SumFunctionOnSet(f, {list[i] : i \in D})
      BY ONLY <3>1, SumImage
    <3>3. QED
      BY <3>2 DEF D
  <2>3. QED
    BY <2>1, <2>2 DEF SumFunction
<1>8. Cardinality(S) = n
  <2> DEFINE h == [i \in 1..n |-> list[i]]
  <2>1. h \in Bijection(1..n, S)
    <3>1. h \in [1..n -> S] /\ \A x \in S : \E i \in 1..n : h[i] = x
      BY <1>2
    <3>2. \A i, j \in 1..n : h[i] = h[j] => i = j
      BY <1>4
    <3> HIDE DEF h, n
    <3>3. QED
      BY <3>1, <3>2 DEF Bijection, Injection, Surjection, IsInjective
  <2>2. Cardinality(1..n) = n
    <3> HIDE DEF n
    <3>1. 1 \in Int /\ n \in Int
      BY <1>1
    <3>2. Cardinality(1..n) = IF 1 > n THEN 0 ELSE n - 1 + 1
      BY <3>1, FS_Interval
    <3>3. QED
      BY <1>1, <3>2
  <2> HIDE DEF h, n
  <2>3. ExistsBijection(1..n, S)
    BY <2>1 DEF ExistsBijection
  <2>4. QED
    BY <1>5, <2>2, <2>3, FS_Bijection
<1>9. list = <<>> <=> S = {}
  BY InOrderType
<1>10. QED
  BY <1>7, <1>8, <1>9 DEF Joined, BodyBytes, TextBytes

LEMMA TextsSummed ==
  ASSUME NEW S \in SUBSET Part, IsFiniteSet(S), NEW R \in SUBSET S
  PROVE  /\ TextBytes(R) \in Nat /\ TextBytes(R) <= TextBytes(S) /\ IsFiniteSet(R)
         /\ TextBytes(R) = SumFunctionOnSet([q \in S |-> q.text], R)
<1> DEFINE f == [q \in S |-> q.text]
           g == [q \in R |-> q.text]
<1>1. Summable(f, S) /\ Summable(f, R) /\ Summable(g, R) /\ IsFiniteSet(R)
  BY PartAssumption, FS_Subset DEF Summable
<1>2. \A q \in R : f[q] = g[q]
  OBVIOUS
<1>3. DOMAIN f = S /\ DOMAIN g = R
  OBVIOUS
<1> HIDE DEF f, g
<1>4. SumFunctionOnSet(f, R) = SumFunctionOnSet(g, R)
  BY <1>1, <1>2, SumSame
<1>5. SumFunctionOnSet(g, R) \in Nat /\ SumFunctionOnSet(f, R) <= SumFunctionOnSet(f, S)
  BY <1>1, SumType, SumSubset
<1>6. QED
  BY <1>1, <1>3, <1>4, <1>5 DEF TextBytes, SumFunction, f, g

\* More texts make a longer body.
LEMMA BodyGrows ==
  ASSUME NEW S \in SUBSET Part, IsFiniteSet(S), NEW R \in SUBSET S
  PROVE  BodyBytes(R) \in Nat /\ BodyBytes(R) <= BodyBytes(S)
<1> DEFINE r == Cardinality(R)
           s == Cardinality(S)
<1>1. TextBytes(R) \in Nat /\ TextBytes(S) \in Nat /\ TextBytes(R) <= TextBytes(S) /\ IsFiniteSet(R)
  BY TextsSummed
<1>2. r \in Nat /\ s \in Nat /\ r <= s /\ (R # {} => r # 0) /\ (S # {} => s # 0)
  BY <1>1, FS_Subset, FS_CardinalityType, FS_EmptySet
<1> HIDE DEF r, s
<1>3. \A i, j \in Nat : i <= j => Gap * i \in Nat /\ Gap * i <= Gap * j
  <2>1. SUFFICES ASSUME NEW i \in Nat, NEW j \in Nat, i <= j
                 PROVE  Gap * i \in Nat /\ Gap * i <= Gap * j
    OBVIOUS
  <2> DEFINE e == j - i
  <2>2. e \in Nat /\ j = i + e /\ Gap \in Nat
    BY <2>1, LimitsAssumption
  <2> HIDE DEF e
  <2>3. Gap * (i + e) = Gap * i + Gap * e /\ Gap * i \in Nat /\ Gap * e \in Nat
    BY <2>2
  <2>4. QED
    BY <2>2, <2>3
<1>4. R # {} => /\ r - 1 \in Nat /\ s - 1 \in Nat /\ S # {}
                /\ Gap * (r - 1) \in Nat /\ Gap * (r - 1) <= Gap * (s - 1) /\ Gap * (s - 1) \in Nat
  <2>1. R # {} => r - 1 \in Nat /\ s - 1 \in Nat /\ r - 1 <= s - 1 /\ S # {}
    BY <1>2
  <2>2. QED
    BY <1>3, <2>1
<1>5. S # {} => Gap * (s - 1) \in Nat
  <2>1. S # {} => s - 1 \in Nat /\ s - 1 <= s - 1
    BY <1>2
  <2>2. QED
    BY <1>3, <2>1
<1>6. QED
  BY <1>1, <1>4, <1>5 DEF BodyBytes, r, s

LEMMA BodyOfFew == BodyBytes({}) = 0 /\ \A p \in Part : BodyBytes({p}) = p.text
<1>1. BodyBytes({}) = 0
  <2>1. TextBytes({}) = 0
    <3>1. DOMAIN [q \in {} |-> q.text] = {}
      OBVIOUS
    <3>2. QED
      BY <3>1, SumEmpty DEF TextBytes, SumFunction
  <2>2. QED
    BY <2>1 DEF BodyBytes
<1>2. ASSUME NEW p \in Part PROVE BodyBytes({p}) = p.text
  <2> DEFINE f == [q \in {p} |-> q.text]
  <2>1. DOMAIN f = {p} /\ f[p] = p.text /\ p.text \in Nat
    BY PartAssumption
  <2>2. Summable(f, {p}) /\ IsFiniteSet({p}) /\ Cardinality({p}) = 1 /\ {p} \ {p} = {}
    BY <2>1, FS_Singleton DEF Summable
  <2>3. TextBytes({p}) = SumFunctionOnSet(f, {p})
    BY <2>1 DEF TextBytes, SumFunction
  <2> HIDE DEF f
  <2>4. SumFunctionOnSet(f, {p}) = f[p] + SumFunctionOnSet(f, {p} \ {p})
    BY <2>2, SumRemove
  <2>5. SumFunctionOnSet(f, {p}) = p.text
    BY <2>1, <2>2, <2>4, SumEmpty
  <2>6. Gap * (1 - 1) = 0
    BY LimitsAssumption
  <2>7. QED
    BY <2>1, <2>2, <2>3, <2>5, <2>6 DEF BodyBytes
<1>3. QED
  BY <1>1, <1>2

-----------------------------------------------------------------------------
(* the body *)

\* What makes a part good to read with n levels left.
Sound(n, p) ==
  /\ Shallow(n, p)
  /\ \A q \in Parts(p) : Readable(q)
  /\ BodyBytes(KeptTexts(p)) <= MaxBody

LEMMA ShallowIs ==
  ASSUME NEW k \in Nat, k + 1 \in Depths, NEW p \in Part
  PROVE  Shallow(k + 1, p) <=> (IsContainer(p) => \A q \in Inner(p) : Shallow(k, q))
<1>1. k \in Depths /\ k + 1 # 0
  BY DepthsAre DEF Depths
<1>2. \A q \in Inner(p) : Shallow(k, q) <=> Level[k][q] = {}
  <2>1. SUFFICES ASSUME NEW q \in Inner(p), Level[k][q] = {} PROVE k # 0
    BY <1>1 DEF Shallow
  <2>2. q \in Part
    BY InnerAreParts
  <2>3. QED
    BY <2>1, <2>2, LevelIs
<1>3. Level[k + 1][p] = {} <=> (IsContainer(p) => \A q \in Inner(p) : Level[k][q] = {})
  <2>1. \A r : r \in Level[k + 1][p] <=> IsContainer(p) /\ \E q \in Inner(p) : r \in Level[k][q]
    BY LevelIs
  <2>2. QED
    BY <2>1
<1>4. QED
  BY <1>1, <1>2, <1>3 DEF Shallow

LEMMA KeptAreParts ==
  ASSUME NEW p \in Part
  PROVE  KeptTexts(p) \subseteq Parts(p) /\ KeptTexts(p) \subseteq Part /\ IsFiniteSet(KeptTexts(p))
<1>1. KeptTexts(p) \subseteq Parts(p)
  BY DEF KeptTexts, Texts
<1>2. QED
  BY <1>1, PartsType, FS_Subset

LEMMA LeafSound ==
  ASSUME NEW k \in Nat, k + 1 \in Depths, NEW p \in Part, ~IsContainer(p)
  PROVE  /\ Sound(k + 1, p) <=> Readable(p)
         /\ KeptTexts(p) = IF IsText(p) /\ p.text > 0 THEN {p} ELSE {}
<1>1. Shallow(k + 1, p)
  BY ShallowIs
<1>2. /\ Parts(p) = {p} /\ KeptTexts(p) = Texts(p)
      /\ Texts(p) = IF IsText(p) /\ p.text > 0 THEN {p} ELSE {}
  BY <1>1, LeafParts
<1>3. Readable(p) => BodyBytes(KeptTexts(p)) <= MaxBody
  <2>1. MaxBody \in Nat
    BY LimitsAssumption
  <2>2. QED
    BY <1>2, <2>1, BodyOfFew DEF Readable
<1>4. QED
  BY <1>1, <1>2, <1>3 DEF Sound

LEMMA ContainerSound ==
  ASSUME NEW k \in Nat, k + 1 \in Depths, NEW p \in Part, IsContainer(p)
  PROVE  Sound(k + 1, p) <=>
           /\ \A q \in Inner(p) : Sound(k, q)
           /\ BodyBytes(KeptTexts(p)) <= MaxBody
<1>1. Shallow(k + 1, p) <=> \A q \in Inner(p) : Shallow(k, q)
  BY ShallowIs
<1>2. ASSUME Shallow(k + 1, p)
      PROVE  \A r : r \in Parts(p) <=> r = p \/ \E q \in Inner(p) : r \in Parts(q)
  BY <1>2, ShallowParts
<1>3. Readable(p)
  BY DEF Readable, IsContainer, IsText
<1>4. ASSUME Sound(k + 1, p), NEW q \in Inner(p)
      PROVE  BodyBytes(KeptTexts(q)) <= MaxBody
  <2>1. /\ q \in Part /\ Shallow(k, q) /\ Shallow(k + 1, p) /\ Readable(q) /\ MaxBody \in Nat
        /\ BodyBytes(KeptTexts(p)) <= MaxBody
    <3>1. q \in Part /\ Shallow(k, q) /\ MaxBody \in Nat
      BY <1>1, <1>4, InnerAreParts, LimitsAssumption DEF Sound
    <3>2. q \in Parts(p)
      BY <1>2, <1>4, <3>1, PartsType DEF Sound
    <3>3. QED
      BY <1>4, <3>1, <3>2 DEF Sound
  <2>2. CASE q.type = "html"
    <3>1. ~IsContainer(q)
      BY <2>2 DEF IsContainer
    <3>2. KeptTexts(q) = IF IsText(q) /\ q.text > 0 THEN {q} ELSE {}
      BY <2>1, <3>1, LeafParts
    <3>3. QED
      BY <2>1, <3>2, BodyOfFew DEF Readable
  <2>3. CASE q.type # "html"
    <3>1. KeptTexts(q) \subseteq KeptTexts(p)
      BY <2>1, <2>3, ContainerKeeps
    <3>2. BodyBytes(KeptTexts(q)) \in Nat /\ BodyBytes(KeptTexts(q)) <= BodyBytes(KeptTexts(p))
          /\ BodyBytes(KeptTexts(p)) \in Nat
      BY <3>1, KeptAreParts, BodyGrows
    <3>3. QED
      BY <2>1, <3>2
  <2>4. QED
    BY <2>2, <2>3
<1>5. ASSUME Sound(k + 1, p) PROVE \A q \in Inner(p) : Sound(k, q)
  BY <1>1, <1>2, <1>4, <1>5 DEF Sound
<1>6. ASSUME \A q \in Inner(p) : Sound(k, q), BodyBytes(KeptTexts(p)) <= MaxBody
      PROVE  Sound(k + 1, p)
  BY <1>1, <1>2, <1>3, <1>6 DEF Sound
<1>7. QED
  BY <1>5, <1>6 DEF Sound

\* The walk k levels deep gives the body of every part it can read.
BodyRead(k) ==
  \A q \in Part, acc \in Accounts :
    /\ Read[k][q][acc].ok <=> Sound(k, q)
    /\ Read[k][q][acc].ok => InOrder(Read[k][q][acc].body, KeptTexts(q))

\* What the first j parts of p keep, HTML parts apart from the rest.
KeptHtml(p, j) == {x \in Part : \E i \in 1..j : p.parts[i].type = "html" /\ x \in KeptTexts(p.parts[i])}
KeptPlain(p, j) == {x \in Part : \E i \in 1..j : p.parts[i].type # "html" /\ x \in KeptTexts(p.parts[i])}

LEMMA KeptGrows ==
  ASSUME NEW p \in Part, NEW j \in Nat, j + 1 <= Len(p.parts)
  PROVE  LET q == p.parts[j + 1]
         IN  /\ KeptHtml(p, j + 1) = KeptHtml(p, j) \cup (IF q.type = "html" THEN KeptTexts(q) ELSE {})
             /\ KeptPlain(p, j + 1) = KeptPlain(p, j) \cup (IF q.type = "html" THEN {} ELSE KeptTexts(q))
<1> DEFINE q == p.parts[j + 1]
<1>1. q \in Part
  <2>1. p.parts \in Seq(Part)
    BY PartAssumption
  <2>2. QED
    BY <2>1
<1>2. KeptTexts(q) \subseteq Part
  BY <1>1, KeptAreParts
<1>3. \A i : i \in 1..(j + 1) <=> i \in 1..j \/ i = j + 1
  OBVIOUS
<1>4. QED
  BY <1>2, <1>3 DEF KeptHtml, KeptPlain

LEMMA SeenBody ==
  ASSUME NEW k \in Nat, k + 1 \in Depths, NEW p \in Part, IsContainer(p), NEW inc \in Accounts,
         BodyRead(k), NEW m \in 0..Len(p.parts)
  PROVE  LET seen == Seen(Read[k], p, inc, m)
         IN  /\ seen.ok <=> \A i \in 1..m : Sound(k, p.parts[i])
             /\ seen.ok => InOrder(seen.plain, KeptPlain(p, m)) /\ InOrder(seen.html, KeptHtml(p, m))
<1> DEFINE n == Len(p.parts)
           S(j) == Seen(Read[k], p, inc, j)
           Good(j) == /\ S(j).ok <=> \A i \in 1..j : Sound(k, p.parts[i])
                      /\ S(j).ok => /\ InOrder(S(j).plain, KeptPlain(p, j))
                                    /\ InOrder(S(j).html, KeptHtml(p, j))
           T == {j \in Nat : j <= n => Good(j)}
<1>1. Read[k] \in Readers
  BY ReadIs
<1>2. n \in Nat /\ DOMAIN p.parts = 1..n /\ \A i \in 1..n : p.parts[i] \in Part
  <2>1. p.parts \in Seq(Part)
    BY PartAssumption
  <2>2. QED
    BY <2>1
<1>3. 0 \in T
  <2>1. S(0) = Unseen(inc)
    BY <1>1, SeenStep
  <2>2. KeptPlain(p, 0) = {} /\ KeptHtml(p, 0) = {} /\ 1..0 = {}
    BY DEF KeptPlain, KeptHtml
  <2>3. S(0).ok /\ S(0).plain = <<>> /\ S(0).html = <<>>
    BY <2>1 DEF Unseen
  <2> HIDE DEF S
  <2>4. QED
    BY <2>2, <2>3, InOrderFew
<1>4. ASSUME NEW j \in Nat, j \in T PROVE j + 1 \in T
  <2>1. SUFFICES ASSUME j + 1 <= n PROVE Good(j + 1)
    OBVIOUS
  <2> DEFINE q == p.parts[j + 1]
             got == Read[k][q][S(j).inc]
  <2>2. j + 1 \in 1..n /\ (j + 1) - 1 = j /\ j \in 0..n /\ j + 1 \in 0..n /\ q \in Part
    BY <1>2, <2>1
  <2>3. S(j) \in Sorted /\ S(j + 1) \in Sorted /\ S(j + 1) = Visit(Read[k], S(j), q)
    BY <1>1, <2>2, SeenStep
  <2>4. S(j).inc \in Accounts /\ S(j).plain \in Seq(Part) /\ S(j).html \in Seq(Part)
    BY <2>3 DEF Sorted
  <2>5. /\ got.ok <=> Sound(k, q)
        /\ got.ok => InOrder(got.body, KeptTexts(q))
        /\ got.body \in Seq(Part) /\ got.ok \in BOOLEAN
    <3> HIDE DEF q, S
    <3>1. got \in Outcomes
      BY <1>1, <2>2, <2>4 DEF Readers
    <3>2. /\ got.ok <=> Sound(k, q)
          /\ got.ok => InOrder(got.body, KeptTexts(q))
      BY <2>2, <2>4 DEF BodyRead
    <3> HIDE DEF got
    <3>3. got.body \in Seq(Part) /\ got.ok \in BOOLEAN
      BY <3>1 DEF Outcomes
    <3>4. QED
      BY <3>2, <3>3
  <2>6. Good(j)
    BY <1>4, <2>2
  <2>7. Follows(S(j + 1), S(j), q, got)
    <3> HIDE DEF S, q
    <3>1. QED
      BY <1>1, <2>2, <2>3, VisitIs
  <2>8. \A i : i \in 1..(j + 1) <=> i \in 1..j \/ i = j + 1
    BY <2>2
  <2>9. S(j + 1).ok <=> \A i \in 1..(j + 1) : Sound(k, p.parts[i])
    BY <2>5, <2>6, <2>7, <2>8 DEF Follows
  <2>10. /\ KeptHtml(p, j + 1) = KeptHtml(p, j) \cup (IF q.type = "html" THEN KeptTexts(q) ELSE {})
         /\ KeptPlain(p, j + 1) = KeptPlain(p, j) \cup (IF q.type = "html" THEN {} ELSE KeptTexts(q))
    BY <2>2, KeptGrows, <2>1
  <2>11. \A x, y : x \in KeptHtml(p, j) \cup KeptPlain(p, j) /\ y \in KeptTexts(q) => x.id < y.id
    <3>1. SUFFICES ASSUME NEW i \in 1..j, NEW x \in KeptTexts(p.parts[i]), NEW y \in KeptTexts(q)
                   PROVE  x.id < y.id
      BY DEF KeptHtml, KeptPlain
    <3>2. i \in DOMAIN p.parts /\ j + 1 \in DOMAIN p.parts /\ i < j + 1
      BY <1>2, <2>2
    <3>3. x \in Parts(p.parts[i]) /\ y \in Parts(q)
      BY <1>2, <2>2, <3>2, KeptAreParts
    <3>4. QED
      BY <3>2, <3>3, PartsApart
  <2>12. ASSUME S(j + 1).ok
         PROVE  /\ InOrder(S(j + 1).plain, KeptPlain(p, j + 1))
                /\ InOrder(S(j + 1).html, KeptHtml(p, j + 1))
    <3> HIDE DEF S, got, q
    <3>1. /\ InOrder(S(j).plain, KeptPlain(p, j)) /\ InOrder(S(j).html, KeptHtml(p, j))
          /\ InOrder(got.body, KeptTexts(q))
      BY <2>5, <2>6, <2>7, <2>12 DEF Follows
    <3>2. CASE q.type = "html"
      <4>1. InOrder(S(j).html \o got.body, KeptHtml(p, j) \cup KeptTexts(q))
        BY <2>4, <2>5, <2>11, <3>1, InOrderJoin
      <4>2. QED
        BY <2>7, <2>10, <2>12, <3>1, <3>2, <4>1 DEF Follows
    <3>3. CASE q.type # "html"
      <4>1. InOrder(S(j).plain \o got.body, KeptPlain(p, j) \cup KeptTexts(q))
        BY <2>4, <2>5, <2>11, <3>1, InOrderJoin
      <4>2. QED
        BY <2>7, <2>10, <2>12, <3>1, <3>3, <4>1 DEF Follows
    <3>4. QED
      BY <3>2, <3>3
  <2>13. QED
    BY <2>9, <2>12
<1>5. Nat \subseteq T
  <2> HIDE DEF T
  <2>1. QED
    BY <1>3, <1>4, NatInduct
<1>6. m \in Nat /\ m <= n
  BY <1>2
<1>7. QED
  BY <1>5, <1>6

LEMMA LimitedBody ==
  ASSUME NEW list \in Seq(Part), NEW S, InOrder(list, S), NEW inc
  PROVE  /\ Limited(list, inc).ok <=> BodyBytes(S) <= MaxBody
         /\ Limited(list, inc).ok => Limited(list, inc).body = list /\ Limited(list, inc).inc = inc
BY JoinedBytes DEF Limited, Refused

\* A container is read from what its parts have kept.
LEMMA ContainerRead ==
  ASSUME NEW k \in Nat, k + 1 \in Depths, NEW p \in Part, IsContainer(p), NEW inc \in Accounts,
         BodyRead(k)
  PROVE  LET got == ReadParts(Read[k], p, inc)
         IN  /\ got.ok <=> Sound(k + 1, p)
             /\ got.ok => InOrder(got.body, KeptTexts(p))
<1> DEFINE n == Len(p.parts)
           all == Seen(Read[k], p, inc, n)
           list == Preferred(all.plain, all.html)
           got == ReadParts(Read[k], p, inc)
<1>1. /\ n \in Nat /\ n \in 0..n /\ DOMAIN p.parts = 1..n /\ \A i \in 1..n : p.parts[i] \in Part
      /\ Inner(p) = {p.parts[i] : i \in 1..n}
  <2>1. p.parts \in Seq(Part)
    BY PartAssumption
  <2>2. QED
    BY <2>1 DEF Inner, ToSet
<1>2. /\ all.ok <=> \A i \in 1..n : Sound(k, p.parts[i])
      /\ all.ok => InOrder(all.plain, KeptPlain(p, n)) /\ InOrder(all.html, KeptHtml(p, n))
  BY <1>1, SeenBody
<1>3. all.ok <=> \A q \in Inner(p) : Sound(k, q)
  BY <1>1, <1>2
<1>4. /\ all \in Sorted
      /\ got = IF all.ok THEN Limited(list, all.inc) ELSE Refused
  <2>1. Read[k] \in Readers
    BY ReadIs
  <2>2. QED
    BY <1>1, <2>1, SeenStep
<1>5. all.plain \in Seq(Part) /\ all.html \in Seq(Part)
  BY <1>4 DEF Sorted
<1> HIDE DEF all, got
<1>6. CASE ~all.ok
  <2>1. ~Sound(k + 1, p)
    BY <1>3, <1>6, ContainerSound
  <2>2. QED
    BY <1>4, <1>6, <2>1 DEF Refused, got
<1>7. CASE all.ok
  <2>1. Shallow(k + 1, p)
    BY <1>3, <1>7, ShallowIs DEF Sound
  <2>2. \A q \in Inner(p) : q \in Part /\ (Texts(q) # {} <=> KeptTexts(q) # {})
    BY <1>3, <1>7, InnerAreParts, SomeKept DEF Sound
  <2>3. \A x : x \in KeptTexts(p) <=>
          \E q \in Inner(p) : x \in KeptTexts(q) /\ ~(q.type = "html" /\ PlainThere(p))
    BY <2>1, ContainerKeeps
  <2>4. /\ \A x : x \in KeptPlain(p, n) <=> \E q \in Inner(p) : q.type # "html" /\ x \in KeptTexts(q)
        /\ \A x : x \in KeptHtml(p, n) <=> \E q \in Inner(p) : q.type = "html" /\ x \in KeptTexts(q)
    <3>1. \A q \in Inner(p) : KeptTexts(q) \subseteq Part
      BY <2>2, KeptAreParts
    <3> HIDE DEF n
    <3>2. QED
      BY <1>1, <3>1 DEF KeptPlain, KeptHtml
  <2>5. PlainThere(p) <=> KeptPlain(p, n) # {}
    BY <2>2, <2>4 DEF PlainThere
  <2>6. all.plain # <<>> <=> KeptPlain(p, n) # {}
    BY <1>2, <1>5, <1>7, InOrderType
  <2>7. InOrder(list, KeptTexts(p)) /\ list \in Seq(Part)
    <3>1. CASE PlainThere(p)
      <4>1. KeptTexts(p) = KeptPlain(p, n)
        BY <2>3, <2>4, <3>1
      <4>2. QED
        BY <1>2, <1>5, <1>7, <2>5, <2>6, <3>1, <4>1 DEF Preferred
    <3>2. CASE ~PlainThere(p)
      <4>1. KeptTexts(p) = KeptHtml(p, n)
        BY <2>3, <2>4, <2>5, <3>2
      <4>2. QED
        BY <1>2, <1>5, <1>7, <2>5, <2>6, <3>2, <4>1 DEF Preferred
    <3>3. QED
      BY <3>1, <3>2
  <2> HIDE DEF list
  <2>8. got = Limited(list, all.inc)
    BY <1>4, <1>7
  <2>9. /\ got.ok <=> BodyBytes(KeptTexts(p)) <= MaxBody
        /\ got.ok => got.body = list
    BY <2>7, <2>8, LimitedBody
  <2>10. Sound(k + 1, p) <=> BodyBytes(KeptTexts(p)) <= MaxBody
    BY <1>3, <1>7, ContainerSound
  <2>11. QED
    BY <2>7, <2>9, <2>10 DEF got
<1>8. QED
  BY <1>6, <1>7

\* Any other part is read for what it is.
LEMMA LeafRead ==
  ASSUME NEW k \in Nat, k + 1 \in Depths, NEW p \in Part, ~IsContainer(p), NEW inc \in Accounts
  PROVE  LET got == ReadPart(Read[k], p, inc)
         IN  /\ got.ok <=> Sound(k + 1, p)
             /\ got.ok => InOrder(got.body, KeptTexts(p))
<1> DEFINE got == ReadPart(Read[k], p, inc)
<1>1. /\ Sound(k + 1, p) <=> Readable(p)
      /\ KeptTexts(p) = IF IsText(p) /\ p.text > 0 THEN {p} ELSE {}
  BY LeafSound
<1>2. /\ p.type \in {"plain", "html", "multi", "torn", "other", "bad"} /\ p.named \in BOOLEAN
      /\ p.text \in Nat /\ p.raw \in Nat /\ MaxBody \in Nat
  BY PartAssumption, LimitsAssumption
<1>3. CASE p.type = "bad"
  <2>1. got = Refused
    BY <1>3 DEF ReadPart
  <2>2. QED
    BY <1>1, <1>3, <2>1 DEF Readable, Refused
<1>4. CASE p.type # "bad" /\ p.named
  <2>1. got = [ok |-> TRUE, body |-> <<>>, inc |-> Attach(p, inc)]
    BY <1>4 DEF ReadPart
  <2>2. ~IsText(p) /\ Readable(p) /\ KeptTexts(p) = {}
    BY <1>1, <1>4 DEF IsText, Readable
  <2>3. QED
    BY <1>1, <2>1, <2>2, InOrderFew
<1>5. CASE p.type = "torn" /\ ~p.named
  <2>1. got = Refused
    BY <1>5 DEF ReadPart
  <2>2. QED
    BY <1>1, <1>5, <2>1 DEF Readable, Refused
<1>6. CASE p.type = "other" /\ ~p.named
  <2>1. got = [ok |-> TRUE, body |-> <<>>, inc |-> inc]
    BY <1>6 DEF ReadPart
  <2>2. ~IsText(p) /\ Readable(p) /\ KeptTexts(p) = {}
    BY <1>1, <1>6 DEF IsText, Readable
  <2>3. QED
    BY <1>1, <2>1, <2>2, InOrderFew
<1>7. CASE p.type \in {"plain", "html"} /\ ~p.named
  <2> DEFINE list == IF p.text > 0 THEN <<p>> ELSE <<>>
  <2>1. IsText(p) /\ got = ReadText(p, inc)
    BY <1>7 DEF ReadPart, IsText
  <2>2. KeptTexts(p) = IF p.text > 0 THEN {p} ELSE {}
    BY <1>1, <2>1
  <2>3. InOrder(list, KeptTexts(p)) /\ list \in Seq(Part)
    BY <2>2, InOrderFew
  <2>4. BodyBytes(KeptTexts(p)) = p.text
    BY <1>2, <2>2, BodyOfFew
  <2>5. Readable(p) <=> p.content # "broken" /\ p.raw <= MaxBody /\ p.text <= MaxBody
    BY <1>7, <2>1 DEF Readable
  <2>6. got = IF p.content = "broken" \/ p.raw > MaxBody THEN Refused ELSE Limited(list, inc)
    BY <2>1 DEF ReadText
  <2> HIDE DEF list, got
  <2>7. CASE p.content = "broken" \/ p.raw > MaxBody
    <3>1. ~Readable(p)
      BY <1>2, <2>5, <2>7
    <3>2. QED
      BY <1>1, <2>6, <2>7, <3>1 DEF Refused, got
  <2>8. CASE ~(p.content = "broken" \/ p.raw > MaxBody)
    <3>1. Readable(p) <=> p.text <= MaxBody
      BY <1>2, <2>5, <2>8
    <3>2. got = Limited(list, inc)
      BY <2>6, <2>8
    <3>3. QED
      BY <1>1, <2>3, <2>4, <3>1, <3>2, LimitedBody DEF got
  <2>9. QED
    BY <2>7, <2>8
<1>8. QED
  BY <1>2, <1>3, <1>4, <1>5, <1>6, <1>7 DEF IsContainer

LEMMA BodyReads == \A n \in Depths : BodyRead(n)
<1> DEFINE T == {n \in Nat : n \in Depths => BodyRead(n)}
<1>1. 0 \in T
  <2>1. \A q : ~Sound(0, q)
    BY DEF Sound, Shallow
  <2>2. \A q \in Part, acc \in Accounts : ~Read[0][q][acc].ok
    BY ReadIs DEF Refused
  <2>3. QED
    BY <2>1, <2>2 DEF BodyRead
<1>2. ASSUME NEW k \in Nat, k \in T PROVE k + 1 \in T
  <2>1. SUFFICES ASSUME k + 1 \in Depths, NEW p \in Part, NEW inc \in Accounts
                 PROVE  /\ Read[k + 1][p][inc].ok <=> Sound(k + 1, p)
                        /\ Read[k + 1][p][inc].ok => InOrder(Read[k + 1][p][inc].body, KeptTexts(p))
    BY DEF BodyRead
  <2>2. k \in Depths /\ Read[k + 1][p][inc] = ReadPart(Read[k], p, inc)
    BY <2>1, ReadIs
  <2>3. BodyRead(k)
    BY <1>2, <2>2
  <2>4. CASE IsContainer(p)
    <3>1. ReadPart(Read[k], p, inc) = ReadParts(Read[k], p, inc)
      BY <2>4 DEF IsContainer, ReadPart
    <3>2. QED
      BY <2>1, <2>2, <2>3, <2>4, <3>1, ContainerRead
  <2>5. CASE ~IsContainer(p)
    BY <2>1, <2>2, <2>5, LeafRead
  <2>6. QED
    BY <2>4, <2>5
<1>3. Nat \subseteq T
  <2> HIDE DEF T
  <2>1. QED
    BY <1>1, <1>2, NatInduct
<1>4. QED
  BY <1>3, DepthsAre

\* extractPartWithAttachments gives the text of every message, in order.
THEOREM EveryBodyIsText == \A p \in Part : BodyIsText(p)
<1> SUFFICES ASSUME NEW p \in Part PROVE BodyIsText(p)
  OBVIOUS
<1> DEFINE top == MaxDepth + 1
<1>1. top \in Depths /\ top # 0 /\ NoFiles \in Accounts
  BY DepthsAre, AccountsType DEF Depths
<1>2. Extractable(p) <=> Sound(top, p)
  BY <1>1 DEF Extractable, Sound, Shallow
<1>3. ExtractBody(p) = Read[top][p][NoFiles]
  BY DEF ExtractBody
<1> HIDE DEF top
<1>4. QED
  BY <1>1, <1>2, <1>3, BodyReads DEF BodyRead, BodyIsText

-----------------------------------------------------------------------------
(* the named parts *)

Named(p) == {q \in Parts(p) : q.named}

\* The named parts an account has, in the prompt or in the report.
Filed(inc) == ToSet(inc.files) \cup ToSet(inc.notes)

\* The files of an account are charged, and would be accepted or reported again.
Account(inc) ==
  /\ inc \in Accounts
  /\ InOrder(inc.files, ToSet(inc.files)) /\ InOrder(inc.notes, ToSet(inc.notes))
  /\ inc.remaining = MaxAttached - TextBytes(ToSet(inc.files)) /\ inc.remaining >= 0
  /\ \A q \in ToSet(inc.files) : HasRoom(q, ToSet(inc.files))
  /\ \A q \in ToSet(inc.notes) : ~HasRoom(q, ToSet(inc.files))

\* Everything in the account comes before p in the message.
Precedes(inc, p) == \A x \in Filed(inc), y \in Parts(p) : x.id < y.id

LEMMA FiledType ==
  ASSUME NEW inc \in Accounts
  PROVE  /\ ToSet(inc.files) \subseteq Part /\ IsFiniteSet(ToSet(inc.files))
         /\ ToSet(inc.notes) \subseteq Part /\ Filed(inc) \subseteq Part
<1>1. inc.files \in Seq(Part) /\ inc.notes \in Seq(Part)
  BY DEF Accounts
<1>2. QED
  BY <1>1, ListSet DEF Filed

LEMMA NothingFiled == Account(NoFiles) /\ Filed(NoFiles) = {} /\ \A p : Precedes(NoFiles, p)
<1>1. NoFiles.files = <<>> /\ NoFiles.notes = <<>> /\ NoFiles.remaining = MaxAttached
  BY DEF NoFiles
<1>2. ToSet(<<>>) = {}
  BY DEF ToSet
<1>3. TextBytes({}) = 0
  <2>1. DOMAIN [q \in {} |-> q.text] = {}
    OBVIOUS
  <2>2. QED
    BY <2>1, SumEmpty DEF TextBytes, SumFunction
<1>4. MaxAttached \in Nat
  BY LimitsAssumption
<1>5. Account(NoFiles)
  <2>1. NoFiles \in Accounts /\ InOrder(<<>>, {})
    BY AccountsType, InOrderFew
  <2>2. ToSet(NoFiles.files) = {} /\ ToSet(NoFiles.notes) = {}
    BY <1>1, <1>2
  <2>3. NoFiles.remaining = MaxAttached - TextBytes({}) /\ NoFiles.remaining >= 0
    BY <1>1, <1>3, <1>4
  <2>4. QED
    BY <1>1, <2>1, <2>2, <2>3 DEF Account
<1>6. QED
  BY <1>1, <1>2, <1>5 DEF Filed, Precedes

\* The length of a set of texts with one more.
LEMMA TextsAdd ==
  ASSUME NEW S \in SUBSET Part, IsFiniteSet(S), NEW p \in Part, p \notin S
  PROVE  TextBytes(S \cup {p}) = TextBytes(S) + p.text
<1> DEFINE U == S \cup {p}
           f == [q \in U |-> q.text]
<1>1. IsFiniteSet(U) /\ U \in SUBSET Part /\ S \in SUBSET U /\ U \in SUBSET U
  BY FS_AddElement
<1>2. f[p] = p.text /\ Summable(f, U)
  BY PartAssumption DEF Summable
<1>3. TextBytes(U) = SumFunctionOnSet(f, U) /\ TextBytes(S) = SumFunctionOnSet(f, S)
  <2> HIDE DEF U
  <2>1. QED
    BY <1>1, TextsSummed
<1> HIDE DEF f
<1>4. SumFunctionOnSet(f, U) = SumFunctionOnSet(f, S) + f[p]
  BY <1>2, SumAdd
<1>5. QED
  BY <1>2, <1>3, <1>4

\* What later files do not change.
LEMMA RoomKept ==
  ASSUME NEW files \in SUBSET Part, NEW p \in Part, NEW q \in Part, q.id <= p.id
  PROVE  HasRoom(q, files \cup {p}) <=> HasRoom(q, files)
<1>1. p.id \in Int /\ q.id \in Int
  BY PartAssumption
<1>2. {f \in files \cup {p} : f.id < q.id} = {f \in files : f.id < q.id}
  BY <1>1
<1>3. QED
  BY <1>2 DEF HasRoom

\* The limit of the next file is the one it has by reference.
LEMMA RoomLeft ==
  ASSUME NEW inc, Account(inc), NEW p \in Part, \A x \in Filed(inc) : x.id < p.id
  PROVE  /\ Acceptable(p, FileLimit(inc)) <=> HasRoom(p, ToSet(inc.files))
         /\ Acceptable(p, FileLimit(inc)) => p.text <= inc.remaining
<1> DEFINE files == ToSet(inc.files)
           left == MaxAttached - TextBytes(files)
           limit == FileLimit(inc)
<1>1. /\ files \subseteq Part /\ {f \in files : f.id < p.id} = files
      /\ inc.remaining = left /\ inc.remaining \in Int
  BY FiledType DEF Account, Filed, Accounts
<1>2. p.raw \in Int /\ p.text \in Int /\ PerFile \in Int
  BY PartAssumption, LimitsAssumption
<1> HIDE DEF files, left
<1>3. limit = Min({PerFile, left}) /\ limit \in Int /\ limit <= left
  BY <1>1, <1>2, MinOfTwo DEF FileLimit
<1> HIDE DEF limit
<1>4. Max({p.raw, p.text}) <= limit <=> p.raw <= limit /\ p.text <= limit
  BY <1>2, <1>3, MaxOfTwo
<1>5. HasRoom(p, files) <=> p.content = "text" /\ p.text > 0 /\ Max({p.raw, p.text}) <= limit
  BY <1>1, <1>3 DEF HasRoom, left
<1>6. Acceptable(p, limit) <=> HasRoom(p, files)
  BY <1>4, <1>5 DEF Acceptable
<1>7. Acceptable(p, limit) => p.text <= inc.remaining
  BY <1>1, <1>2, <1>3 DEF Acceptable
<1>8. QED
  BY <1>6, <1>7 DEF files, limit

LEMMA FileAttached ==
  ASSUME NEW inc, Account(inc), NEW p \in Part, \A x \in Filed(inc) : x.id < p.id
  PROVE  Account(Attach(p, inc)) /\ Filed(Attach(p, inc)) = Filed(inc) \cup {p}
<1> DEFINE files == ToSet(inc.files)
           notes == ToSet(inc.notes)
           next == Attach(p, inc)
<1>1. /\ inc \in Accounts /\ inc.files \in Seq(Part) /\ inc.notes \in Seq(Part)
      /\ inc.remaining \in Int /\ next \in Accounts
      /\ files \in SUBSET Part /\ notes \in SUBSET Part /\ IsFiniteSet(files)
  BY FiledType, AccountsType DEF Account, Accounts
<1>2. /\ \A x \in files \cup notes : x.id < p.id /\ x.id <= p.id
      /\ p.id \in Int /\ p.text \in Nat
  <2>1. \A x \in Part : x.id \in Int /\ x.text \in Nat
    BY PartAssumption
  <2>2. QED
    BY <1>1, <2>1 DEF Filed
<1>3. p \notin files
  BY <1>2
<1>4. \A list \in {inc.files, inc.notes} :
        /\ ToSet(Append(list, p)) = ToSet(list) \cup {p}
        /\ InOrder(Append(list, p), ToSet(list) \cup {p})
  <2>1. SUFFICES ASSUME NEW list \in {inc.files, inc.notes}
                 PROVE  /\ ToSet(Append(list, p)) = ToSet(list) \cup {p}
                        /\ InOrder(Append(list, p), ToSet(list) \cup {p})
    OBVIOUS
  <2>2. list \in Seq(Part) /\ <<p>> \in Seq(Part) /\ Append(list, p) = list \o <<p>>
    BY <1>1
  <2>3. InOrder(list, ToSet(list)) /\ \A x \in ToSet(list), y \in {p} : x.id < y.id
    BY <1>2 DEF Account
  <2>4. ToSet(Append(list, p)) = ToSet(list) \cup {p}
    <3>1. list \in Seq(Part)
      BY <2>2
    <3>2. QED
      BY ONLY <3>1, p \in Part, AppendedSet
  <2>5. InOrder(<<p>>, {p})
    BY InOrderFew
  <2>6. InOrder(list \o <<p>>, ToSet(list) \cup {p})
    <3> DEFINE last == <<p>>
               one == {p}
    <3>1. last \in Seq(Part) /\ InOrder(last, one) /\ \A x \in ToSet(list), y \in one : x.id < y.id
      BY <2>3, <2>5
    <3> HIDE DEF last, one
    <3>2. InOrder(list \o last, ToSet(list) \cup one)
      BY <2>2, <2>3, <3>1, InOrderJoin
    <3>3. QED
      BY <3>2 DEF last, one
  <2>7. QED
    BY <2>2, <2>4, <2>6
<1>5. \A q \in files \cup notes : HasRoom(q, files \cup {p}) <=> HasRoom(q, files)
  BY <1>1, <1>2, RoomKept
<1>6. HasRoom(p, files \cup {p}) <=> HasRoom(p, files)
  BY <1>1, <1>2, RoomKept
<1>7. CASE Acceptable(p, FileLimit(inc))
  <2>1. /\ next.remaining = inc.remaining - p.text /\ next.files = Append(inc.files, p)
        /\ next.notes = inc.notes
    BY <1>1, <1>7 DEF Attach, Accounts
  <2>2. ToSet(next.files) = files \cup {p} /\ ToSet(next.notes) = notes
    BY <1>4, <2>1
  <2>3. HasRoom(p, files) /\ p.text <= inc.remaining
    BY <1>7, RoomLeft
  <2>4. next.remaining = MaxAttached - TextBytes(files \cup {p}) /\ next.remaining >= 0
    <3>1. TextBytes(files \cup {p}) = TextBytes(files) + p.text
      BY <1>1, <1>3, TextsAdd
    <3>2. TextBytes(files) \in Nat /\ MaxAttached \in Nat
          /\ inc.remaining = MaxAttached - TextBytes(files)
      BY <1>1, TextsSummed, LimitsAssumption DEF Account
    <3> HIDE DEF files, next
    <3>3. QED
      BY <1>1, <1>2, <2>1, <2>3, <3>1, <3>2
  <2>5. InOrder(next.files, ToSet(next.files)) /\ InOrder(next.notes, ToSet(next.notes))
    BY <1>4, <2>1, <2>2 DEF Account
  <2>6. \A q \in files \cup {p} : HasRoom(q, files \cup {p})
    BY <1>5, <1>6, <2>3 DEF Account
  <2>7. \A q \in notes : ~HasRoom(q, files \cup {p})
    BY <1>5 DEF Account
  <2> HIDE DEF next, files, notes
  <2>8. Account(next)
    BY <1>1, <2>2, <2>4, <2>5, <2>6, <2>7 DEF Account
  <2>9. Filed(next) = (files \cup {p}) \cup notes
    BY <2>2 DEF Filed
  <2>10. QED
    BY <2>8, <2>9 DEF Filed, next, files, notes
<1>8. CASE ~Acceptable(p, FileLimit(inc))
  <2>1. /\ next.remaining = inc.remaining /\ next.files = inc.files
        /\ next.notes = Append(inc.notes, p)
    BY <1>1, <1>8 DEF Attach, Accounts
  <2>2. ToSet(next.files) = files /\ ToSet(next.notes) = notes \cup {p}
    BY <1>4, <2>1
  <2>3. ~HasRoom(p, files)
    BY <1>8, RoomLeft
  <2>4. next.remaining = MaxAttached - TextBytes(files) /\ next.remaining >= 0
    BY <2>1 DEF Account
  <2>5. InOrder(next.files, ToSet(next.files)) /\ InOrder(next.notes, ToSet(next.notes))
    BY <1>4, <2>1, <2>2 DEF Account
  <2>6. \A q \in files : HasRoom(q, files)
    BY DEF Account
  <2>7. \A q \in notes \cup {p} : ~HasRoom(q, files)
    BY <2>3 DEF Account
  <2> HIDE DEF next, files, notes
  <2>8. Account(next)
    BY <1>1, <2>2, <2>4, <2>5, <2>6, <2>7 DEF Account
  <2>9. Filed(next) = files \cup (notes \cup {p})
    BY <2>2 DEF Filed
  <2>10. QED
    BY <2>8, <2>9 DEF Filed, next, files, notes
<1>9. QED
  BY <1>7, <1>8

\* The walk k levels deep files the named parts of every part it can read.
AccountKept(k) ==
  \A q \in Part, inc \in Accounts :
    Read[k][q][inc].ok /\ Account(inc) /\ Precedes(inc, q) =>
      /\ Account(Read[k][q][inc].inc)
      /\ Filed(Read[k][q][inc].inc) = Filed(inc) \cup Named(q)

\* The named parts among the first j parts of p.
NamedIn(p, j) == {x \in Part : \E i \in 1..j : x \in Named(p.parts[i])}

LEMMA SeenFiled ==
  ASSUME NEW k \in Nat, k + 1 \in Depths, NEW p \in Part, IsContainer(p), NEW inc \in Accounts,
         AccountKept(k), Account(inc), Precedes(inc, p), Shallow(k + 1, p),
         NEW m \in 0..Len(p.parts), Seen(Read[k], p, inc, m).ok
  PROVE  /\ Account(Seen(Read[k], p, inc, m).inc)
         /\ Filed(Seen(Read[k], p, inc, m).inc) = Filed(inc) \cup NamedIn(p, m)
<1> DEFINE n == Len(p.parts)
           S(j) == Seen(Read[k], p, inc, j)
           Good(j) == S(j).ok => /\ Account(S(j).inc)
                                 /\ Filed(S(j).inc) = Filed(inc) \cup NamedIn(p, j)
           T == {j \in Nat : j <= n => Good(j)}
<1>1. Read[k] \in Readers
  BY ReadIs
<1>2. /\ n \in Nat /\ DOMAIN p.parts = 1..n
      /\ \A i \in 1..n : p.parts[i] \in Part /\ p.parts[i] \in Inner(p)
  <2>1. p.parts \in Seq(Part)
    BY PartAssumption
  <2>2. QED
    BY <2>1 DEF Inner, ToSet
<1>3. 0 \in T
  <2>1. S(0) = Unseen(inc)
    BY <1>1, SeenStep
  <2>2. S(0).inc = inc
    BY <2>1 DEF Unseen
  <2>3. NamedIn(p, 0) = {}
    BY DEF NamedIn
  <2> HIDE DEF S
  <2>4. QED
    BY <2>2, <2>3
<1>4. ASSUME NEW j \in Nat, j \in T PROVE j + 1 \in T
  <2>1. SUFFICES ASSUME j + 1 <= n, S(j + 1).ok
                 PROVE  /\ Account(S(j + 1).inc)
                        /\ Filed(S(j + 1).inc) = Filed(inc) \cup NamedIn(p, j + 1)
    OBVIOUS
  <2> DEFINE q == p.parts[j + 1]
             got == Read[k][q][S(j).inc]
  <2>2. /\ j + 1 \in 1..n /\ (j + 1) - 1 = j /\ j \in 0..n /\ j + 1 \in 0..n
        /\ q \in Part /\ q \in Inner(p)
    BY <1>2, <2>1
  <2>3. S(j) \in Sorted /\ S(j + 1) = Visit(Read[k], S(j), q)
    BY <1>1, <2>2, SeenStep
  <2>4. S(j).inc \in Accounts
    BY <2>3 DEF Sorted
  <2>5. Follows(S(j + 1), S(j), q, got)
    <3> HIDE DEF S, q
    <3>1. QED
      BY <1>1, <2>2, <2>3, VisitIs
  <2>6. S(j).ok /\ got.ok /\ S(j + 1).inc = got.inc
    BY <2>1, <2>5 DEF Follows
  <2>7. Account(S(j).inc) /\ Filed(S(j).inc) = Filed(inc) \cup NamedIn(p, j)
    BY <1>4, <2>2, <2>6
  <2>8. \A i : i \in 1..(j + 1) <=> i \in 1..j \/ i = j + 1
    BY <2>2
  <2>9. Named(q) \subseteq Part
    BY <2>2, PartsType DEF Named
  <2>10. Precedes(S(j).inc, q)
    <3>1. ASSUME NEW x \in Filed(inc), NEW y \in Parts(q) PROVE x.id < y.id
      <4>1. y \in Parts(p)
        BY <2>2, ContainerParts
      <4>2. QED
        BY <4>1 DEF Precedes
    <3>2. ASSUME NEW i \in 1..j, NEW x \in Named(p.parts[i]), NEW y \in Parts(q) PROVE x.id < y.id
      <4>1. i \in DOMAIN p.parts /\ j + 1 \in DOMAIN p.parts /\ i < j + 1
        BY <1>2, <2>2
      <4>2. x \in Parts(p.parts[i])
        BY DEF Named
      <4>3. QED
        BY <4>1, <4>2, PartsApart
    <3> HIDE DEF S, q
    <3>3. QED
      BY <2>7, <3>1, <3>2 DEF Precedes, NamedIn
  <2>11. Account(got.inc) /\ Filed(got.inc) = Filed(S(j).inc) \cup Named(q)
    <3> HIDE DEF S, q
    <3>1. QED
      BY <2>2, <2>4, <2>6, <2>7, <2>10 DEF AccountKept
  <2>12. NamedIn(p, j + 1) = NamedIn(p, j) \cup Named(q)
    BY <2>8, <2>9 DEF NamedIn
  <2> HIDE DEF S, got, q
  <2>13. QED
    BY <2>6, <2>7, <2>11, <2>12
<1>5. Nat \subseteq T
  <2> HIDE DEF T
  <2>1. QED
    BY <1>3, <1>4, NatInduct
<1>6. m \in Nat /\ m <= n
  BY <1>2
<1>7. QED
  BY <1>5, <1>6

LEMMA ContainerFiled ==
  ASSUME NEW k \in Nat, k + 1 \in Depths, NEW p \in Part, IsContainer(p), NEW inc \in Accounts,
         AccountKept(k), Account(inc), Precedes(inc, p), ReadParts(Read[k], p, inc).ok
  PROVE  LET next == ReadParts(Read[k], p, inc).inc
         IN  Account(next) /\ Filed(next) = Filed(inc) \cup Named(p)
<1> DEFINE n == Len(p.parts)
           all == Seen(Read[k], p, inc, n)
           list == Preferred(all.plain, all.html)
           got == ReadParts(Read[k], p, inc)
<1>1. /\ n \in Nat /\ n \in 0..n /\ \A i \in 1..n : p.parts[i] \in Part
      /\ Inner(p) = {p.parts[i] : i \in 1..n}
  <2>1. p.parts \in Seq(Part)
    BY PartAssumption
  <2>2. QED
    BY <2>1 DEF Inner, ToSet
<1>2. Shallow(k + 1, p)
  <2>1. BodyRead(k)
    BY ReadIs, BodyReads
  <2>2. Sound(k + 1, p)
    BY <2>1, ContainerRead
  <2>3. QED
    BY <2>2 DEF Sound
<1>3. got = IF all.ok THEN Limited(list, all.inc) ELSE Refused
  <2>1. Read[k] \in Readers
    BY ReadIs
  <2>2. QED
    BY <1>1, <2>1, SeenStep
<1> HIDE DEF all, list
<1>4. all.ok /\ got.inc = all.inc
  BY <1>3 DEF Refused, Limited
<1>5. Account(all.inc) /\ Filed(all.inc) = Filed(inc) \cup NamedIn(p, n)
  BY <1>1, <1>2, <1>4, SeenFiled DEF all
<1>6. NamedIn(p, n) = Named(p)
  <2>1. \A x : x \in Parts(p) <=> x = p \/ \E q \in Inner(p) : x \in Parts(q)
    BY <1>2, ShallowParts
  <2>2. ~p.named
    BY DEF IsContainer
  <2>3. \A q \in Inner(p) : Parts(q) \subseteq Part
    BY <1>1, PartsType
  <2>4. ASSUME NEW x \in Named(p) PROVE x \in NamedIn(p, n)
    <3>1. PICK q \in Inner(p) : x \in Named(q) /\ x \in Part
      BY <2>1, <2>2, <2>3 DEF Named
    <3>2. PICK i \in 1..n : q = p.parts[i]
      BY <1>1
    <3>3. QED
      BY <3>1, <3>2 DEF NamedIn
  <2>5. ASSUME NEW x \in NamedIn(p, n) PROVE x \in Named(p)
    <3>1. PICK i \in 1..n : x \in Named(p.parts[i])
      BY DEF NamedIn
    <3>2. p.parts[i] \in Inner(p)
      BY <1>1
    <3>3. QED
      BY <2>1, <3>1, <3>2 DEF Named
  <2>6. QED
    BY <2>4, <2>5
<1>7. QED
  BY <1>4, <1>5, <1>6

LEMMA LeafFiled ==
  ASSUME NEW k \in Nat, k + 1 \in Depths, NEW p \in Part, ~IsContainer(p), NEW inc \in Accounts,
         Account(inc), Precedes(inc, p), ReadPart(Read[k], p, inc).ok
  PROVE  LET next == ReadPart(Read[k], p, inc).inc
         IN  Account(next) /\ Filed(next) = Filed(inc) \cup Named(p)
<1> DEFINE got == ReadPart(Read[k], p, inc)
<1>1. Parts(p) = {p}
  <2>1. Shallow(k + 1, p)
    BY ShallowIs
  <2>2. QED
    BY <2>1, LeafParts
<1>2. Named(p) = IF p.named THEN {p} ELSE {}
  BY <1>1 DEF Named
<1>3. \A x \in Filed(inc) : x.id < p.id
  BY <1>1 DEF Precedes
<1>4. got.ok => p.type # "bad" /\ (p.type = "torn" => p.named)
  BY DEF ReadPart, Refused
<1>5. CASE p.named
  <2>1. got.inc = Attach(p, inc)
    BY <1>4, <1>5 DEF ReadPart
  <2>2. QED
    BY <1>2, <1>3, <1>5, <2>1, FileAttached
<1>6. CASE ~p.named
  <2>1. got.inc = inc
    <3>1. p.type \in {"plain", "html", "other"}
      BY <1>4, <1>6, PartAssumption DEF IsContainer
    <3>2. CASE p.type = "other"
      BY <1>6, <3>2 DEF ReadPart
    <3>3. CASE p.type # "other"
      <4>1. got = ReadText(p, inc)
        BY <1>6, <3>1, <3>3 DEF ReadPart
      <4>2. QED
        BY <4>1 DEF ReadText, Limited, Refused
    <3>4. QED
      BY <3>2, <3>3
  <2>2. QED
    BY <1>2, <1>6, <2>1
<1>7. QED
  BY <1>5, <1>6

LEMMA AccountsKept == \A n \in Depths : AccountKept(n)
<1> DEFINE T == {n \in Nat : n \in Depths => AccountKept(n)}
<1>1. 0 \in T
  <2>1. \A q \in Part, acc \in Accounts : ~Read[0][q][acc].ok
    BY ReadIs DEF Refused
  <2>2. QED
    BY <2>1 DEF AccountKept
<1>2. ASSUME NEW k \in Nat, k \in T PROVE k + 1 \in T
  <2>1. SUFFICES ASSUME k + 1 \in Depths, NEW p \in Part, NEW inc \in Accounts,
                        Read[k + 1][p][inc].ok, Account(inc), Precedes(inc, p)
                 PROVE  /\ Account(Read[k + 1][p][inc].inc)
                        /\ Filed(Read[k + 1][p][inc].inc) = Filed(inc) \cup Named(p)
    BY DEF AccountKept
  <2>2. k \in Depths /\ Read[k + 1][p][inc] = ReadPart(Read[k], p, inc)
    BY <2>1, ReadIs
  <2>3. AccountKept(k)
    BY <1>2, <2>2
  <2>4. CASE IsContainer(p)
    <3>1. ReadPart(Read[k], p, inc) = ReadParts(Read[k], p, inc)
      BY <2>4 DEF IsContainer, ReadPart
    <3>2. QED
      BY <2>1, <2>2, <2>3, <2>4, <3>1, ContainerFiled
  <2>5. CASE ~IsContainer(p)
    BY <2>1, <2>2, <2>5, LeafFiled
  <2>6. QED
    BY <2>4, <2>5
<1>3. Nat \subseteq T
  <2> HIDE DEF T
  <2>1. QED
    BY <1>1, <1>2, NatInduct
<1>4. QED
  BY <1>3, DepthsAre

\* incomingAttachments has every file of every message whole, or reports it.
THEOREM EveryFileIsWhole == \A p \in Part : FilesAreWhole(p)
<1> SUFFICES ASSUME NEW p \in Part PROVE FilesAreWhole(p)
  OBVIOUS
<1> DEFINE top == MaxDepth + 1
           inc == ExtractBody(p).inc
<1>1. top \in Depths /\ NoFiles \in Accounts
  BY DepthsAre, AccountsType DEF Depths
<1>2. ExtractBody(p) = Read[top][p][NoFiles]
  BY DEF ExtractBody
<1> HIDE DEF top
<1>3. CASE ExtractBody(p).ok
  <2>1. Account(inc) /\ Filed(inc) = {} \cup Named(p)
    <3>1. Account(NoFiles) /\ Precedes(NoFiles, p) /\ Filed(NoFiles) = {}
      BY NothingFiled
    <3>2. AccountKept(top)
      BY <1>1, AccountsKept
    <3>3. Account(Read[top][p][NoFiles].inc)
          /\ Filed(Read[top][p][NoFiles].inc) = Filed(NoFiles) \cup Named(p)
      BY <1>1, <1>2, <1>3, <3>1, <3>2 DEF AccountKept
    <3>4. QED
      BY <1>2, <3>1, <3>3
  <2>2. TextBytes(ToSet(inc.files)) <= MaxAttached
    <3>1. inc \in Accounts
      BY <2>1 DEF Account
    <3>2. TextBytes(ToSet(inc.files)) \in Nat /\ MaxAttached \in Nat
      BY <3>1, FiledType, TextsSummed, LimitsAssumption
    <3>3. MaxAttached - TextBytes(ToSet(inc.files)) >= 0
      BY <2>1 DEF Account
    <3>4. QED
      BY <3>2, <3>3
  <2> HIDE DEF inc
  <2>3. QED
    BY <2>1, <2>2 DEF Account, Filed, Named, FilesAreWhole, inc
<1>4. CASE ~ExtractBody(p).ok
  BY <1>4 DEF FilesAreWhole
<1>5. QED
  BY <1>3, <1>4

-----------------------------------------------------------------------------
(* one run of the program *)

\* The bot has the settings and folders of one of Bots; the docset command is on
\* its way through a docset.
Running ==
  \/ IsBot /\ \E bot \in Bots : given = bot.given /\ fs = Ready(bot)
  \/ ~IsBot /\ Walked

LEMMA InitRunning == ASSUME Init PROVE Running
<1>1. CASE InitBot
  BY <1>1 DEF InitBot, Running, IsBot
<1>2. CASE InitDocset
  <2>1. phase = "find" /\ IsDocset(docset) /\ DocInit
    BY <1>2, InvocationAssumption DEF InitDocset, Init
  <2>2. QED
    BY <2>1, DocInitWalked DEF Running, IsBot
<1>3. QED
  BY <1>1, <1>2 DEF Init

LEMMA NextRunning == ASSUME Running, [Next]_invocationVars PROVE Running'
<1>1. CASE UNCHANGED <<docVars, given, fs>>
  <2>1. CASE IsBot
    <3>1. PICK bot \in Bots : given = bot.given /\ fs = Ready(bot)
      BY <2>1 DEF Running
    <3>2. given' = bot.given /\ fs' = Ready(bot) /\ IsBot'
      BY <1>1, <2>1, <3>1 DEF IsBot, docVars
    <3>3. QED
      BY <3>2 DEF Running
  <2>2. CASE ~IsBot
    <3>1. Walked'
      BY <1>1, <2>2, NextWalked DEF Running
    <3>2. ~IsBot'
      BY <1>1, <2>2 DEF IsBot, docVars
    <3>3. QED
      BY <3>1, <3>2 DEF Running
  <2>3. QED
    BY <2>1, <2>2
<1>2. CASE DocsetCommand
  <2>1. DocNext
    BY <1>2 DEF DocsetCommand
  <2>2. ~IsBot
    BY <2>1
    DEF IsBot, DocNext, FindDocset, NotThere, PassAside, AddPage, RefuseEntry, EndWalk,
        ConvertMarkdown, ConvertOrg, ConvertExcerpt, Fails, Walking
  <2>3. Walked'
    BY <2>1, <2>2, NextWalked DEF Running
  <2>4. ~IsBot'
    BY <2>3 DEF Walked, Stages, IsBot
  <2>5. QED
    BY <2>3, <2>4 DEF Running
<1>3. QED
  BY <1>1, <1>2 DEF Next, Process, Continue, invocationVars

LEMMA RunningAlways == Spec => []Running
BY InitRunning, NextRunning, PTL DEF Spec

LEMMA ServingFinds ==
  ASSUME Running, Serving
  PROVE  FindsDue(fs, Root, Excluded) /\ \A f \in DOMAIN fs.mail : fs.mail[f] \in Message
<1>1. PICK bot \in Bots : given = bot.given /\ fs = Ready(bot)
  BY DEF Running, Serving
<1>2. Config!Starts(bot.given) /\ Settings = Config!LoadConfig(bot.given).set
  BY <1>1 DEF Serving, Settings
<1>3. fs.mail = bot.fs.mail /\ \A dir \in Excluded : Real(fs, dir) \in fs.dirs
  BY <1>1, <1>2, ReadyHasFolders DEF Excluded
<1>4. IsFileSystem(fs)
  BY <1>1, InvocationAssumption
<1>5. FindsDue(fs, Root, Excluded)
  BY <1>3, <1>4, ScanFindsDue
<1>6. QED
  BY <1>3, <1>5, InvocationAssumption

\* For any command line, environment and files, each setting of the run comes
\* from the highest layer that mentions it, and a command from one layer
\* (loadConfig).
THEOREM PrecedenceAlways == Spec => []Precedence
<1>1. Running => Precedence
  <2> SUFFICES ASSUME Running, IsBot PROVE Config!Precedence(given)
    BY DEF Precedence
  <2>1. Config!IsGiven(given)
    BY InvocationAssumption DEF Running
  <2>2. QED
    BY <2>1, LayersPrecede
<1>2. QED
  BY <1>1, RunningAlways, PTL

\* Wherever the settings put the archive and failed folders, the scan finds the
\* mail that is due and nothing from them, unless a link leads to the folder or
\* it lies above the root (findMessages).
THEOREM ScanFollowsAlways == Spec => []ScanFollows
<1>1. Running => ScanFollows
  BY ServingFinds DEF ScanFollows
<1>2. QED
  BY <1>1, RunningAlways, PTL

\* Whatever the settings and the Maildir, runCycle only ever has processMessage
\* work on messages, one after the other: a run is one of PipelineSpec's.
THEOREM AttemptsAreThePipelines == Spec => PipelineSpec
<1>1. Init => PipelineInit
  BY DEF Init
<1>2. Running /\ [Next]_invocationVars => [PipelineNext]_vars
  <2> SUFFICES ASSUME Running, [Next]_invocationVars PROVE [PipelineNext]_vars
    OBVIOUS
  <2>1. CASE Process
    <3>1. PICK f \in DOMAIN fs.mail : Serving /\ Begin(fs.mail[f])
      BY <2>1 DEF Process
    <3>2. fs.mail[f] \in Message
      BY <3>1, ServingFinds
    <3>3. QED
      BY <3>1, <3>2 DEF PipelineNext
  <2>2. CASE Continue
    BY <2>2 DEF Continue, PipelineNext
  <2>3. CASE DocsetCommand
    BY <2>3 DEF DocsetCommand
  <2>4. CASE UNCHANGED invocationVars
    BY <2>4 DEF invocationVars
  <2>5. QED
    BY <2>1, <2>2, <2>3, <2>4 DEF Next
<1>3. QED
  BY <1>1, <1>2, RunningAlways, PTL DEF Spec, PipelineSpec

LEMMA ExtractIsRead ==
  ASSUME Carried, pc # "idle"
  PROVE  msg.mime \in Part /\ Extract(msg.mime) = ExtractBody(msg.mime)
BY ReadingAssumption DEF Carried

\* The body of every message processMessage comes to is all of its text in
\* order, or the message is refused for its own contents
\* (extractPartWithAttachments).
THEOREM BodyFollowsAlways == Spec => []BodyFollows
<1>1. Carried => BodyFollows
  BY ExtractIsRead, EveryBodyIsText DEF BodyFollows, Parsing
<1>2. QED
  BY <1>1, CarriedAlways, AttemptsAreThePipelines, PTL

\* Every file that comes with such a message is accepted whole or reported,
\* within limits the whole message shares (incomingAttachments.read).
THEOREM FilesFollowAlways == Spec => []FilesFollow
<1>1. Carried => FilesFollow
  BY ExtractIsRead, EveryFileIsWhole DEF FilesFollow, Parsing
<1>2. QED
  BY <1>1, CarriedAlways, AttemptsAreThePipelines, PTL

\* A reply is made of the whole of its message: no file that came with it is
\* missing from the prompt and the report, and no text before the signature from
\* what the model was shown (processMessage).
THEOREM NothingLeftOutAlways == Spec => []NothingLeftOut
<1>1. Passed /\ Carried => NothingLeftOut
  <2> SUFFICES ASSUME Passed, Carried, Replying
               PROVE  LET files == ToSet(work.files)
                          report == ToSet(work.reply.report)
                          texts == KeptTexts(msg.mime)
                      IN  /\ files \cup report = {q \in Parts(msg.mime) : q.named}
                          /\ files \cap report = {}
                          /\ ToSet(work.body) \subseteq texts
                          /\ \A q \in texts \ ToSet(work.body) :
                               \E s \in texts : s.signed # "no" /\ s.id <= q.id
    BY DEF NothingLeftOut
  <2> DEFINE p == msg.mime
             got == ExtractBody(p)
             list == got.body
  <2>1. pc \in Settled /\ pc # "idle"
    BY DEF Replying, Settled, Admitted
  <2>2. p \in Part /\ Extract(p) = got
    BY <2>1, ExtractIsRead
  <2>3. /\ got.ok /\ work.body = Unsigned(list)
        /\ work.files = got.inc.files /\ work.reply.report = got.inc.notes
    BY <2>1, <2>2 DEF Passed, Carried, Reply
  <2>4. FilesAreWhole(p) /\ BodyIsText(p)
    BY <2>2, EveryFileIsWhole, EveryBodyIsText
  <2>5. list \in Seq(Part)
    <3>1. MaxDepth + 1 \in Depths /\ NoFiles \in Accounts
      BY DepthsAre, AccountsType DEF Depths
    <3>2. got \in Outcomes
      BY <2>2, <3>1, ReadIs DEF ExtractBody, Readers
    <3>3. QED
      BY <3>2 DEF Outcomes
  <2>6. InOrder(list, KeptTexts(p))
    BY <2>3, <2>4 DEF BodyIsText
  <2> HIDE DEF p, got, list
  <2>7. /\ ToSet(work.files) \cup ToSet(work.reply.report) = {q \in Parts(p) : q.named}
        /\ ToSet(work.files) \cap ToSet(work.reply.report) = {}
    BY <2>3, <2>4 DEF FilesAreWhole, got
  <2>8. ToSet(work.body) \subseteq KeptTexts(p)
    BY <2>3, <2>5, <2>6, UnsignedPart DEF InOrder
  <2>9. ASSUME NEW q \in KeptTexts(p), q \notin ToSet(work.body)
        PROVE  \E s \in KeptTexts(p) : s.signed # "no" /\ s.id <= q.id
    <3>1. DOMAIN list = 1..Len(list) /\ ToSet(list) = KeptTexts(p)
          /\ \A i \in DOMAIN list : list[i] \in ToSet(list) /\ list[i].id \in Nat
      <4>1. \A i \in DOMAIN list : list[i] \in Part
        BY <2>5
      <4>2. QED
        BY <2>5, <2>6, <4>1, PartAssumption DEF InOrder, ToSet
    <3>2. PICK i \in DOMAIN list : q = list[i]
      BY <3>1 DEF ToSet
    <3>3. PICK j \in DOMAIN list : j <= i /\ list[j].signed # "no"
      BY <2>3, <2>5, <2>9, <3>2, UnsignedRest
    <3>4. list[j].id <= list[i].id
      <4>1. CASE j = i
        BY <3>1, <4>1
      <4>2. CASE j # i
        <5>1. j < i
          BY <3>1, <3>3, <4>2
        <5>2. QED
          BY <2>6, <3>1, <5>1 DEF InOrder
      <4>3. QED
        BY <4>1, <4>2
    <3>5. QED
      BY <3>1, <3>2, <3>3, <3>4
  <2>10. QED
    BY <2>7, <2>8, <2>9 DEF p
<1>2. QED
  BY <1>1, CarriedAlways, AttemptsAreThePipelines, PTL

\* So in a run of the program, whatever its inputs, attempts and exports are as
\* their components promise.
THEOREM RunIsSound ==
  Spec => /\ [](QuietUnlessAnswerable /\ OwnInstructions /\ ReplyIsWhole /\ ExcerptsFillBudget)
          /\ [](BodyFollows /\ FilesFollow /\ NothingLeftOut)
          /\ [](ExportComplete /\ ExcerptIsBest)
          /\ ImplementsAttempt
<1>1. Running => ExportComplete /\ ExcerptIsBest
  <2>1. IsBot => ExportComplete /\ ExcerptIsBest
    BY DEF IsBot, ExportComplete, ExcerptIsBest
  <2>2. QED
    BY <2>1, WalkedIsComplete, WalkedIsBest DEF Running
<1>2. QED
  BY <1>1, RunningAlways, AttemptsAreThePipelines, QuietUnlessAnswerableAlways,
     OwnInstructionsAlways, ReplyIsWholeAlways, ExcerptsFillBudgetAlways,
     ImplementsAttemptAlways, BodyFollowsAlways, FilesFollowAlways,
     NothingLeftOutAlways, PTL
=============================================================================
