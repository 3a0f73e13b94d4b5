--------------------------- MODULE ReplyPipeline ----------------------------
(***************************************************************************)
(* processMessage, stage by stage, attempt after attempt: sender policy,   *)
(* recipients, body and attachments, pages, prompt, tools, the model, the  *)
(* sender.  Every stage that talks to the outside can fail, and the        *)
(* attempt with it.  Nothing of an attempt is left for the next.           *)
(*                                                                         *)
(* A message is a record of its headers (sender, replyTo, messageID and    *)
(* references, and whether the subject is blank) and its MIME part, mime.  *)
(***************************************************************************)
EXTENDS ReplyHeaders

CONSTANTS
  Message,
  NoMessage,          \* not a message
  Extract(_),         \* what extractPartWithAttachments makes of a part
  PageBytes,          \* length of each page's Org text
  Characters,         \* its UTF-8 characters: the first and last byte of each
  MaxWebContext,      \* cfg.MaxWebContext
  Exports             \* what collectTools can attach: sequences of files

ASSUME PipelineAssumption ==
  /\ MaxWebContext \in Nat \ {0}
  /\ PageBytes \in [DOMAIN PageBytes -> Nat]
  /\ Characters \in [DOMAIN PageBytes -> SUBSET (Nat \X Nat)]
  /\ \A page \in DOMAIN PageBytes :
       /\ \A c \in Characters[page] : 1 <= c[1] /\ c[1] <= c[2] /\ c[2] <= PageBytes[page]
       /\ \A c, d \in Characters[page] : c = d \/ c[2] < d[1] \/ d[2] < c[1]
  /\ \A m \in Message :
       /\ m.messageID \in Seq(DOMAIN IdBytes)
       /\ m.references \in Seq(DOMAIN IdBytes)
       /\ m.replyTo \in {NoReplyTo, BadReplyTo} \cup Seq(DOMAIN Lower)
       /\ Extract(m.mime).ok =>
            /\ Extract(m.mime).body \in Seq(ToSet(Extract(m.mime).body))
            /\ \A part \in ToSet(Extract(m.mime).body) : part.urls \in Seq(DOMAIN PageBytes)

VARIABLES
  cfg,                \* the settings anyone, admin and from
  pc,
  msg,                \* the message being processed
  work,               \* the locals of processMessage
  system,             \* instructions added to the copy of cfg.Personality
  effects,            \* what the attempt has asked of the outside
  outcome             \* how the last attempt ended

vars == <<cfg, pc, msg, work, system, effects, outcome>>

\* No attempt is running.
Nothing ==
  [to |-> <<>>, thread |-> <<>>, body |-> <<>>, files |-> <<>>, notes |-> <<>>,
   pages |-> <<>>, excerpts |-> <<>>, refs |-> FALSE, exports |-> <<>>, reply |-> <<>>]

PipelineInit ==
  /\ pc = "idle" /\ msg = NoMessage /\ work = Nothing
  /\ system = {} /\ effects = {} /\ outcome = "none"

Goto(stage) == pc' = stage

\* processMessage returns.
Finish(result) ==
  /\ outcome' = result
  /\ pc' = "idle" /\ msg' = NoMessage /\ work' = Nothing /\ effects' = {}
  /\ UNCHANGED <<cfg, system>>

\* Mutant of Begin: the configuration is shared with earlier messages.
BeginShared(m) ==
  /\ pc = "idle"
  /\ msg' = m
  /\ outcome' = "none"
  /\ Goto("sender")
  /\ UNCHANGED <<cfg, work, system, effects>>

\* processMessage is called, with a copy of the configuration.
Begin(m) ==
  /\ pc = "idle"
  /\ msg' = m
  /\ system' = {}
  /\ outcome' = "none"
  /\ Goto("sender")
  /\ UNCHANGED <<cfg, work, effects>>

\* The file cannot be read or parsed, is too large, or has no valid From.
ReadFails == pc = "sender" /\ Finish("failed")

-----------------------------------------------------------------------------
(* who is answered, with the settings c *)

OwnMail(m, c) == c.anyone /\ c.from # NoAddress /\ SameAddress(m.sender, c.from)

Stranger(m, c) ==
  ~c.anyone /\ (c.admin = NoAddress \/ ~SameAddress(m.sender, c.admin))

Welcome(m, c) == m.sender # NoAddress /\ ~OwnMail(m, c) /\ ~Stranger(m, c)

Fallback(m, c) == IF c.anyone THEN m.sender ELSE c.admin

RecipientsOf(m, c) == Recipients(m, Fallback(m, c))

SkipSender ==
  /\ pc = "sender"
  /\ msg.sender # NoAddress
  /\ ~Welcome(msg, cfg)
  /\ Finish("archive")

\* Mutant of Address: the recipients are settled before the sender is checked.
AddressFirst ==
  /\ pc = "sender"
  /\ msg.sender # NoAddress
  /\ RecipientsOf(msg, cfg) # <<>>
  /\ work' = [work EXCEPT !.to = RecipientsOf(msg, cfg), !.thread = Thread(msg)]
  /\ Goto("extract")
  /\ UNCHANGED <<cfg, msg, system, effects, outcome>>

Address ==
  /\ pc = "sender"
  /\ Welcome(msg, cfg)
  /\ RecipientsOf(msg, cfg) # <<>>
  /\ work' = [work EXCEPT !.to = RecipientsOf(msg, cfg), !.thread = Thread(msg)]
  /\ Goto("extract")
  /\ UNCHANGED <<cfg, msg, system, effects, outcome>>

\* An invalid Reply-To is an error, never a silent fallback.
AddressFails ==
  /\ pc = "sender"
  /\ Welcome(msg, cfg)
  /\ RecipientsOf(msg, cfg) = <<>>
  /\ Finish("failed")

-----------------------------------------------------------------------------
(* what is asked *)

\* stripEmailSignature: nothing from the first signature on.
Unsigned(body) ==
  LET signed == {i \in DOMAIN body : body[i].signed # "no"}
      first == Min(signed)
      kept == IF body[first].signed = "whole" THEN first - 1 ELSE first
  IN  IF signed = {} THEN body ELSE SubSeq(body, 1, kept)

Got == Extract(msg.mime)

\* No text, no subject, no attachment read or skipped.
Empty(m) ==
  LET got == Extract(m.mime)
  IN  m.blank /\ Unsigned(got.body) = <<>> /\ got.inc.files = <<>> /\ got.inc.notes = <<>>

ExtractFails == pc = "extract" /\ ~Got.ok /\ Finish("failed")

\* Mutant of SkipEmpty: an attachment that was skipped does not count.
SkipWithoutNotes ==
  pc = "extract" /\ Got.ok /\ msg.blank /\ Unsigned(Got.body) = <<>>
    /\ Got.inc.files = <<>> /\ Finish("archive")

SkipEmpty == pc = "extract" /\ Got.ok /\ Empty(msg) /\ Finish("archive")

\* Mutant of KeepBody: what was skipped is reported only if no file was read.
KeepBodyOrNotes ==
  /\ pc = "extract"
  /\ Got.ok /\ ~Empty(msg)
  /\ work' = [work EXCEPT !.body = Unsigned(Got.body), !.files = Got.inc.files,
                          !.notes = IF Got.inc.files = <<>> THEN Got.inc.notes ELSE <<>>]
  /\ Goto("fetch")
  /\ UNCHANGED <<cfg, msg, system, effects, outcome>>

KeepBody ==
  /\ pc = "extract"
  /\ Got.ok /\ ~Empty(msg)
  /\ work' = [work EXCEPT !.body = Unsigned(Got.body),
                          !.files = Got.inc.files, !.notes = Got.inc.notes]
  /\ Goto("fetch")
  /\ UNCHANGED <<cfg, msg, system, effects, outcome>>

\* findURLs: the links in the body, each once.
FindURLs(body) ==
  LET AddLinks(found, part) == found \o part.urls
      links == FoldLeft(AddLinks, <<>>, body)
  IN  Distinct(links, ToSet(links), Itself(links))

Wanted == FindURLs(work.body)
Missing == Len(work.pages) < Len(Wanted)

FetchPage ==
  /\ pc = "fetch" /\ Missing
  /\ work' = [work EXCEPT !.pages = Append(@, Wanted[Len(@) + 1])]
  /\ effects' = effects \cup {"fetch"}
  /\ UNCHANGED <<cfg, pc, msg, system, outcome>>

\* Mutant of FetchFails: the page is left out.
FetchGivesUp ==
  /\ pc = "fetch" /\ Missing
  /\ Goto("tools")
  /\ UNCHANGED <<cfg, msg, work, system, effects, outcome>>

\* A page that is refused, not HTML, too large or not there fails the attempt.
FetchFails == pc = "fetch" /\ Missing /\ Finish("failed")

\* The first n bytes of a page, as strings.ToValidUTF8 reads them: those of
\* whole characters, and the others, which a page that is not UTF-8 has anywhere
\* and a UTF-8 page where the cut splits a character.
Whole(page, n) == UNION {c[1]..c[2] : c \in {c \in Characters[page] : c[2] <= n}}
Broken(page, n) == (1..n) \ Whole(page, n)

\* Each run of broken bytes becomes one mark, U+FFFD, of three bytes.
Mark == 3
Marks(page, n) == Cardinality({i \in Broken(page, n) : i - 1 \notin Broken(page, n)})

\* Mutant of Repaired: a mark for each broken byte.
RepairedByByte(page, n) == Cardinality(Whole(page, n)) + Mark * Cardinality(Broken(page, n))

Repaired(page, n) == Cardinality(Whole(page, n)) + Mark * Marks(page, n)

\* n bytes are taken of the page, and the text shown may be longer.
Beginning(page, n) == [page |-> page, bytes |-> n, length |-> Repaired(page, n)]

\* Mutant of Excerpts: every page has the whole budget.
ExcerptsUnshared(pages) ==
  LET Show(shown, page) ==
        [left |-> shown.left,
         texts |-> Append(shown.texts, Beginning(page, Min({PageBytes[page], shown.left})))]
  IN  FoldLeft(Show, [left |-> MaxWebContext, texts |-> <<>>], pages).texts

\* buildModelPrompt: the pages in order, cut to what is left of the budget,
\* which is charged for the bytes taken and not for the marks.
Excerpts(pages) ==
  LET Show(shown, page) ==
        LET n == Min({PageBytes[page], shown.left})
        IN  IF shown.left <= 0 THEN shown
            ELSE [left |-> shown.left - n, texts |-> Append(shown.texts, Beginning(page, n))]
  IN  FoldLeft(Show, [left |-> MaxWebContext, texts |-> <<>>], pages).texts

BuildPrompt ==
  /\ pc = "fetch" /\ ~Missing
  /\ work' = [work EXCEPT !.excerpts = Excerpts(work.pages)]
  /\ Goto("tools")
  /\ UNCHANGED <<cfg, msg, system, effects, outcome>>

\* collectTools: no catalog and no text, or a text and perhaps exports.
CallTools(refs, exports) ==
  /\ pc = "tools"
  /\ work' = [work EXCEPT !.refs = refs, !.exports = exports]
  /\ system' = system
       \cup (IF refs THEN {"tools"} ELSE {})
       \cup (IF work.files # <<>> \/ work.notes # <<>> THEN {"attachments"} ELSE {})
  /\ effects' = effects \cup {"tools"}
  /\ Goto("ask")
  /\ UNCHANGED <<cfg, msg, outcome>>

ToolsFail == pc = "tools" /\ Finish("failed")

-----------------------------------------------------------------------------
(* the answer *)

\* Mutant of Reply: only the pages shown to the model are attached.
ReplyWithExcerpts ==
  [to |-> work.to, thread |-> work.thread, report |-> work.notes,
   attached |-> [i \in DOMAIN work.excerpts |-> work.excerpts[i].page] \o work.exports]

\* The model's text is not modelled; the rest of what sendMail assembles is.
Reply ==
  [to |-> work.to, thread |-> work.thread, report |-> work.notes,
   attached |-> work.pages \o work.exports]

AskModel ==
  /\ pc = "ask"
  /\ work' = [work EXCEPT !.reply = Reply]
  /\ system' = system \cup (IF work.pages # <<>> THEN {"web"} ELSE {})
  /\ effects' = effects \cup {"ask"}
  /\ Goto("send")
  /\ UNCHANGED <<cfg, msg, outcome>>

\* An HTTP or API error, or an empty response.
AskFails == pc = "ask" /\ Finish("failed")

SenderTakes ==
  /\ pc = "send"
  /\ effects' = effects \cup {"send"}
  /\ Goto("taken")
  /\ UNCHANGED <<cfg, msg, work, system, outcome>>

\* sendMail returns an error, whether or not the sender took the reply.
SendFails == pc \in {"send", "taken"} /\ Finish("failed")

Delivered == pc = "taken" /\ Finish("delivered")

-----------------------------------------------------------------------------
Attempt ==
  \/ ReadFails \/ SkipSender \/ Address \/ AddressFails
  \/ ExtractFails \/ SkipEmpty \/ KeepBody
  \/ FetchPage \/ FetchFails \/ BuildPrompt
  \/ CallTools(FALSE, <<>>) \/ (\E exports \in Exports : CallTools(TRUE, exports))
  \/ ToolsFail \/ AskModel \/ AskFails
  \/ SenderTakes \/ SendFails \/ Delivered

PipelineNext == (\E m \in Message : Begin(m)) \/ Attempt

\* processMessage, called with any messages one after another.
PipelineSpec == PipelineInit /\ [][PipelineNext]_vars

-----------------------------------------------------------------------------
(* What an attempt may do *)

Answerable(m, c) ==
  Welcome(m, c) /\ RecipientsOf(m, c) # <<>> /\ Extract(m.mime).ok /\ ~Empty(m)

\* Nothing is fetched, no tool is run, the model is not asked and nothing is
\* sent for a message that is skipped or refused; a message is answerable by
\* its sender, recipients and contents together, whatever the order in which
\* processMessage finds out.
QuietUnlessAnswerable == effects # {} => Answerable(msg, cfg)

Replying == pc \in {"send", "taken"}

\* The reply in the sender's hands is the whole of this attempt and of nothing
\* else: every page linked in the body and every export attached, every skipped
\* attachment reported, the mail's own thread and recipients.
ReplyIsWhole ==
  Replying =>
    LET got == Extract(msg.mime)
    IN  /\ work.reply.attached = FindURLs(Unsigned(got.body)) \o work.exports
        /\ work.reply.report = got.inc.notes
        /\ ThreadContinues(msg, work.reply.thread)
        /\ AddressedAsAsked(msg, work.reply.to, Fallback(msg, cfg))

IsUTF8(page) == Broken(page, PageBytes[page]) = {}

\* How the texts shown account for the pages fetched.
FillsBudget(pages, shown) ==
  LET taken == SumFunction([i \in DOMAIN shown |-> shown[i].bytes])
      length == SumFunction([i \in DOMAIN shown |-> shown[i].length])
      marks == SumFunction([i \in DOMAIN shown |-> Marks(shown[i].page, shown[i].bytes)])
      cut == {i \in DOMAIN pages : i \notin DOMAIN shown \/ shown[i].bytes < PageBytes[pages[i]]}
  IN  /\ [i \in DOMAIN shown |-> shown[i].page] = SubSeq(pages, 1, Len(shown))
      /\ taken <= MaxWebContext
      /\ cut # {} => taken = MaxWebContext
      /\ length <= taken + (Mark - 1) * marks
      /\ (\A i \in DOMAIN pages : IsUTF8(pages[i])) => marks <= IF cut = {} THEN 0 ELSE 1

\* The pages are shown to the model in order, and one is cut or left out only
\* when the bytes taken use up the budget, which they never exceed.  The text
\* shown, which the documentation says does not exceed it either, does so by no
\* more than the marks for broken bytes make up; if all pages are UTF-8 that is one
\* mark, for the character that the cut splits.
ExcerptsFillBudget == Replying => FillsBudget(work.pages, work.excerpts)

\* The model gets the warning for each kind of foreign text in this prompt, and
\* none left over from a message before it.
OwnInstructions ==
  Replying =>
    system = (IF work.pages # <<>> THEN {"web"} ELSE {})
      \cup (IF work.refs THEN {"tools"} ELSE {})
      \cup (IF work.files # <<>> \/ work.notes # <<>> THEN {"attachments"} ELSE {})

Skipped(m, c) ==
  /\ m.sender # NoAddress
  /\ \/ ~Welcome(m, c)
     \/ RecipientsOf(m, c) # <<>> /\ Extract(m.mime).ok /\ Empty(m)

Abstract == INSTANCE ReplyAttempt
  WITH stage <- IF pc \in {"idle", "taken"} THEN pc ELSE "process",
       settings <- cfg, Skip <- Skipped

\* To runCycle, an attempt is one of ReplyAttempt: a message is archived without
\* a reply only if its headers, contents and the settings say so, never for what
\* went wrong on the way, and a delivery is reported only for a reply taken.
ImplementsAttempt == Abstract!AttemptSpec
=============================================================================
