--------------------------- MODULE MessageReading ---------------------------
(***************************************************************************)
(* What the bot of Invocation reads of a message: the body and the files   *)
(* that MimeWalk extracts from its parts, when processMessage gets to it.  *)
(***************************************************************************)
EXTENDS Invocation, MimeWalk

\* Extract, a parameter of the pipeline, is MimeWalk's ExtractBody.
ASSUME ReadingAssumption ==
  \A m \in Message : m.mime \in Part /\ Extract(m.mime) = ExtractBody(m.mime)

-----------------------------------------------------------------------------
Parsing == pc = "extract"

\* The body read from a message is all of its text in order, with HTML only
\* where nothing else says it, or the message is refused for its own contents
\* (extractPartWithAttachments).
BodyFollows == Parsing => BodyIsText(msg.mime)

\* Every file that came with a message is in the prompt whole or in the report,
\* within limits shared by the whole message (incomingAttachments.read).
FilesFollow == Parsing => FilesAreWhole(msg.mime)

\* A reply leaves nothing out of its message: each file that came with it is
\* either in the prompt or in the report the reply carries, and a text the model
\* was not shown comes with or after a signature (processMessage).
NothingLeftOut ==
  Replying =>
    LET files == ToSet(work.files)
        report == ToSet(work.reply.report)
        texts == KeptTexts(msg.mime)
    IN  /\ files \cup report = {q \in Parts(msg.mime) : q.named} /\ files \cap report = {}
        /\ ToSet(work.body) \subseteq texts
        /\ \A q \in texts \ ToSet(work.body) :
             \E s \in texts : s.signed # "no" /\ s.id <= q.id

\* Where a multipart has a plain text and an HTML version, only the plain text is
\* read, as the documentation says (docs/capabilities.md).
PlainOverHtml == Parsing => PlainOnly(msg.mime)
=============================================================================
