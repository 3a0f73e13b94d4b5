------------------------------ MODULE MimeWalk ------------------------------
(***************************************************************************)
(* What extractPartWithAttachments makes of a message: the body text and   *)
(* the named parts that incomingAttachments accepts or reports.            *)
(*                                                                         *)
(* A part is a record.  type is its media type: "plain", "html", "multi"   *)
(* (with its parts), "torn" (a multipart without boundary or cut short),   *)
(* "other" (message/rfc822 and the rest) or "bad" (headers that do not     *)
(* parse).  named: it is an attachment or has a file name.  content is     *)
(* "text", "binary" (not text in its charset), "broken" (its transfer      *)
(* encoding does not decode) or "refused" (a name, charset or transfer     *)
(* encoding incomingAttachments does not take).  raw and text are its      *)
(* bytes before and after conversion to UTF-8, text 0 if that is blank.    *)
(* urls are the links in it; signed is "no", "last" if it ends in a        *)
(* signature or "whole" if it is one.  id is the place of the part in the  *)
(* message, in the order the walk comes by it.                             *)
(***************************************************************************)
EXTENDS Integers, SequencesExt

CONSTANTS
  Part,               \* the parts there can be, with the parts in them
  MaxBody,            \* cfg.MaxBodySize
  PerFile,            \* cfg.MaxAttachmentSize
  MaxAttached,        \* cfg.MaxAttachmentContext
  MaxDepth,           \* nesting allowed
  Gap                 \* bytes between joined texts

ASSUME LimitsAssumption == {MaxBody, PerFile, MaxAttached, MaxDepth, Gap} \subseteq Nat

ASSUME PartAssumption ==
  \A p \in Part :
    /\ p.type \in {"plain", "html", "multi", "torn", "other", "bad"}
    /\ p.named \in BOOLEAN
    /\ {p.raw, p.text, p.id} \subseteq Nat
    /\ p.parts \in Seq(Part)

\* A multipart whose parts the walk goes through.
IsContainer(p) == p.type = "multi" /\ ~p.named

\* What lies n levels below a part, down to the first level that is refused.
Level[n \in 0..(MaxDepth + 1)] ==
  [p \in Part |->
     IF n = 0 THEN {p}
     ELSE IF IsContainer(p) THEN UNION {Level[n - 1][q] : q \in ToSet(p.parts)}
     ELSE {}]

\* Every part the walk has to look at.
Parts(p) == UNION {Level[n][p] : n \in 0..(MaxDepth + 1)}

ASSUME PlaceAssumption ==
  \A p \in Part : IsContainer(p) =>
    \A i \in DOMAIN p.parts : \A q \in Parts(p.parts[i]) :
      /\ p.id < q.id
      /\ \A j \in DOMAIN p.parts : i < j => \A r \in Parts(p.parts[j]) : q.id < r.id

-----------------------------------------------------------------------------
(* incomingAttachments *)

\* The budget left for the message, and what became of its named parts.
Accounts == [remaining : Int, files : Seq(Part), notes : Seq(Part)]

NoFiles == [remaining |-> MaxAttached, files |-> <<>>, notes |-> <<>>]

FileLimit(inc) == IF PerFile < inc.remaining THEN PerFile ELSE inc.remaining

\* Mutant of Acceptable: the converted text is not measured again.
AcceptableUnconverted(p, limit) ==
  p.content = "text" /\ p.text > 0 /\ p.raw <= limit

Acceptable(p, limit) ==
  p.content = "text" /\ p.text > 0 /\ p.raw <= limit /\ p.text <= limit

\* read: a supported text file whole and charged, or a note.
Attach(p, inc) ==
  IF Acceptable(p, FileLimit(inc))
  THEN [inc EXCEPT !.remaining = @ - p.text, !.files = Append(@, p)]
  ELSE [inc EXCEPT !.notes = Append(@, p)]

-----------------------------------------------------------------------------
(* the walk *)

\* The length of these texts joined, however they were nested.
Joined(body) ==
  SumFunction([i \in DOMAIN body |-> body[i].text])
    + (IF body = <<>> THEN 0 ELSE Gap * (Len(body) - 1))

\* An error: the whole message fails, whatever was collected.
Refused == [ok |-> FALSE, body |-> <<>>, inc |-> NoFiles]

Limited(body, inc) ==
  IF Joined(body) <= MaxBody
  THEN [ok |-> TRUE, body |-> body, inc |-> inc]
  ELSE Refused

\* Mutant of Preferred: alternatives are kept side by side.
PreferredBoth(plain, html) == plain \o html

Preferred(plain, html) == IF plain # <<>> THEN plain ELSE html

\* A text part: read up to the limit, converted, measured again.
ReadText(p, inc) ==
  IF p.content = "broken" \/ p.raw > MaxBody
  THEN Refused
  ELSE Limited(IF p.text > 0 THEN <<p>> ELSE <<>>, inc)

\* The next part of a multipart, sorted by its own Content-Type; below is the
\* walk one level down.
Visit(below, seen, q) ==
  LET got == below[q][seen.inc]
  IN  IF ~seen.ok \/ ~got.ok THEN [seen EXCEPT !.ok = FALSE]
      ELSE [ok |-> TRUE, inc |-> got.inc,
            html |-> seen.html \o (IF q.type = "html" THEN got.body ELSE <<>>),
            plain |-> seen.plain \o (IF q.type = "html" THEN <<>> ELSE got.body)]

Unseen(inc) == [ok |-> TRUE, inc |-> inc, plain |-> <<>>, html |-> <<>>]

\* The parts of a multipart in order.
ReadParts(below, p, inc) ==
  LET all == FoldLeft(LAMBDA seen, q : Visit(below, seen, q), Unseen(inc), p.parts)
  IN  IF all.ok THEN Limited(Preferred(all.plain, all.html), all.inc) ELSE Refused

ReadPart(below, p, inc) ==
  IF p.type = "bad" THEN Refused
  ELSE IF p.named THEN [ok |-> TRUE, body |-> <<>>, inc |-> Attach(p, inc)]
  ELSE CASE p.type = "torn" -> Refused
         [] p.type = "multi" -> ReadParts(below, p, inc)
         [] p.type = "other" -> [ok |-> TRUE, body |-> <<>>, inc |-> inc]
         [] OTHER -> ReadText(p, inc)

\* The walk, with n levels of nesting left; there is an error at the last.
Read[n \in 0..(MaxDepth + 1)] ==
  [p \in Part |->
     [inc \in Accounts |->
        IF n = 0 THEN Refused ELSE ReadPart(Read[n - 1], p, inc)]]

ExtractBody(message) == Read[MaxDepth + 1][message][NoFiles]

-----------------------------------------------------------------------------
(* The same by reference, without budgets handed from part to part *)

IsText(p) == ~p.named /\ p.type \in {"plain", "html"}
Texts(p) == {q \in Parts(p) : IsText(q) /\ q.text > 0}
Containers(p) == {c \in Parts(p) : IsContainer(c)}

\* An HTML part gives way to text in any part beside it that is not HTML.
GivesWay(q, c) ==
  /\ q.type = "html" /\ q \in ToSet(c.parts)
  /\ \E r \in ToSet(c.parts) : r.type # "html" /\ Texts(r) # {}

KeptTexts(p) == {q \in Texts(p) : \A c \in Containers(p) : ~GivesWay(q, c)}

\* The bytes of these parts, and of the body they make.
TextBytes(parts) == SumFunction([q \in parts |-> q.text])
BodyBytes(parts) ==
  TextBytes(parts) + (IF parts = {} THEN 0 ELSE Gap * (Cardinality(parts) - 1))

\* The list has these parts, in the order of the message.
InOrder(list, parts) ==
  /\ ToSet(list) = parts
  /\ \A i, j \in DOMAIN list : i < j => list[i].id < list[j].id

Readable(q) ==
  /\ q.type # "bad"
  /\ q.type = "torn" => q.named
  /\ IsText(q) => q.content # "broken" /\ q.raw <= MaxBody /\ q.text <= MaxBody

Extractable(p) ==
  /\ Level[MaxDepth + 1][p] = {}
  /\ \A q \in Parts(p) : Readable(q)
  /\ BodyBytes(KeptTexts(p)) <= MaxBody

\* The body is every text of the message in order, but the HTML ones beside
\* other text; the message fails only for nesting, parts that cannot be read,
\* or a body over the limit (extractPartWithAttachments).
BodyIsText(p) ==
  LET got == ExtractBody(p)
  IN  /\ got.ok <=> Extractable(p)
      /\ got.ok => InOrder(got.body, KeptTexts(p))

\* A text file that fits in what the files before it have left.
HasRoom(q, files) ==
  LET before == {f \in files : f.id < q.id}
  IN  /\ q.content = "text" /\ q.text > 0
      /\ Max({q.raw, q.text}) <= Min({PerFile, MaxAttached - TextBytes(before)})

\* Every named part is accepted whole or reported, once and in order; what is
\* accepted fits both limits; a readable one is reported only if it did not fit
\* in what the files before it had left (incomingAttachments.read).
FilesAreWhole(p) ==
  LET got == ExtractBody(p)
      files == ToSet(got.inc.files)
      notes == ToSet(got.inc.notes)
  IN  got.ok =>
      /\ files \cup notes = {q \in Parts(p) : q.named}
      /\ InOrder(got.inc.files, files) /\ InOrder(got.inc.notes, notes)
      /\ \A q \in files : HasRoom(q, files)
      /\ \A q \in notes : ~HasRoom(q, files)
      /\ TextBytes(files) <= MaxAttached

\* What the documentation says: a multipart with a plain text and an HTML
\* version of the message yields the plain one.
PlainOnly(p) ==
  \A c \in Containers(p) :
    (\E q \in ToSet(c.parts) : q.type = "plain" /\ Texts(q) # {})
      => \A q \in ToSet(ExtractBody(p).body) : q.type = "html" => q \notin Parts(c)
=============================================================================
