---------------------------- MODULE DocsetExport ----------------------------
(***************************************************************************)
(* exportDocset, the docset subcommand: every page of a docset goes into   *)
(* two complete exports, or there is no result; the model's excerpt is     *)
(* made of the best pages only.  Each conversion is a command of its own.  *)
(*                                                                         *)
(* docset says whether it is installed and its Documents folder is no      *)
(* link, and lists the entries in the order of the walk.  An entry is a    *)
(* "page" of bytes as the walk sees it and read when it is opened, with    *)
(* its score; an "aside" (directory, other file); or "foul": a link, an    *)
(* odd file, a page not in UTF-8, an error.                                *)
(***************************************************************************)
EXTENDS Integers, SequencesExt

CONSTANTS
  MaxBytes,           \* -max-bytes
  ContextBytes,       \* -context-bytes
  Label,              \* bytes of a page's source label
  CutLoss,            \* bytes an incomplete last character can take
  MaxExcerpt          \* bound: lengths of the converted excerpt

ASSUME DocsetAssumption ==
  /\ MaxBytes \in Nat \ {0} /\ ContextBytes \in Nat \ {0}
  /\ Label \in Nat /\ CutLoss \in Nat /\ MaxExcerpt \in Nat

VARIABLES
  docset,
  phase,              \* "none" if another command runs
  at,                 \* the next entry of the walk
  pages,              \* the pages read: entry, source bytes, score
  md, org,            \* the exports: entries converted, and if they are blank
  excerpt             \* pages selected, and the bytes kept of their text

docVars == <<docset, phase, at, pages, md, org, excerpt>>

DocEntry ==
  [kind : {"page", "aside", "foul"}, bytes : Nat, read : Nat, score : Int]

\* What the command can come across.
IsDocset(d) ==
  /\ d.installed \in BOOLEAN /\ d.direct \in BOOLEAN
  /\ d.entries \in Seq(DocEntry)

NoText == [of |-> <<>>, blank |-> TRUE]
NoExcerpt == [of |-> <<>>, bytes |-> 0]

DocInit ==
  at = 1 /\ pages = <<>> /\ md = NoText /\ org = NoText /\ excerpt = NoExcerpt

Enter(next) == phase' = next

SourceBytes(p) == SumFunction([i \in DOMAIN p |-> p[i].bytes])
Entries(p) == [i \in DOMAIN p |-> p[i].entry]

\* No such docset, a link on the way to its pages, the deadline, an entry that
\* makes the export incomplete, a failing or too long conversion: no result.
Abandon == Enter("failed") /\ UNCHANGED <<docset, at, pages, md, org, excerpt>>

FindDocset ==
  /\ phase = "find"
  /\ docset.installed /\ docset.direct
  /\ Enter("walk")
  /\ UNCHANGED <<docset, at, pages, md, org, excerpt>>

NotThere == phase = "find" /\ ~(docset.installed /\ docset.direct) /\ Abandon

Entry == docset.entries[at]
Walking == phase = "walk" /\ at <= Len(docset.entries)

\* Mutant of Fits: the labels are not counted.
FitsWithoutLabel(e) ==
  e.bytes <= MaxBytes - SourceBytes(pages) /\ e.read <= MaxBytes - SourceBytes(pages)

\* The size in the listing, then the bytes read, then both with the label.
Fits(e) ==
  LET remaining == MaxBytes - SourceBytes(pages)
  IN  e.bytes <= remaining /\ e.read <= remaining /\ Label + e.read <= remaining

PassAside ==
  /\ Walking
  /\ Entry.kind = "aside"
  /\ at' = at + 1
  /\ UNCHANGED <<docset, phase, pages, md, org, excerpt>>

AddPage ==
  /\ Walking
  /\ Entry.kind = "page" /\ Fits(Entry)
  /\ pages' = Append(pages, [entry |-> at, bytes |-> Label + Entry.read,
                             score |-> Entry.score])
  /\ at' = at + 1
  /\ UNCHANGED <<docset, phase, md, org, excerpt>>

\* Mutant of RefuseEntry: what cannot be exported is passed over.
RefusePassesOver ==
  /\ Walking
  /\ Entry.kind = "foul" \/ (Entry.kind = "page" /\ ~Fits(Entry))
  /\ at' = at + 1
  /\ UNCHANGED <<docset, phase, pages, md, org, excerpt>>

RefuseEntry ==
  /\ Walking
  /\ Entry.kind = "foul" \/ (Entry.kind = "page" /\ ~Fits(Entry))
  /\ Abandon

EndWalk ==
  /\ phase = "walk" /\ at > Len(docset.entries)
  /\ Enter(IF pages = <<>> THEN "failed" ELSE "md")
  /\ UNCHANGED <<docset, at, pages, md, org, excerpt>>

\* The deadline ends the walk at an entry, or pandoc; pandoc fails or writes
\* more than MaxBytes.
Fails == (Walking \/ phase \in {"md", "org", "excerpt"}) /\ Abandon

ConvertMarkdown ==
  /\ phase = "md"
  /\ \E blank \in BOOLEAN : md' = [of |-> Entries(pages), blank |-> blank]
  /\ Enter("org")
  /\ UNCHANGED <<docset, at, pages, org, excerpt>>

\* With both exports at hand, neither may be blank.
ConvertOrg ==
  /\ phase = "org"
  /\ \E blank \in BOOLEAN :
       /\ org' = [of |-> Entries(pages), blank |-> blank]
       /\ Enter(IF blank \/ md.blank THEN "failed" ELSE "excerpt")
  /\ UNCHANGED <<docset, at, pages, md, excerpt>>

\* Mutant of Ranked: the pages stay in the order of the walk.
RankedByPlace(p) == p

Before(q, r) == q.score > r.score \/ (q.score = r.score /\ q.entry < r.entry)

\* sort.SliceStable by falling score: each page after those that go before it.
Ranked(p) ==
  LET place(q) == Cardinality({r \in ToSet(p) : Before(r, q)}) + 1
  IN  [n \in DOMAIN p |-> CHOOSE q \in ToSet(p) : place(q) = n]

Budget == 2 * ContextBytes

\* Pages are taken whole until the source budget is reached.
Selected(p) ==
  LET Take(taken, page) ==
        IF SourceBytes(taken) >= Budget THEN taken ELSE Append(taken, page)
  IN  FoldLeft(Take, <<>>, Ranked(p))

\* The lengths a converted excerpt of n bytes can be cut to.
CutTo(n) ==
  IF n > ContextBytes THEN Max({0, ContextBytes - CutLoss})..ContextBytes ELSE {n}

ConvertExcerpt ==
  /\ phase = "excerpt"
  /\ \E n \in 0..MaxExcerpt : \E kept \in CutTo(n) :
       excerpt' = [of |-> Entries(Selected(pages)), bytes |-> kept]
  /\ Enter("done")
  /\ UNCHANGED <<docset, at, pages, md, org>>

DocNext ==
  \/ FindDocset \/ NotThere
  \/ PassAside \/ AddPage \/ RefuseEntry \/ EndWalk
  \/ ConvertMarkdown \/ ConvertOrg \/ ConvertExcerpt \/ Fails

\* janegpt docset, for any docset.
DocSpec ==
  /\ DocInit /\ phase = "find" /\ IsDocset(docset)
  /\ [][DocNext]_docVars

-----------------------------------------------------------------------------
\* A result comes with every page of the docset in both exports, in order, and
\* within the limit, labels and all; one entry that cannot be exported and there
\* is none, wherever it stands in the walk.
ExportComplete ==
  phase = "done" =>
    LET entries == docset.entries
        all == {i \in DOMAIN entries : entries[i].kind = "page"}
        InOrder(list) == \A i, j \in DOMAIN list : i < j => list[i] < list[j]
    IN  /\ ToSet(md.of) = all /\ InOrder(md.of) /\ ~md.blank
        /\ ToSet(org.of) = all /\ InOrder(org.of) /\ ~org.blank
        /\ \A i \in DOMAIN entries : entries[i].kind # "foul"
        /\ SumFunction([i \in all |-> Label + entries[i].read]) <= MaxBytes

\* The excerpt is made of the best pages: none left out has a higher score than
\* one taken, the last page taken is the one that reaches the budget, and the
\* text kept is within its own limit.
ExcerptIsBest ==
  phase = "done" =>
    LET taken == {i \in DOMAIN pages : Contains(excerpt.of, pages[i].entry)}
        bytes(S) == SumFunction([i \in S |-> pages[i].bytes])
        last == Last(excerpt.of)
    IN  /\ \A i \in taken, j \in DOMAIN pages \ taken : pages[i].score >= pages[j].score
        /\ taken # DOMAIN pages => bytes(taken) >= Budget
        /\ bytes({i \in taken : pages[i].entry # last}) < Budget
        /\ excerpt.bytes <= ContextBytes
=============================================================================
