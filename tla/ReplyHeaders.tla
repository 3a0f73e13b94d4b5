---------------------------- MODULE ReplyHeaders ----------------------------
(***************************************************************************)
(* The recipients and the threading headers of a reply (reply.go), from    *)
(* the message's From, Reply-To, Message-ID and References.  Headers are   *)
(* given as the tokens found in them.                                      *)
(***************************************************************************)
EXTENDS Integers, SequencesExt

CONSTANTS
  NoAddress,          \* a From header or a setting without an address
  NoReplyTo,          \* there is no Reply-To header
  BadReplyTo,         \* it does not parse
  Lower,              \* each address in lower case
  IdBytes,            \* length of each message ID
  MaxIdBytes,         \* maxMessageIDBytes
  MaxReferences,      \* maxReferenceIDs
  MaxReferencesBytes  \* maxReferencesBytes

ASSUME HeaderAssumption ==
  /\ IdBytes \in [DOMAIN IdBytes -> Nat]
  /\ MaxReferences \in Nat \ {0}
  /\ MaxReferencesBytes \in Nat

\* What a loop collects from s that skips what is not usable and what has the
\* key of something collected before.
Distinct(s, usable, key) ==
  LET Add(kept, x) ==
        IF x \in usable /\ key[x] \notin {key[y] : y \in ToSet(kept)}
        THEN Append(kept, x) ELSE kept
  IN  FoldLeft(Add, <<>>, s)

\* Each element is its own key.
Itself(s) == [x \in ToSet(s) |-> x]

SameAddress(a, b) == Lower[a] = Lower[b]

\* replyRecipients; without a recipient it returns an error.
Recipients(m, fallback) ==
  IF m.replyTo = NoReplyTo THEN <<fallback>>
  ELSE IF m.replyTo = BadReplyTo THEN <<>>
  ELSE Distinct(m.replyTo, ToSet(m.replyTo), Lower)

MessageIDs(tokens) ==
  Distinct(tokens, {id \in ToSet(tokens) : IdBytes[id] <= MaxIdBytes}, Itself(tokens))

\* The first usable Message-ID, if any, as a sequence of at most one.
Parent(m) == SubSeq(MessageIDs(m.messageID), 1, Min({1, Len(MessageIDs(m.messageID))}))

HeaderBytes(ids) == SumFunction([i \in DOMAIN ids |-> IdBytes[ids[i]]]) + Len(ids) - 1

\* Mutant of Newest: the chain is cut at its end.
NewestAtFront(ids) == SubSeq(ids, 1, Min({MaxReferences, Len(ids)}))

Newest(ids) == SubSeq(ids, Max({1, Len(ids) - MaxReferences + 1}), Len(ids))

\* The oldest are dropped until the rest fits or one is left.
Fitting(ids) ==
  LET fits(k) == k = Len(ids) \/ HeaderBytes(SubSeq(ids, k, Len(ids))) <= MaxReferencesBytes
  IN  IF ids = <<>> THEN <<>>
      ELSE SubSeq(ids, Min({k \in DOMAIN ids : fits(k)}), Len(ids))

\* buildReplyHeaders: the references in the mail and the mail itself.
Chain(m) ==
  LET references == MessageIDs(m.references)
  IN  IF ToSet(Parent(m)) \subseteq ToSet(references)
      THEN references ELSE references \o Parent(m)

Thread(m) == [inReplyTo |-> Parent(m), references |-> Fitting(Newest(Chain(m)))]

-----------------------------------------------------------------------------
\* The thread of m continues unbroken in t: the reply names its parent, last
\* unless the mail's own References already had it, and then the newest
\* references without a gap, as many as both limits allow.
ThreadContinues(m, t) ==
  LET n == Len(t.references)
      longer == SubSeq(Chain(m), Len(Chain(m)) - n, Len(Chain(m)))
  IN  /\ t.inReplyTo = Parent(m)
      /\ IsSuffix(t.references, Chain(m))
      /\ \/ ToSet(t.inReplyTo) \cap ToSet(m.references) # {}
         \/ IsSuffix(t.inReplyTo, t.references)
      /\ n <= MaxReferences
      /\ n > 1 => HeaderBytes(t.references) <= MaxReferencesBytes
      /\ n < Len(Chain(m)) =>
           n = MaxReferences \/ HeaderBytes(longer) > MaxReferencesBytes

\* The reply goes to everyone Reply-To names, once each, or to the fallback.
AddressedAsAsked(m, to, fallback) ==
  IF m.replyTo = NoReplyTo THEN to = <<fallback>>
  ELSE /\ {Lower[a] : a \in ToSet(to)} = {Lower[a] : a \in ToSet(m.replyTo)}
       /\ Len(to) = Cardinality({Lower[a] : a \in ToSet(to)})
=============================================================================
