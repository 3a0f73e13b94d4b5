---------------------------- MODULE MCInvocation ----------------------------
(***************************************************************************)
(* Command lines, file systems, messages and docsets for Invocation.  Each *)
(* part of the program has inputs of its own, with the plainest ones for   *)
(* the other parts, so that the instances add up and do not multiply.      *)
(***************************************************************************)
EXTENDS MessageReading

LowerCase == [a \in {"adm", "Adm", "bot", "Bot", "x", "X"} |->
                CASE a = "Adm" -> "adm" [] a = "Bot" -> "bot" [] a = "X" -> "x"
                  [] OTHER -> a]

Bytes == "a" :> 2 @@ "b" :> 2 @@ "c" :> 2 @@ "d" :> 2 @@ "big" :> 5 @@ "big2" :> 5
         @@ "huge" :> 7
PageSizes == "p" :> 2 @@ "q" :> 3 @@ "r" :> 4 @@ "s" :> 3
\* The page s is not UTF-8: its first and last bytes belong to no character.
PageChars ==
  "p" :> {<<1, 1>>, <<2, 2>>} @@ "q" :> {<<1, 3>>} @@ "r" :> {<<1, 4>>} @@ "s" :> {<<2, 2>>}
ExportChoices == {<<>>, <<"export">>}
Extraction(part) == ExtractBody(part)

-----------------------------------------------------------------------------
(* MIME parts *)

Text ==
  [type |-> "plain", named |-> FALSE, content |-> "text", raw |-> 2, text |-> 2,
   urls |-> <<>>, signed |-> "no", id |-> 1, parts |-> <<>>]
HTML == [Text EXCEPT !.type = "html", !.raw = 4, !.urls = <<"p">>]
Blank == [Text EXCEPT !.text = 0]
Latin == [Text EXCEPT !.raw = 6, !.text = 7]
File == [Text EXCEPT !.named = TRUE, !.raw = 3, !.text = 3]
LatinFile == [File EXCEPT !.text = 4]
GrownFile == [File EXCEPT !.raw = 4, !.text = 5]

BodyParts ==
  {Text, HTML, Blank, Latin,
   [Text EXCEPT !.raw = 7], [Text EXCEPT !.content = "broken"],
   [Text EXCEPT !.signed = "whole", !.urls = <<"r">>],
   [Text EXCEPT !.signed = "last", !.urls = <<"q">>],
   [Text EXCEPT !.urls = <<"p", "q", "p">>], [Text EXCEPT !.urls = <<"p", "q", "r">>],
   [Text EXCEPT !.urls = <<"s", "q">>],
   [Text EXCEPT !.type = "other"], [Text EXCEPT !.type = "bad"],
   [Text EXCEPT !.type = "torn"]}
FileParts ==
  {File, LatinFile, GrownFile,
   [File EXCEPT !.raw = 5, !.text = 5], [File EXCEPT !.content = "binary"],
   [File EXCEPT !.content = "refused"], [File EXCEPT !.text = 0],
   [File EXCEPT !.type = "html"], [File EXCEPT !.type = "multi", !.parts = <<Text>>],
   [File EXCEPT !.type = "torn"]}
Leaves == BodyParts \cup FileParts
FewLeaves == {Text, HTML, Blank, File, LatinFile, GrownFile}

At(id, part) == [part EXCEPT !.id = id]
Multi(id, parts) == [Text EXCEPT !.type = "multi", !.id = id, !.parts = parts]

Trees ==
  Leaves
  \cup {Multi(1, <<>>)}
  \cup {Multi(1, <<At(2, p), At(3, q)>>) : p \in Leaves, q \in Leaves}
  \cup {Multi(1, <<At(2, p), At(3, q), At(4, r)>>) :
          p \in FewLeaves, q \in FewLeaves, r \in FewLeaves}
  \cup {Multi(1, <<Multi(2, <<At(3, p), At(4, q)>>), At(5, r)>>) :
          p \in FewLeaves, q \in FewLeaves, r \in FewLeaves}
  \cup {Multi(1, <<At(2, p), Multi(3, <<At(4, q), At(5, r)>>)>>) :
          p \in FewLeaves, q \in FewLeaves, r \in FewLeaves}
  \cup {Multi(1, <<Multi(2, <<p>>)>>) : p \in {At(3, q) : q \in FewLeaves}
          \cup {Multi(3, <<>>), Multi(3, <<At(4, File)>>)}}

Inner(parts) == UNION {ToSet(p.parts) : p \in parts}
AllParts ==
  Trees \cup Inner(Trees) \cup Inner(Inner(Trees)) \cup Inner(Inner(Inner(Trees)))
MimeParts == AllParts     \* TLC computes AllParts once, but MimeParts at every use

-----------------------------------------------------------------------------
(* messages *)

Plain ==
  [sender |-> "adm", replyTo |-> NoReplyTo, messageID |-> <<"a">>,
   references |-> <<>>, blank |-> FALSE, mime |-> Text]

Senders == {NoAddress, "adm", "Adm", "bot", "Bot", "x"}
ReplyTos == {NoReplyTo, BadReplyTo, <<"x">>, <<"x", "adm", "X">>}
Addressed ==
  {[Plain EXCEPT !.sender = s, !.replyTo = r] : s \in Senders, r \in ReplyTos}

Ids == {<<>>, <<"a">>, <<"huge">>, <<"huge", "b">>, <<"big">>}
Chains ==
  {<<>>, <<"a", "b">>, <<"a", "b", "c", "d">>, <<"b", "b", "c">>, <<"b", "c", "d">>,
   <<"big", "huge", "c", "big2">>, <<"big", "big2">>}
Threaded ==
  {[Plain EXCEPT !.messageID = i, !.references = c] : i \in Ids, c \in Chains}

Parted ==
  {[Plain EXCEPT !.mime = t] : t \in Trees}
  \cup {[Plain EXCEPT !.mime = t, !.blank = TRUE] : t \in Leaves}

Messages == Addressed \cup Threaded \cup Parted

-----------------------------------------------------------------------------
(* command lines *)

Abs(names) == [abs |-> TRUE, names |-> names]
Rel(names) == [abs |-> FALSE, names |-> names]

Here == "maildir" :> Abs(<<"m">>)
ForAdmin ==
  [flags |-> Here @@ "admin" :> "Adm", flagSend |-> <<>>, flagPath |-> Unset,
   env |-> <<>>, envPath |-> Unset, files |-> <<>>, parses |-> TRUE, stats |-> TRUE]
ForAnyone == [ForAdmin EXCEPT !.flags = Here @@ "anyone" :> TRUE]
Policies ==
  {ForAdmin, ForAnyone, [ForAnyone EXCEPT !.flags = @ @@ "from" :> "Bot"]}

FlagLayers == {Here, Here @@ "admin" :> "adm", Here @@ "archive" :> Rel(<<"f">>)}
FileLayers ==
  {[set |-> s, send |-> c, known |-> TRUE] :
     s \in {<<>>, "admin" :> "x" @@ "anyone" :> TRUE, "archive" :> Rel(<<"t">>)},
     c \in {<<>>, <<"s2", "s3">>}}
EnvLayers == {<<>>, "admin" :> "bot", "archive" :> Rel(<<"e">>) @@ "admin" :> "bot"}
Unknown == [set |-> <<>>, send |-> <<>>, known |-> FALSE]
Layered ==
  {[flags |-> f, flagSend |-> s, flagPath |-> fp, env |-> e, envPath |-> ep,
    files |-> Config!DefaultFile :> t @@ more, parses |-> TRUE, stats |-> TRUE] :
     f \in FlagLayers, s \in {<<>>, <<"s1">>}, fp \in {Unset, "one", "gone"},
     e \in EnvLayers, ep \in {Unset, "two"}, t \in FileLayers,
     more \in {<<>>, "one" :> Unknown, "one" :> [set |-> "admin" :> "x",
                                                 send |-> <<>>, known |-> TRUE]}}

Mistaken ==
  {[ForAdmin EXCEPT !.parses = FALSE], [ForAdmin EXCEPT !.flags = <<>>],
   [ForAdmin EXCEPT !.flags = Here],
   [ForAdmin EXCEPT !.flagPath = EmptyPath, !.envPath = "two"],
   [ForAdmin EXCEPT !.stats = FALSE],
   [ForAdmin EXCEPT !.stats = FALSE, !.envPath = "two",
                    !.files = "two" :> [set |-> <<>>, send |-> <<"s2">>, known |-> TRUE]]}
  \cup {[ForAdmin EXCEPT !.flags = s @@ @] :
          s \in {"attempts" :> 0, "archive" :> EmptyPath, "admin" :> BadAddress,
                 "archive" :> Rel(<<"x", "..", "Failed">>)}}

-----------------------------------------------------------------------------
(* file systems *)

Maildirs(roots) ==
  UNION {Prefixes(r) \cup {Append(r, "new"), Append(r, "cur")} : r \in roots}
Mails(paths) == [p \in paths |-> Plain]
Holding(m) ==
  [dirs |-> Maildirs({<<"m">>}), links |-> <<>>, mail |-> <<"m", "new", "1">> :> m]
NoMail == [Holding(Plain) EXCEPT !.mail = <<>>]

Forest ==
  { [dirs |-> Maildirs({<<"m">>, <<"m", "Archive">>, <<"m", "Failed">>, <<"o">>})
                \cup {<<"cur">>},
     links |-> <<>>,
     mail |-> Mails({<<"m", "new", "1">>, <<"m", "cur", "2">>, <<"m", "cur", ".dot">>,
                     <<"m", "Archive", "cur", "3">>, <<"m", "Failed", "cur", "4">>,
                     <<"o", "cur", "5">>, <<"cur", "6">>})],
    [dirs |-> Maildirs({<<"m", "sub">>, <<"m", "new", "deep">>, <<"m", "Archive", "in">>})
                \cup {<<"m", "cur">>, <<"m", "odd">>, <<"m", "odd", "new">>},
     links |-> <<>>,
     mail |-> Mails({<<"m", "sub", "new", "1">>, <<"m", "new", "2">>,
                     <<"m", "new", "deep", "new", "3">>, <<"m", "odd", "new", "4">>,
                     <<"m", "Archive", "in", "cur", "5">>})],
    [dirs |-> Maildirs({<<"m">>, <<"m", "store">>}),
     links |-> <<"m", "Archive">> :> <<"m", "store">>,
     mail |-> Mails({<<"m", "new", "1">>, <<"m", "store", "cur", "2">>})],
    [dirs |-> Maildirs({<<"real">>}),
     links |-> <<"m">> :> <<"real">>,
     mail |-> Mails({<<"real", "new", "1">>})],
    [dirs |-> {<<>>, <<"m">>, <<"m", "new">>, <<"o">>},
     links |-> <<"m", "cur">> :> <<"o">>,
     mail |-> Mails({<<"m", "new", "1">>, <<"o", "2">>})],
    [dirs |-> Maildirs({<<"m">>, <<"o">>}),
     links |-> <<"m", "new", "ln">> :> <<"o">> @@ <<"m", "cur", ".ln">> :> <<"o">>
               @@ <<"m", "sub">> :> <<"o">>,
     mail |-> Mails({<<"m", "cur", "1">>, <<"o", "new", "2">>})] }

Archives ==
  {Rel(<<"Archive">>), Rel(<<"x", "..", "Archive">>), Rel(<<".">>), Rel(<<"..">>),
   Rel(<<"new">>), Rel(<<"sub">>), Abs(<<"m", "Archive">>), Abs(<<"o">>)}

HiddenNames == {".dot"}

BotRuns ==
  {[given |-> ForAdmin, fs |-> Holding(m)] : m \in Parted \cup Threaded}
  \cup {[given |-> g, fs |-> Holding(m)] : g \in Policies, m \in Addressed}
  \cup {[given |-> g, fs |-> NoMail] : g \in Layered \cup Mistaken}
  \cup {[given |-> [ForAdmin EXCEPT !.flags = @ @@ "archive" :> a], fs |-> f] :
          a \in Archives, f \in Forest}
  \cup {[given |-> ForAdmin,
         fs |-> [Holding(Plain) EXCEPT !.mail = @ @@
                   <<"m", "cur", "2">> :> [Plain EXCEPT !.mime = File] @@
                   <<"m", "cur", "3">> :> [Plain EXCEPT !.mime = HTML]]]}

-----------------------------------------------------------------------------
(* docsets *)

Page(bytes, read, score) ==
  [kind |-> "page", bytes |-> bytes, read |-> read, score |-> score]
EntryKinds ==
  {Page(1, 1, 2), Page(2, 2, 1), Page(2, 2, 3), Page(5, 5, 2), Page(7, 7, 1),
   Page(2, 9, 1), [Page(0, 0, 0) EXCEPT !.kind = "aside"],
   [Page(0, 0, 0) EXCEPT !.kind = "foul"]}
DocsetChoices ==
  {[installed |-> TRUE, direct |-> TRUE, entries |-> e] :
     e \in UNION {[1..n -> EntryKinds] : n \in 0..3}}
  \cup {[installed |-> FALSE, direct |-> TRUE, entries |-> <<>>],
        [installed |-> TRUE, direct |-> FALSE, entries |-> <<>>]}
=============================================================================
