----------------------------- MODULE Invocation -----------------------------
(***************************************************************************)
(* main: one run of the program.  With "docset" first on the command line  *)
(* it is the export tool (DocsetExport).  Otherwise it loads its           *)
(* configuration (ConfigLayers), exits or prepares its folders, and then   *)
(* scans the Maildir (MaildirScan) and attempts the messages it finds      *)
(* (ReplyPipeline) one after the other.  Which message is next, and what   *)
(* becomes of it after the attempt, is the subject of MailCycle; here      *)
(* every message found may be attempted.                                   *)
(***************************************************************************)
EXTENDS ReplyPipeline, DocsetExport, MaildirScan

CONSTANTS
  BadAddress, EmptyPath, Unset,   \* of ConfigLayers
  Bots,               \* a command line with its surroundings, and a file system
  Docsets             \* what the export tool can come across

VARIABLES
  given,              \* what loadConfig sees
  fs                  \* the file system

Config == INSTANCE ConfigLayers

invocationVars == <<vars, docVars, given, fs>>

\* No docset command runs.
NoDocset == [installed |-> FALSE, direct |-> FALSE, entries |-> <<>>]

Settings == Config!LoadConfig(given).set
Root == Config!Root(Settings)
Excluded == {Config!Archive(Settings), Config!Failed(Settings)}

IsBot == phase = "none"
Serving == IsBot /\ Config!Starts(given)

\* The file system once validateConfig has made the two folders.
Ready(bot) ==
  IF Config!Starts(bot.given)
  THEN LET set == Config!LoadConfig(bot.given).set
       IN  Prepared(Prepared(bot.fs, Config!Archive(set)), Config!Failed(set))
  ELSE bot.fs

\* The folders can be made: no file is in the way.
ASSUME InvocationAssumption ==
  /\ \A bot \in Bots :
       /\ Config!IsGiven(bot.given)
       /\ IsFileSystem(bot.fs) /\ IsFileSystem(Ready(bot))
       /\ \A f \in DOMAIN bot.fs.mail : bot.fs.mail[f] \in Message
  /\ \A d \in Docsets : IsDocset(d)

InitBot ==
  /\ phase = "none" /\ docset = NoDocset
  /\ \E bot \in Bots :
       /\ given = bot.given /\ fs = Ready(bot)
       /\ cfg = IF Config!Starts(bot.given)
                THEN Config!Policy(Config!LoadConfig(bot.given).set)
                ELSE [anyone |-> FALSE, admin |-> NoAddress, from |-> NoAddress]

InitDocset ==
  /\ phase = "find" /\ docset \in Docsets
  /\ given = Unset /\ fs = Unset
  /\ cfg = [anyone |-> FALSE, admin |-> NoAddress, from |-> NoAddress]

Init == PipelineInit /\ DocInit /\ (InitBot \/ InitDocset)

Found == FindMessages(fs, Root, Excluded)

\* runCycle hands a message it found to processMessage; a link to a directory
\* cannot be read for its key, and is passed over.
Process ==
  /\ Serving
  /\ \E f \in Found \cap DOMAIN fs.mail : Begin(fs.mail[f])
  /\ UNCHANGED <<docVars, given, fs>>

Continue == Serving /\ Attempt /\ UNCHANGED <<docVars, given, fs>>

DocsetCommand == DocNext /\ UNCHANGED <<vars, given, fs>>

Next == Process \/ Continue \/ DocsetCommand

Spec == Init /\ [][Next]_invocationVars

-----------------------------------------------------------------------------
\* Each setting of the run comes from the highest layer that mentions it, and a
\* command is never put together from two layers (loadConfig).
Precedence == IsBot => Config!Precedence(given)

\* The scan finds the mail that is due, wherever in the tree the settings put the
\* archive and failed folders, and nothing from either of them unless a link leads
\* to it or it lies above the root (findMessages).
ScanFollows == Serving /\ pc = "idle" => FindsDue(fs, Root, Excluded)
=============================================================================
