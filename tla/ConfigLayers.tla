---------------------------- MODULE ConfigLayers ----------------------------
(***************************************************************************)
(* loadConfig and validateConfig: from what a command line, an environment *)
(* and the TOML files at hand say to the settings of a run, or an exit.    *)
(*                                                                         *)
(* A layer is a function from the settings it mentions to their values.    *)
(* given.flags, .env and .files[name].set are layers; .flagSend and        *)
(* .files[name].send are the command elements they list; .flagPath and     *)
(* .envPath name the file, Unset without -config or a MAILBOT_CONFIG that  *)
(* is not empty.  .parses says that the flags parse and every ~ expands,   *)
(* .stats that os.Stat tells whether the default file is there.  A path is *)
(* [abs |-> BOOLEAN, names |-> Seq].                                       *)
(***************************************************************************)
EXTENDS Naturals, SequencesExt

CONSTANTS
  NoAddress,          \* an empty address
  BadAddress,         \* one that does not parse
  Lower,              \* each address in lower case
  EmptyPath,          \* an empty path
  Unset               \* nothing is given

DefaultFile == "janegpt.toml"
EnvSettings == {"maildir", "archive", "failed", "admin", "from", "attempts"}

Default ==
  [maildir |-> EmptyPath,
   archive |-> [abs |-> FALSE, names |-> <<"Archive">>],
   failed |-> [abs |-> FALSE, names |-> <<"Failed">>],
   admin |-> NoAddress, from |-> NoAddress, anyone |-> FALSE, attempts |-> 5]

\* What loadConfig can be given: paths and commands are lists of strings.
IsGiven(given) ==
  LET IsLayer(layer) ==
        \A s \in {"maildir", "archive", "failed"} \cap DOMAIN layer :
          layer[s] = EmptyPath \/ layer[s].names \in Seq(STRING)
  IN  /\ given.flagSend \in Seq(STRING)
      /\ IsLayer(given.flags) /\ IsLayer(given.env)
      /\ \A name \in DOMAIN given.files :
           given.files[name].send \in Seq(STRING) /\ IsLayer(given.files[name].set)

\* A layer over another: what the upper one mentions hides the lower one.
Over(upper, lower) ==
  [s \in DOMAIN upper \cup DOMAIN lower |->
     IF s \in DOMAIN upper THEN upper[s] ELSE lower[s]]

\* defaultConfig: an environment value that is unset leaves the default, and
\* there is none for reply-anyone or the commands.
FromEnv(given) ==
  [set |-> Over([s \in EnvSettings \cap DOMAIN given.env |-> given.env[s]], Default),
   send |-> <<>>]

\* Parse of the flags bound to config: an element of a command is appended.
Parsed(config, given) ==
  [set |-> Over(given.flags, config.set), send |-> config.send \o given.flagSend]

\* toml.DecodeFile into config: a list in the file replaces the one there.
Decoded(config, file) ==
  [set |-> Over(file.set, config.set),
   send |-> IF file.send # <<>> THEN file.send ELSE config.send]

\* Mutant of Cleared: the flags' elements follow the file's.
ClearedNever(config, given) == config

\* The first Visit: a command on the command line takes the file's out.
Cleared(config, given) ==
  IF given.flagSend # <<>> THEN [config EXCEPT !.send = <<>>] ELSE config

\* The file to read: -config before MAILBOT_CONFIG before the default file.
ConfigPath(given) ==
  IF given.flagPath # Unset THEN given.flagPath
  ELSE IF given.envPath # Unset THEN given.envPath
  ELSE IF DefaultFile \in DOMAIN given.files THEN DefaultFile ELSE Unset

\* The flags parse, -config is not empty, it is known which file to read, and that
\* file is there and has only known settings.
Loads(given) ==
  /\ given.parses
  /\ given.flagPath # EmptyPath
  /\ {given.flagPath, given.envPath} = {Unset} => given.stats
  /\ ConfigPath(given) # Unset =>
       /\ ConfigPath(given) \in DOMAIN given.files
       /\ given.files[ConfigPath(given)].known

\* Mutant of LoadConfig: the flags are not replayed after the file.
LoadConfigOnce(given) ==
  IF ConfigPath(given) = Unset THEN Parsed(FromEnv(given), given)
  ELSE Decoded(Parsed(FromEnv(given), given), given.files[ConfigPath(given)])

\* The first parse finds the file; with one, everything starts over.
LoadConfig(given) ==
  IF ConfigPath(given) = Unset THEN Parsed(FromEnv(given), given)
  ELSE Parsed(Cleared(Decoded(FromEnv(given), given.files[ConfigPath(given)]), given),
              given)

-----------------------------------------------------------------------------
\* filepath.Clean of an absolute path.
Clean(names) ==
  LET Down(path, name) ==
        CASE name = ".." -> IF path = <<>> THEN path ELSE Front(path)
          [] name = "." -> path
          [] OTHER -> Append(path, name)
  IN  FoldLeft(Down, <<>>, names)

Resolved(root, path) == Clean(IF path.abs THEN path.names ELSE root \o path.names)

Root(set) == Clean(set.maildir.names)
Archive(set) == Resolved(Root(set), set.archive)
Failed(set) == Resolved(Root(set), set.failed)

\* validateConfig, for one of the limits; the others are checked like it.
Valid(set) ==
  /\ EmptyPath \notin {set.maildir, set.archive, set.failed}
  /\ Archive(set) # Failed(set)
  /\ set.attempts > 0
  /\ set.admin # NoAddress \/ set.anyone
  /\ BadAddress \notin {set.admin, set.from}

Starts(given) == Loads(given) /\ Valid(LoadConfig(given).set)

\* What of the settings the reply pipeline looks at.
Policy(set) ==
  [anyone |-> set.anyone, from |-> set.from,
   admin |-> IF set.admin = NoAddress THEN NoAddress ELSE Lower[set.admin]]

-----------------------------------------------------------------------------
FileLayer(given) ==
  IF ConfigPath(given) = Unset THEN [set |-> <<>>, send |-> <<>>]
  ELSE given.files[ConfigPath(given)]

\* Each setting has the value of the highest layer that mentions it, flags
\* before file before environment before default, and a command is that layer's
\* whole list, never a mixture of two (loadConfig's comment on precedence).
Precedence(given) ==
  Loads(given) =>
    LET config == LoadConfig(given)
        file == FileLayer(given)
        value(s) ==
          IF s \in DOMAIN given.flags THEN given.flags[s]
          ELSE IF s \in DOMAIN file.set THEN file.set[s]
          ELSE IF s \in EnvSettings \cap DOMAIN given.env THEN given.env[s]
          ELSE Default[s]
    IN  /\ \A s \in DOMAIN Default : config.set[s] = value(s)
        /\ config.send = IF given.flagSend # <<>> THEN given.flagSend ELSE file.send
=============================================================================
