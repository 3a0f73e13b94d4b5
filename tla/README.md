# janeGPT in TLA+

janeGPT is a mail bot: it runs a command that synchronizes a Maildir, reads
the messages in it one by one, asks a local model for a reply, hands the reply
to a command that sends it, and files the message. These modules model how the
program keeps track of what it has answered, with what can go wrong around it:
commands that fail or hang, saves and moves that fail half way, stop signals,
crashes, power loss, mail programs that touch the same files. They also model
what becomes of one message on the way: which settings apply, what is found and
read of it, what the model is given, whom the reply goes to and what it carries.

## The system

| Component | State | Operations | Interacts with | Hard behaviour |
|---|---|---|---|---|
| Mail cycle (`main`, `runCycle` in `src/main.go`) | the scanned paths, the message in hand, the attempt count read from its record | one cycle: sync, open and prune the ledger, scan, then for each file decide, process, record, move | everything below; files and signals from outside | crash between send and save; stop signal during a send; stale paths; two files of one identity; retries, quarantine and restarts |
| Delivery ledger (`src/state.go`) | `state.json`, the map in memory | `openDeliveryLedger`, `get`, `put`, `pruneCompleted`, `save` | called by the cycle only | a save that fails half way, crash and power loss inside it, best-effort directory sync, rollback in memory |
| Retry backoff (`retryDelay`) | none | delay from base and attempt count | the cycle | overflow, the cap |
| Maildir move (`archiveMessage`) | files of inbox, Archive, Failed | rename, or copy and remove | the cycle; mail programs on the same directories | check then rename, name collisions, partial copies, a vanished source |
| Command execution (`runMailCommand`, `runCommand`, `captureCommand`, `boundedOutput`) | child process, output buffers, two contexts | run, bound, kill, wait | sync, send and tool commands | deadline, stop signal, output limit and exit in any order; descendants that keep the pipe open |
| Tool calls (`collectTools` in `src/tools.go`) | the plan, the calls made, the budget left | select, validate, run, cut, attach | model, commands | a plan refused half way, repeated calls, a budget shared by several results, retries |
| Reply pipeline (`processMessage`) | one attempt's body, pages, reports, instructions, reply | policy, extraction, fetch, prompt, tools, model, send | all of the reply-side parts | any stage fails after earlier ones had effects; instructions kept in a copy of the configuration |
| MIME body, incoming attachments (`extractPartWithAttachments`, `src/attachments.go`) | what is left of the shared budget, accepted files, notes | recursive walk | pipeline | depth and size limits before and after conversion, a budget shared across nesting, plain/HTML preference per container |
| Reply headers (`src/reply.go`) | none | recipients, subject, In-Reply-To and References | pipeline | two limits on the References chain |
| Scan (`findMessages`, `ensureMaildir`) | none | walk with excluded subtrees | cycle, configuration | an excluded path that is the root or lies above it, symbolic links |
| Configuration (`src/config.go`, `validateConfig`) | the settings | layers and validation | start only | flags parsed twice around the file they name, command lists, relative folders |
| Docset export (`src/docsets.go`) | pages read, two exports, an excerpt | find, walk, convert, select | run by the bot as a tool | limits measured at three points, all or nothing |
| Web fetch, model client, status lines | none | one request, one line | pipeline | — |

What makes the core right: a message is worked on only if nobody has settled
it; every reply the sender took is accounted for, so that a duplicate always
has a named cause; the attempt limit holds across restarts; the record and the
place of a file never contradict each other; nothing is lost or overwritten by
a move; a save is all or nothing; a command's result is true and always comes;
and every message leaves the inbox in the end. For a single message: nothing is
asked of the outside for one that gets no reply; the reply that leaves is the
whole of one attempt; every text and every file that came with it is used or
reported within the limits; the settings are those of the highest layer that
names them; and the scan finds the mail that is due and no other.

## The modules

| Module | Models | Notes |
|---|---|---|
| `ReplyPromise` | the promise about replies, per message identity, without files or records | abstract specification of `MailCycle` |
| `LedgerStore` | the ledger as its users see it: one record per key, atomic `Put`, `Prune`, `Age` | abstract specification of `DeliveryLedger`; `MailCycle` extends it |
| `MailCycle` | `main`, `runCycle`, and the boundaries of `processMessage` | composes the store with the other parts' outcomes |
| `DeliveryLedger` | `src/state.go`, system call by system call | implements `LedgerStore` |
| `MaildirMove` | `archiveMessage`, call by call | `MoveDone` and `MoveFails` of `MailCycle` are its results |
| `CommandRun` | mail and tool commands over `os/exec` | `SendConfirmed`, `SendRefused`, `SendUnconfirmed` of `MailCycle` are its results for a sender |
| `RetryBackoff` | the loop of `retryDelay` | `Delay` of `LedgerStore` is its result |
| `ToolCalls` | `collectTools` and the retries that repeat it | one of the stages `PipelineFails` of `MailCycle` stands for |
| `ReplyAttempt` | one attempt at a message as `runCycle` sees it: archived if it is one to skip, taken by the sender, or failed | abstract specification of `ReplyPipeline`; its steps are those of `MailCycle` inside `processMessage` |
| `ReplyPipeline` | `processMessage` stage by stage, message after message | extends `ReplyHeaders`; `Extract` is a parameter |
| `ReplyHeaders` | recipients and thread of a reply | pure |
| `MimeWalk` | `extractPartWithAttachments` and `incomingAttachments.read`, with a reference by sets of parts | pure; the walk is a recursive function of the levels of nesting left |
| `MaildirScan` | `findMessages`, `ensureMaildir` over a file tree | pure; the walk is a recursive function of the directory |
| `ConfigLayers` | `loadConfig`, `validateConfig` | pure |
| `DocsetExport` | `exportDocset`, entry by entry | the bot may run it as one of the commands of `ToolCalls` |
| `Invocation` | `main`: the dispatch between the bot and the docset command, and the bot from its command line to the end of each attempt | composes `ReplyPipeline`, `MaildirScan`, `ConfigLayers` and `DocsetExport` |
| `MessageReading` | the same, with what `MimeWalk` reads of each message (`ReadingAssumption`) | gives the pipeline its `Extract`; `NothingLeftOut` follows a message from reading to sending |
| `MC...` | model values and small functions for TLC | `CommandRun` and `RetryBackoff` are checked directly |
| `MailCycleProofs`, `DeliveryLedgerProofs`, `MaildirMoveProofs`, `RetryBackoffProofs`, `ToolCallsProofs`, `CommandRunProofs` | theorems about the module they are named after | checked by TLAPS |
| `InvocationProofs` | theorems about `Invocation` and what it is composed of | checked by TLAPS |
| `DataTheorems` | lemmas about sums, folds, minima and sequences | what the other proofs need of the community modules |

### MailCycle

`pc` is where the process is: `stopped`; `rest` (the interval); `sync`, `open`,
`prune`, `scan` (the start of `runCycle`); `next` (the head of its loop);
`process`, `send`, `accepted`, `exited` (inside `processMessage` and
`sendMail`); `failed` and `record` (the error branch, and the branch of
`dispositionDelivered`); `archive` and `quarantine` (inside `archiveMessage`).
`todo`, `cur` and `tried` are the loop's remaining paths, the message in hand
and `record.Attempts` as read. `stale` holds scanned files whose path has
changed: the bot works with paths, so it can neither identify nor move them
until it scans again. `at` says which Maildirs hold a copy of each file.
`ledger` is the store; records hold a status, an attempt count and a countdown
in place of a time stamp (`NextAttempt` for a retry, what is left of
`completed_retention` for a delivery).

Between `send` and `record` a reply passes through the hands of the sender.
`SenderAccepts` is the sender taking it, `SenderExits` the successful exit, and
only `SendConfirmed` tells the bot. `SendUnconfirmed` covers every way a taken
reply is reported as an error: the context ended before `runMailCommand`'s
check, the sender failed after accepting, or `WaitDelay` passed with a
descendant holding the output. `sent`, `lost` and `confirmed` are history:
replies taken, taken replies whose memory is gone, and successful exits.

A `put` that fails changes nothing that a later decision reads, which is why
`LedgerStore` has no step for it; that this is so is what `DeliveryLedger`
checks (`MemoryAgrees`, `ImplementsStore`).

### The others

`DeliveryLedger` separates what a reader of `state.json` gets (`visible`), what
may be found after a power loss (`survives`, a set), the temporary file, and
the map in memory with the copy `put` and `pruneCompleted` restore (`mem`,
`prev`). A partial document is `Torn`. `acked` is the map whose save last
reported success.

`MaildirMove` gives all its files one base name, since moves of different
names cannot meet. `dir` maps each name of the destination (the base name and
those with a time stamp in front) to what it holds: nothing, a whole copy or
part of one. `otherDevice` makes `rename` fail as it does across file systems.

`CommandRun` follows `exec.Cmd`: the watcher that kills the child when the
context ends, the goroutine that copies output, `Wait` with its `WaitDelay`.
The order of the checks after it is that of `runMailCommand` and
`captureCommand`.

`ToolCalls` represents texts by their length. A call is a tool with its
arguments; `Declared` are those whose tool is configured and whose arguments
are the declared inputs. `Trim` is what an incomplete last character can cost
(three bytes in the code), `Note` the truncation note.

`ReplyPipeline` keeps the locals of `processMessage` in `work`; `system` is what
is appended to `cfg.Personality`, in the copy of the configuration that a call
gets by value; `effects` is history: what the attempt has asked of the outside.
Each stage that talks to the outside may fail, and `Finish` forgets the rest.
A message is its headers and its MIME part; a body is the sequence of the texts
it was read from, so that what is kept, cut and linked can be told apart without
their characters.

`MimeWalk` measures texts before (`raw`) and after (`text`) their conversion to
UTF-8, because the code compares both with its limits. `ExtractBody` is the
code's walk, handing the budget from part to part. `Read` gives it for each
number of levels of nesting left, since `Visit` calls it one level down; with
none left it is the code's error. The parts there can be are a constant, `Part`,
closed under taking parts (`PartAssumption`); a part's `id` is its place in the
message, so that a part comes before those in it, and those before what is in
the parts after it (`PlaceAssumption`). The reference says instead which parts
lie how many levels down (`Level`, `Parts`), and which texts give way to others
(`GivesWay`).

`ConfigLayers` has seven settings, one of each treatment (path, address,
boolean without environment variable, count), and one command, whose elements
the flags append one at a time. `LoadConfig` follows the two parses. `Loads`
has the errors: flags that do not parse, an empty `-config`, a default file that
cannot be looked for, a named file that is missing or has unknown settings.

In the prompt a page is its length and the places of its UTF-8 characters, which
is what `strings.ToValidUTF8` and the budget of `buildModelPrompt` tell apart:
`Beginning` has the bytes taken and the length of the text shown for them.

`MaildirScan` has directories, symbolic links to directories, and mail. The
walk does not follow links, `ensureMaildir` and `looksLikeMaildir` do. A link in
`new` or `cur` is listed as if it were a message; the bot cannot read it and
passes over it. One
consequence is deliberate in `ScanFollows`: a folder setting that names the
Maildir root itself (`archive = "."`) excludes all of it, so that every scan is
empty without an error. The second half of `ScanFollows`, that nothing of an
excluded folder is found, leaves out a folder reached by a link or above the
root: there the code excludes nothing, and the first half says what it finds.

`DocsetExport` lists the entries of a docset in the order of the walk. A page
has the size it is listed with and the size found when it is read.

`Invocation` starts either as the docset command or as the bot with a command
line, an environment, files and a file system. Settings that are refused leave
nothing to do. `Process` may take any message the scan finds, in any order and
again: which one is next, and what becomes of it, is `MailCycle`'s subject.

## The runs

| Run | Shows | Bounds |
|---|---|---|
| `cycle` | `WorkIsDue`, `AttemptsBounded`, `FailedIsQuarantined`, `ArchivedIsAnswered`, `RepliesExact`, `RecordLifecycle`, and that the cycle implements `ReplyPromise` | three files, two with one Message-ID, one skipped by policy; two attempts; any three faults of ten kinds |
| `cycle_live` | `Drained` | two files, two attempts, any two faults, single-scan processes |
| `cycle_prune` | a documented promise violated, see below | failed moves only |
| `cycle_stop` | a documented promise violated, see below | one stop signal |
| `ledger` | `NeverTorn`, `MemoryAgrees`, `AckedSurvives`, and that `LedgerStore` is implemented | two keys, every kind of record, two failures, power loss anywhere |
| `move` | `NeverLost`, `ResultHonest`, `CopiesExplained`, `DestinationKept`, `Moved` | two files of one name, the name perhaps taken, either device, three faults |
| `move_shared` | a documented promise violated, see below | one file of another program |
| `command` | `SuccessIsWhole`, `NoChildLeft`, `Returns` | three writes against a limit of two, one descendant at a time |
| `backoff` | `DelayInRange`, `Exponential` | all bases 1..31, attempts 1..7, cap 24, largest integer 31 |
| `tools` | type correctness (`TypeOK`), `BudgetKept`, `CutOnlyWhenFull`, `OncePerAttempt`, `StopsAtRefusal`, `WholePlan` | all plans of up to three calls over three declared calls and an undeclared one, plus plans that are too long; contexts of 0..4 for a budget of 3; two attempts |
| `invocation` | `Precedence`, `ScanFollows`, `BodyFollows`, `FilesFollow`, `NothingLeftOut`, `QuietUnlessAnswerable`, `ReplyIsWhole`, `ExcerptsFillBudget`, `OwnInstructions`, `ExportComplete`, `ExcerptIsBest`, and that `ReplyPipeline` implements `ReplyAttempt` | command lines over all layers, folders in awkward places, messages of every MIME shape up to three leaves and three levels, headers, senders; docsets of up to three entries |
| `nested_html` | a documented promise violated, see below | as `invocation` |

The bounds are named constants. `MaxFaults` caps faults per behaviour: each
duplicate, orphan copy or rollback needs one or two, so that three reach every
pair of them with one to spare. Two attempts are a first attempt, a retry and
quarantine. Two files of one identity and one of another are enough for one
message to change the decision about another, and for the sorted order to
matter. `MaxStamp` bounds calls of `archiveMessage` that start; five is the
smallest bound at which three faults cannot use up the names, so that `Moved`
is not cut short. The six-bit integers of
`RetryBackoff` wrap at the first doubling past the cap, a harsher case than the
code's 64 bits, where the cap is far below the largest duration. `MaxText`
is one past the budget: empty, fitting, exactly full, and too long.

In `invocation` the parts of the program get inputs of their own, with the
plainest ones for the other parts, so that the instances add up and do not
multiply: each part is a function of its own inputs, and the one thing kept
between messages, the configuration, is checked by a Maildir with three
different messages. The limits are those of the code scaled down: nesting 2 for
20, so that trees reach one level past it; three references of at most ten
bytes for 20 of 900, so that either limit may be the one that cuts, and an ID
can be too long by itself; attachments of 3 to 5 bytes against 4 each and 6
together, so that the second file fits, does not fit, or fits only before its
conversion; page texts of 2, 3 and 4 bytes in characters of 1, 3
and 4, and one of 3 that is not UTF-8, against 4 together, so that a page is
whole, cut, cut inside a character or left out; docset pages of 1 to 7 bytes and labels of one
against 8, including a page that has grown since it was listed.

`cycle`, `ledger`, `move` and `command` have no run of `TypeOK`: it is proved.

`ExcerptsFillBudget` states less than the documentation of
`max_web_context_bytes` ("maximum Org-mode webpage text included in the Ollama
prompt"), because the code does less. `buildModelPrompt` cuts a page to what is
left of the budget, then writes U+FFFD, three bytes, for each run of bytes that
is not UTF-8, and charges the budget for the bytes it cut. So the bytes taken stay
within the limit, and the text in the prompt is longer by what the marks add: for
one character split by the cut, if all pages are UTF-8, and without such a bound
for pages in another encoding. The instance has both: the page of one character of
three bytes is cut to the two that are left after the page of two (five bytes of
text for four), and the page that is not UTF-8 grows although it fits.

`NothingLeftOut` says of the reply that leaves what `BodyFollows` and
`FilesFollow` say of the walk: between the two are the removal of the signature
and every stage that hands `work` on. A text may be missing from what the model
saw only if it is, or comes after, one that has a signature.

Deadlock is checked in the cycle. The other components' runs end: a call
returns, a machine is off, files are all moved.

### What the violations show

* `cycle_prune`: `pruneCompleted` goes by age, and runs before the scan. A
  delivered message whose file could not be moved within the retention period
  loses its record while the file is still scanned, and is answered again. The
  comment in `runCycle` says the next scan finishes the move without sending
  another reply; that holds within `completed_retention` only.
* `cycle_stop`: `runMailCommand` prefers the context's error to a successful
  exit. A stop signal between the two makes `runCycle` return without a record,
  and the next process answers again. (A deadline there leaves a retry record,
  and the retry answers again.) The comment in `runCycle` names a crash as the only such window, and the
  documentation promises no resend after a confirmed send.
* `move_shared`: `Stat` and `Rename` are two calls; a file that another program
  puts under the name in between is replaced, although the documentation says
  that archived messages are not overwritten. `DestinationKept` states what
  does hold: nothing else is ever replaced or removed.
* `nested_html`: a part is sorted as plain text or HTML by its own
  Content-Type, so that whatever a nested multipart yields counts as plain. A
  `multipart/alternative` with the HTML inside a `multipart/related`, the usual
  form of HTML mail with inline images, yields both versions, where the
  documentation says that plain text is preferred. `BodyFollows` states what
  does hold: HTML gives way to other text of the same container.

### Fairness

`Drained` assumes that the process takes its next step if it has one (it is
sequential, and `CommandRun`'s `Returns` shows that no command holds it for
ever), that time passes, and that someone starts the process again after it
ended: the operator or timer that a single-scan bot (`interval = "0s"`) needs
anyway. Nothing is assumed of the environment's faults, which are finite by
`MaxFaults`: without a bound, a bot whose every save fails never drains its
inbox, and no property says it does. Nor is any stage of the pipeline assumed
to succeed: quarantine is the way out.

`Moved` assumes that the bot scans again and that a started call runs to its
end. `Returns` assumes that the program's goroutines run and that the deadline
comes (every command has one, `command_timeout` or the tool's `timeout`); the
child and its descendants owe nothing.

## The proofs

`MailCycleProofs` proves of `Spec`, for any sets of files and identities, any
limits, delays and faults allowed by `StoreAssumption` and `CycleAssumption`
(positive attempt limit, delays and retention, as `validateConfig` demands;
each file has one identity):

* `TypeCorrect`: `[]TypeOK`;
* `WorkIsDueAlways`, `AttemptsBoundedAlways`, `PlacesJustified`
  (`FailedIsQuarantined`), `ArchivedIsAnsweredAlways`, `RepliesExactAlways`;
* `RecordLifecycleHolds`, the action property;
* `KeepsPromiseAlways`: `MailCycle` implements `ReplyPromise`.

The inductive invariant `IInv` is the conjunction of these invariants and
`MoveJustified`: while the process is inside `archiveMessage`, what it is about
to make true of the file's place already holds of its record. `WorkIsDue` is
what the others need at the moment a record is written: the attempt count in
hand is the stored one, so that the new record is one attempt further; and no
delivered record is overwritten, so that the account of replies stays exact.
In turn `RepliesExact` is an equation, because the inequality one would like to
read off (`sent <= lost + 1`) is not inductive: it forgets whether the one is
still there. `ArchivedIsAnswered` follows from the equation when a delivered
message is moved: its reply was counted. Each group of actions of `Next` has its
lemma, first for the type (`...Type`), then for the invariant (`...Inv`);
`PutStep` and `AgeStep` carry what all writes of a record and all passing of
time have in common.

For the refinement, `SameVerdict`, `StutterStep`, `ForgetInFlight` and
`AnswerInSend` say what a step of the cycle is in `ReplyPromise`;
`PromiseStep` goes through the actions, and `RecordLifecycle`'s lemma and the
invariant supply that an abandoned message stays so.

`DeliveryLedgerProofs` proves of the ledger, for any keys, limits, delays and
numbers of faults that `LedgerAssumption` allows, `LedgerTypeCorrect`,
`NeverTornAlways`, `MemoryAgreesAlways`, `AckedSurvivesAlways` and
`ImplementsStoreAlways`. The invariant has two parts. `Whole`: what a reader gets
and whatever a power loss may leave are complete maps. `Agrees` says what memory,
disk and history have to do with each other at each step of a save: before the
rename the copy to go back to is what is on the disk, and the new map is one
`put` or one `pruneCompleted` away from it (`Replaces`); the temporary file is
synced by the time it is renamed; without a directory sync still owed, only the
visible file can survive. `Replaces` is what the refinement needs: the rename is
the step of `LedgerStore`, every other system call is a stutter, and a crash
before the rename leaves the map of the step before.

`MaildirMoveProofs` proves `MoveTypeCorrect`, `NeverLostAlways`,
`ResultHonestAlways`, `CopiesExplainedAlways` and `DestinationKeptAlways` for any
number of files of one name, stamps and faults (`MoveAssumption`). `Placed` says
for each place in `archiveMessage` what may be under the target: nothing, what
the call itself has put there, or, at the rename only, a file that came after
the `Stat`. So whatever the call overwrites or removes is no other message's
copy (`OwnTarget`). `CopiesExplained` bounds the copies of a message by its
mishaps and is not inductive; `Counted` adds that a message still in the inbox
and not being copied has one copy less than that.

`RetryBackoffProofs` proves for every cap, base, attempt count and integer width
`DelayAlwaysInRange`, that the delay never wraps, and `ExponentialAlways`, that it
is the base doubled once per earlier attempt, cut to the cap. The invariant of
the first is that the delay is positive and either within the cap or still the
base, and that it is at least the base or equal to the cap: a doubling is only
reached with the delay at most half the cap, where it fits. The second adds
(`DoublingInv`) that inside the loop the delay is the base times a power of two,
uncut; that the powers exist as a function on the natural numbers, and that they
grow, is proved by induction.

`ToolCallsProofs` proves for any calls, budgets, plan lengths and attempts
`ToolTypeCorrect`, `OncePerAttemptAlways`, `StopsAtRefusalAlways`,
`WholePlanAlways`, `BudgetKeptAlways` and `CutOnlyWhenFullAlways`. A call not yet
made in this attempt has a run to spare (`RunsLeft`); the calls made are those of
the part of the plan handled so far, all declared (`Progress`); and each of them
but the one running has its text, the texts being as many as the calls
(`Collected`). For the budget, `Balance`: the texts kept and what is left are
within the budget, exactly so before the first cut, and after it nothing is left
but what an incomplete character took.

`CommandRunProofs` proves `CommandTypeCorrect`, `SuccessIsWholeAlways` and
`NoChildLeftAlways` for any output limit and any number of writes. Its
invariant (`Observed`) is what the caller may conclude from the place in
`Cmd.Run`: past `Wait` the child is over, an error that has not been noted did
not happen, and output is only missing if an error says so.

`InvocationProofs` has first the parts that `Invocation` puts together, then the
whole.

* Of `PipelineSpec`, the calls of `processMessage`, for any messages, settings,
  pages, exports and limits (`HeaderAssumption`, `PipelineAssumption`), and
  whatever the extraction of a body yields: `QuietUnlessAnswerableAlways`,
  `OwnInstructionsAlways`, `ReplyIsWholeAlways`, `ExcerptsFillBudgetAlways`, and
  `ImplementsAttemptAlways`, the refinement. `Passed` says which of the
  conditions for an answer hold at each stage, from which the refinement takes
  that a skip is one to skip. `Carried` says what each stage finds in `work`:
  recipients and thread of this message, the first so many of its wanted pages,
  the excerpts of all of them, and the reply made of them. With it the two
  invariants about the reply are facts about pure operators: what `Distinct`
  keeps represents all that is usable, each once and in order
  (`DistinctRepresents`); `Fitting` after `Newest` is the longest end of the
  chain within both limits (`ChainCut`, `ThreadKept`); the excerpts take the
  pages whole until the budget is full (`FillingStep`, `ExcerptsFill`), and are
  longer than the bytes taken by the marks alone: `RepairingStep` counts each
  byte taken as one of a character or a broken one, and a UTF-8 page has at most
  one run of those, at the cut (`MarksFew`, `Repairing`).
* Of `DocSpec`, `exportDocset` for any docset: `ExportCompleteAlways` and
  `ExcerptIsBestAlways`, from the invariant `Walked` (`WalkedAlways`). The pages
  read are those of the entries walked, in order, each with its label; nothing
  walked was foul; each export is made of all pages read once the walk is over.
  `RankedIsRanking` shows that the number of pages before a page is a bijection
  to the places, so that the ranking has every page once, best first;
  `SelectedCuts` that what is selected is the shortest beginning of the ranking
  that reaches the budget, or all of it.
* Of `Spec`, a run of the program with any command line, environment, files,
  file system and docset of the kind `InvocationAssumption` describes (paths and
  commands are lists of strings; files have their folders above them, links lead
  to folders, and no file is where a folder is to be made; TLC evaluates it for
  the instance). `Running` says that the bot goes on with the settings and
  folders it started with, and the docset command as in `Walked`. From it:
  `PrecedenceAlways`, since the two parses of the flags around the file give each
  setting the value of the highest layer (`LayersPrecede`); `ScanFollowsAlways`,
  below; `AttemptsAreThePipelines`, that a run hands `processMessage` nothing but
  messages and so is one of `PipelineSpec`'s; and `RunIsSound`, all of the above
  of one run.
* Of `MimeWalk`, for any parts and limits (`LimitsAssumption`, `PartAssumption`,
  `PlaceAssumption`): `EveryBodyIsText` and `EveryFileIsWhole`, that the walk and
  its reference agree on every message. `LevelIs` and `ReadIs` are the equations
  of the two recursive functions. What is proved by induction over the levels
  left (`BodyReads`) is that the walk of a part succeeds exactly if the part is
  `Sound` (nested no deeper than the levels left, every part in it readable, its
  body within the limit) and then yields its kept texts in order, whatever was
  charged before. Inside one multipart, `SeenBody` follows the loop over its
  parts: the texts seen so far, those of HTML parts and the others, are those
  kept in the parts so far; `ContainerKeeps` and `SomeKept` relate what a
  multipart keeps to what its parts do, and `BodyGrows`, that a part's body is no
  longer than the body it goes into, is why the code's checks at every level
  come to one check at the top. For the files, `AccountsKept` carries
  `Account` through the same two inductions: what is left of the budget is what
  the files have not used, each of them had room after the ones before it, and
  no reported one did. This is stable because everything filed comes before what
  is still to be read (`Precedes`), by the places.
* Of `Spec` again, with `ReadingAssumption`: `BodyFollowsAlways`,
  `FilesFollowAlways`, and `NothingLeftOutAlways`. The last needs of `Carried`
  that the body in `work` is the extracted one without its signature, and its
  files and report are those of the walk, through every stage up to the sender;
  `UnsignedRest` says that what the signature took away is at or after a part
  that has one.
* For the scan, in any finite file system and for excluded folders that exist,
  the recursive walk finds what its description by the folders on the way asks
  for (`ScanFindsDue`): the described sets solve the equation of the walk
  (`DueBelowStep`), and it has one solution (`OneScan`), since a folder inside
  another has fewer deeper folders than that. The excluded folders do exist
  before the first scan, wherever they resolve to, by way of a link or not
  (`CleanType`, `PreparedAdds`, `ReadyHasFolders`).

`DataTheorems` is what these rest on. The library's theorems for induction take
an operator as a parameter and cannot be used; but a set of natural numbers has a
least element (from the library's well-foundedness), which gives induction over
sets given by a predicate (`NatInduct`, `SubsetInduct`). From this follows that
the recursive functions inside the community modules' folds exist
(`FoldExists`, `LeftFoldExists`), without which nothing can be said of a fold;
that a recursive function over the first so many numbers exists
(`RecursionExists`); that a sum does not depend on the order in which `CHOOSE`
takes the terms (`SumRemove`, `SumImage`, `SumAppend`, `SumSubset`); and facts
about prefixes and suffixes.

Only model-checked: the liveness properties (`Drained`, `Moved`, `Returns`),
since fairness and `ENABLED` are beyond the installed provers, and the four
promises of the documentation that the code does not keep, of which TLC shows the
counterexamples. Every other property of a run is a theorem. What the pipeline
alone is proved to do holds whatever `Extract` yields; `NothingLeftOut` is about
what `MimeWalk`'s yields. The assumptions on the parts are conditions on how a
message is written down as data, not on what is in it; TLC evaluates them for
the messages of `MCInvocation`.

## Not modelled

* Two bots on one state directory: documented as not allowed.
* Power loss in `MailCycle` and `MaildirMove`: the ledger's is in
  `DeliveryLedger`; the move makes no attempt to order its writes.
* A change of the configuration between restarts (a lower `max_attempts`, say):
  the constants are constant.
* Contents: message text, prompts, subjects, HTML conversion, charsets, MIME
  encoding, log lines. They are lengths or identities where a limit or a choice
  depends on them.
* Inbox files the bot cannot read: they are skipped on every scan, without
  attempt count or quarantine, and `Drained` leaves them out.
* In `CommandRun`, the goroutine that feeds the child's input, which `Wait` and
  `WaitDelay` treat like the one that reads its output, and the second, smaller
  limit on a tool's diagnostics: one output stands for both.
* A catalog without tools, for which `collectTools` returns at once.
* HTTP, DNS and the model (`fetchOrgAttachment`, `generateOllama`): one request
  each, without state or retry; stages that succeed or fail. The text of a page
  is a length and the places of its characters.
* Settings that are treated like one of the seven in `ConfigLayers`,
  `expandHome`, the validation of URLs, commands and tools, and TOML itself.
* The docset command's `-list`, its JSON, how a page is scored and how tags are
  counted: a score is an input.
* In `MaildirScan`, links on the way to other links, dangling links, and files
  that change during a scan; `MailCycle` has the changes between scan and use.
* The pipeline's outcomes in `MailCycle` are not the pipeline itself: the two
  meet in `ReplyAttempt`, whose steps `MailCycle` names one by one.

## Plan

Written: the modules above, in the order cycle, ledger, move, command,
backoff, tools, MIME walk, headers, pipeline, scan, configuration, docset
export, and the composition of these in `Invocation` and `MessageReading`. What
is left of the code is listed under "Not modelled" with its reasons.

Proofs: every safety and action property of a run that holds, and every
refinement, is proved. What could be added is the code above and, with provers
that know fairness, the three liveness properties.
