\* The instance of MCInvocation.cfg, for a claim of the documentation.
SPECIFICATION Spec
CONSTANTS
  NoAddress = NoAddress
  NoReplyTo = NoReplyTo
  BadReplyTo = BadReplyTo
  BadAddress = BadAddress
  EmptyPath = EmptyPath
  Unset = Unset
  NoMessage = NoMessage
  Lower <- LowerCase
  IdBytes <- Bytes
  MaxIdBytes = 6
  MaxReferences = 3
  MaxReferencesBytes = 10
  Message <- Messages
  Extract <- Extraction
  PageBytes <- PageSizes
  Characters <- PageChars
  MaxWebContext = 4
  Exports <- ExportChoices
  Part <- MimeParts
  MaxBody = 6
  PerFile = 4
  MaxAttached = 6
  MaxDepth = 2
  Gap = 2
  Hidden <- HiddenNames
  Bots <- BotRuns
  Docsets <- DocsetChoices
  MaxBytes = 8
  ContextBytes = 2
  Label = 1
  CutLoss = 1
  MaxExcerpt = 4
INVARIANT PlainOverHtml
\* A program that refuses its settings or has exported its docset stops.
CHECK_DEADLOCK FALSE
