SPECIFICATION PartsSpec
CONSTANTS
  Agents = {a1, a2}
  Features <- AllFeatures
  DefaultTimeout = 3
  Slack = 1
  MaxRestarts = 1
  ScriptWrites = {7}
  ScriptReach = {"mount"}
  Scenarios <- AllScenarios
  Threads = {t1, t2}
  MaxSymbols = 2
  MaxSymbolDistance = 3
  Pastes <- GhidraPastes
  Queries <- GhidraQueries
  MaxJobs = 3
  ToolThreads = {t1, t2}
  CliProcesses = {c1}
  ToolChanges <- BridgeSetups
  CliChanges <- SetupCommands
  HumanFiles <- EditedFiles
  MaxSaves = 3
  Lines <- EngineLines
  MaxLines = 3
  MaxLineBytes = 5
  MaxTotalBytes = 8
  Mark = 1
  MaxPrinted = 4
  MaxEngines = 2
  BridgeProtocol <- OnePointTwo
  Infos <- EngineInfos
  Pins <- SomePins
  MaxAttaches = 2
INVARIANT PartsTypeOK
INVARIANT ModeConfines
INVARIANT NoLostUpdate
INVARIANT MixedAnswerIsReported
INVARIANT CutOffOnlyByFault
INVARIANT LookupSound
INVARIANT LoadIsExact
INVARIANT CapHeld
INVARIANT ProtectedAreHuman
INVARIANT FileIsWhole
INVARIANT RingIsLongestSuffix
INVARIANT LogIsOwn
INVARIANT NegotiatesHighestCommon
PROPERTY DeleteOnlyNamed
PROPERTY RewriteKeepsOthers
PROPERTY EveryCallReturns
