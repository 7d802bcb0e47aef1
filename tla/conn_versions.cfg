SPECIFICATION FairSpec
CONSTANTS
  Threads = {t1, t2}
  Ops = {"call"}
  MaxCalls = 2
  MaxIncarnation = 4
  MaxToken = 4
  Faults = {"crash"}
  StartAttached = TRUE
  TokenlessAllowed = TRUE
  Open = {3}
  Legacy = {2}
  Enabled = {1}
  Incompatible = {4}
INVARIANT ReplayStaysOnInstance
PROPERTY EveryOperationReturns
