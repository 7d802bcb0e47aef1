SPECIFICATION FairSpec
CONSTANTS
  Threads = {t1, t2}
  MaxCalls = 3
  Faults = {"policy", "spawn", "exit", "deadline"}
  Foreign = "in_file"
INVARIANT TypeOK
PROPERTY NeverReplacesRunning
PROPERTY EveryOperationReturns
