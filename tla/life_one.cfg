SPECIFICATION Spec
CONSTANTS
  Threads = {t1}
  MaxCalls = 5
  Faults = {"policy", "spawn", "exit", "deadline"}
  Foreign = "elsewhere"
INVARIANT FailedStartLeavesNothing
PROPERTY AttachesToItsChild
PROPERTY ImplementsManagedEngine
