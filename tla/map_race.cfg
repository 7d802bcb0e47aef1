SPECIFICATION Spec
CONSTANTS
  Threads = {t1, t2}
  Tools = {"auto"}
  Labels = {"a", "b"}
  LastAddress = 2
  LastOffset = 2
  LastSegment = 6
  Segments = {1}
  Para = 2
  ComPara = 1
  Matches = {8}
  MemoryMaps <- Chains
  InitialFiles <- NoFile
  MaxCalls = 2
  MaxRestarts = 0
INVARIANT NoOverlap
