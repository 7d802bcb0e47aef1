SPECIFICATION Spec
CONSTANTS
  Threads = {t1}
  Tools = {"auto", "set_base"}
  Labels = {"a", "b"}
  LastAddress = 2
  LastOffset = 3
  LastSegment = 6
  Segments = {4, 7}
  Para = 2
  ComPara = 1
  Matches = {5, 6, 8, 12}
  MemoryMaps <- Chains
  InitialFiles <- Files
  MaxCalls = 2
  MaxRestarts = 1
INVARIANT TypeOK
INVARIANT NoOverlap
INVARIANT AnchorTranslates
INVARIANT AutoAnchorSound
INVARIANT TranslatesBack
PROPERTY ImplementsAddressMap
