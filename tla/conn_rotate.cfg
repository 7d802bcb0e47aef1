SPECIFICATION Spec
CONSTANTS
  Threads = {t1, t2, t3}
  Ops = {"gated"}
  MaxCalls = 3
  MaxIncarnation = 1
  MaxToken = 2
  Faults = {"rotate"}
  StartAttached = TRUE
  TokenlessAllowed = FALSE
  Open = {}
  Legacy = {}
  Enabled = {1}
  Incompatible = {}
SYMMETRY Symmetry
INVARIANT NoSpuriousRestart
INVARIANT WholeWhenSettled
INVARIANT FeaturesFollowClient
