SPECIFICATION Spec
CONSTANTS
  Threads = {t1, t2}
  Ops = {"call"}
  MaxCalls = 2
  MaxIncarnation = 1
  MaxToken = 3
  Faults = {"rotate"}
  StartAttached = TRUE
  TokenlessAllowed = FALSE
  Open = {}
  Legacy = {}
  Enabled = {1}
  Incompatible = {}
SYMMETRY Symmetry
INVARIANT NoSpuriousRestart
