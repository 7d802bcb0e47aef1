SPECIFICATION Spec
CONSTANTS
  Threads = {t1, t2}
  Ops = {"call", "connect", "disconnect"}
  MaxCalls = 2
  MaxIncarnation = 2
  MaxToken = 3
  Faults = {"crash", "rotate", "loss"}
  StartAttached = FALSE
  TokenlessAllowed = FALSE
  Open = {}
  Legacy = {}
  Enabled = {1}
  Incompatible = {}
SYMMETRY Symmetry
INVARIANT TypeOK
INVARIANT LockHeldExactlyInside
INVARIANT OutcomeTruthful
INVARIANT ClientIsLatest
INVARIANT ClosedOnlyWhileDetaching
INVARIANT TearsDownOnlyRefused
PROPERTY ImplementsToolCall
