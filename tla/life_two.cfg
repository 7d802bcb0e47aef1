SPECIFICATION Spec
CONSTANTS
  Threads = {t1, t2}
  MaxCalls = 3
  Faults = {"deadline"}
  Foreign = "none"
SYMMETRY Symmetry
INVARIANT AtMostOneRunning
