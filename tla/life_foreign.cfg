SPECIFICATION FairSpec
CONSTANTS
  Threads = {t1}
  MaxCalls = 1
  Faults = {}
  Foreign = "in_file"
PROPERTY AttachesToItsChild
