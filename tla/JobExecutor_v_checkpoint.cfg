SPECIFICATION Spec
CONSTANTS
  Jobs = {j1}
  ChatJobs = {}
  Runs = {r1}
  Ctls = {}
  None = None
  MaxCalls = 1
  MaxCrashes = 0
CHECK_DEADLOCK FALSE
PROPERTIES CheckpointKept
