SPECIFICATION Spec
CONSTANTS
  Jobs = {j1,j2}
  ChatJobs = {}
  Runs = {r1,r2}
  Ctls = {}
  None = None
  MaxCalls = 1
  MaxCrashes = 1
CHECK_DEADLOCK FALSE
SYMMETRY Symmetry
INVARIANTS CheckpointBacked
PROPERTIES FinishedStays RecoveryPauses
