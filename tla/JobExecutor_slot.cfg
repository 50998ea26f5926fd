SPECIFICATION FairSpec
CONSTANTS
  Jobs = {j1,j2}
  ChatJobs = {}
  Runs = {r1,r2}
  Ctls = {}
  None = None
  MaxCalls = 0
  MaxCrashes = 1
CHECK_DEADLOCK FALSE
PROPERTIES SlotFreed
