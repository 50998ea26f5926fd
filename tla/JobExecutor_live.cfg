SPECIFICATION FairSpec
CONSTANTS
  Jobs = {j1}
  ChatJobs = {}
  Runs = {r1}
  Ctls = {c1}
  None = None
  MaxCalls = 1
  MaxCrashes = 1
CHECK_DEADLOCK FALSE
PROPERTIES RequestsEnd
