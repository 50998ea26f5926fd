SPECIFICATION Spec
CONSTANTS
  Jobs = {j1}
  ChatJobs = {}
  Runs = {r1}
  Ctls = {c1}
  None = None
  MaxCalls = 0
  MaxCrashes = 0
CHECK_DEADLOCK FALSE
PROPERTIES PausedStaysPaused
