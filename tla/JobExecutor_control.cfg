SPECIFICATION Spec
CONSTANTS
  Jobs = {j1}
  ChatJobs = {j1}
  Runs = {r1}
  Ctls = {c1,c2}
  None = None
  MaxCalls = 1
  MaxCrashes = 1
CHECK_DEADLOCK FALSE
SYMMETRY Symmetry
INVARIANTS TypeOK SlotHasOwner CompletedIsBacked
