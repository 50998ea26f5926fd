SPECIFICATION Spec
CONSTANTS
  c1 = c1
  c2 = c2
  l1 = l1
  l2 = l2
  l3 = l3
  s1 = s1
  Calls = {c1}
  Locals = {l2}
  Scripts = {s1}
  Author <- MCAuthor
  None = None
  MaxTurns = 2
  MaxOps = 1
  MaxStops = 0
CHECK_DEADLOCK FALSE
INVARIANTS ConfirmedWasShown
