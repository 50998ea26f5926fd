SPECIFICATION Spec
CONSTANTS
  c1 = c1
  c2 = c2
  l1 = l1
  l2 = l2
  l3 = l3
  s1 = s1
  Calls = {c1}
  Locals = {l1,l2,l3}
  Scripts = {s1}
  Author <- MCAuthor
  None = None
  MaxTurns = 3
  MaxOps = 2
  MaxStops = 0
CHECK_DEADLOCK FALSE
INVARIANTS TypeOK
PROPERTIES ImplementsConsent
