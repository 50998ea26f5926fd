SPECIFICATION FairSpec
CONSTANTS
  c1 = c1
  c2 = c2
  l1 = l1
  l2 = l2
  l3 = l3
  s1 = s1
  Calls = {c1,c2}
  Locals = {}
  Scripts = {}
  Author <- MCAuthor
  None = None
  MaxTurns = 3
  MaxOps = 1
  MaxStops = 1
CHECK_DEADLOCK FALSE
INVARIANTS AnswersAreMeant RequestIsShown
PROPERTIES AsksEnd DialogCloses
