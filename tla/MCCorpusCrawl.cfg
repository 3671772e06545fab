SPECIFICATION LiveSpec
CONSTANTS
  n1 = n1
  n2 = n2
  n3 = n3
  Nodes = {n1, n2, n3}
  Paths = {1, 2, 3}
  Home <- MCHome
  Limits = {0, 3}
  MaxLimit = 2
  Unextracted = Unextracted
  MaxClock = 3
  MaxEdits = 2
INVARIANTS TypeOK ItemsOfOneState CurrentOrDue
PROPERTIES CrawlAdvances EventuallyIndexed
CHECK_DEADLOCK FALSE
