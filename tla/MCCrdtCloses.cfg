CONSTANTS
  a = a
  b = b
  ea = ea
  eb = eb
  None = None
  Conns = {1, 2}
  Clients = {a, b}
  Edits = {ea}
  Author <- MCAuthor
  Readers = {b}
  Capacity = 1
  MaxOpen = 2
  MaxCrashes = 1
  MaxFaults = 1
  MaxSweeps = 1
  MaxIncidents = 3
SPECIFICATION FairSpec
PROPERTY ClosesEnd
CHECK_DEADLOCK FALSE
