CONSTANTS
  a = a
  b = b
  ea = ea
  eb = eb
  None = None
  Conns = {1, 2}
  Clients = {a, b}
  Edits = {ea, eb}
  Author <- MCAuthor
  Readers = {}
  Capacity = 1
  MaxOpen = 2
  MaxCrashes = 0
  MaxFaults = 0
  MaxSweeps = 0
  MaxIncidents = 2
SPECIFICATION Spec
INVARIANT MergesAllUpdates
SYMMETRY Swap
CHECK_DEADLOCK FALSE
