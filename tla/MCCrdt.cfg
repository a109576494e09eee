CONSTANTS
  a = a
  b = b
  ea = ea
  eb = eb
  None = None
  Conns = {1, 2, 3}
  Clients = {a, b}
  Edits = {ea, eb}
  Author <- MCAuthor
  Readers = {}
  Capacity = 1
  MaxOpen = 2
  MaxCrashes = 1
  MaxFaults = 0
  MaxSweeps = 1
  MaxIncidents = 4
SPECIFICATION Spec
INVARIANTS AckedStored OneLiveDoc InitializesAlone Converged NothingLeft
SYMMETRY Swap
CHECK_DEADLOCK FALSE
