CONSTANTS
  Hosts <- MCHosts
  ProductionPort = 1
  Ports = {1, 2}
  Preferred = {2}
  Overlap = FALSE
  MaxGen = 3
  MaxAsks = 1
  MaxRaces = 1
SPECIFICATION Spec
INVARIANTS ShellInvariant RestartKeepsApp
PROPERTIES PortNeverMoves StartingResolves
CHECK_DEADLOCK FALSE
