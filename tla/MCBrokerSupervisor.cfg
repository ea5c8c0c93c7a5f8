CONSTANTS
  Gens = {g1, g2}
  Shapes = {s1}
  Paths = {p1, p2}
  Off = Off
  Budget = 1
  MaxChanges = 2
  Waiters = {w1}
  Again = Again
  Stop = Stop
  None = None
SPECIFICATION Spec
SYMMETRY Symmetry
INVARIANTS SupervisorInvariant LatestConfigWins
PROPERTIES StoppedForGood
CHECK_DEADLOCK FALSE
