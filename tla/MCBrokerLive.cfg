CONSTANTS
  Gens = {g1, g2}
  Shapes = {s1}
  Paths = {p1, p2}
  Off = Off
  Budget = 1
  MaxChanges = 1
  Waiters = {w1}
  Again = Again
  Stop = Stop
  None = None
SPECIFICATION FairSpec
PROPERTIES FailureIsRetried ShutdownReachesAll ChangesEnd
CHECK_DEADLOCK FALSE
