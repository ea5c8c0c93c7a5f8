SPECIFICATION FairSpec
CONSTANTS
  Requests = {r1, r2}
  MaxGeneration = 2
  None = None
INVARIANTS RequestsInvariant OkIsDelivered
PROPERTY EveryQuestionEnds
CHECK_DEADLOCK FALSE
