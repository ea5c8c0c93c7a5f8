CONSTANTS
  Keys = {alice, bob}
  Tokens = {alice, bob}
  NoKey = NoKey
  NoRecord = NoRecord
  Flows = {f1}
  Loops = {l1, l2}
  Clears = {c1}
  Requests = {}
  DirectAccounts = {bob}
  Given = {alice}
  SignOutWith = {FALSE}
  MaxFatal = 2
  None = None
SPECIFICATION Spec
SYMMETRY Symmetry
INVARIANTS SessionInvariant EscalatesOnlyWhenPersistent SignedInIsBacked
PROPERTIES AbortedFlowIsSilent AbandonedFlowResumes
