CONSTANTS
  Keys = {alice}
  Tokens = {alice}
  NoKey = NoKey
  NoRecord = NoRecord
  Flows = {f1}
  Loops = {l1}
  Clears = {c1}
  Requests = {r1}
  DirectAccounts = {}
  Given = {}
  SignOutWith = {FALSE}
  MaxFatal = 1
  None = None
SPECIFICATION FairSpec
PROPERTIES PollerTerminates DegradeIsShown NoSweepInGrace
