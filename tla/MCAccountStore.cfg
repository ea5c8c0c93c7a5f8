\* One helper in flight at a time, crashes and write failures anywhere.
CONSTANTS
  Keys = {alice, bob}
  Tokens = {t1, t2}
  NoKey = NoKey
  NoRecord = NoRecord
  NoToken = NoToken
  NoFile = NoFile
  Torn = Torn
  Ops = {p1}
SPECIFICATION StoreSpec
INVARIANTS StoreInvariant NeverTorn SignOutSticks
PROPERTIES CredentialKept ImplementsAtomic
