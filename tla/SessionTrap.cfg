CONSTANTS
  Accounts = {a1}
  NoAccount = NoAccount
  CallIds = {c1, c2}
  MaxQueue = 3
  MaxFaults = 1
  MaxEpoch = 2
SPECIFICATION Spec
SYMMETRY Symmetry
INVARIANT ReloadFindsUser
