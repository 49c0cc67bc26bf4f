CONSTANTS
  Accounts = {a1}
  NoAccount = NoAccount
  CallIds = {c1, c2}
  MaxQueue = 2
  MaxFaults = 1
  MaxEpoch = 1
SPECIFICATION FairSpec
PROPERTIES
  VerifiedLeavesVerification
  SessionLeavesRegistration
