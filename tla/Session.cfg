CONSTANTS
  Accounts = {a1, a2}
  NoAccount = NoAccount
  CallIds = {c1, c2}
  MaxQueue = 3
  MaxFaults = 1
  MaxEpoch = 2
SPECIFICATION Spec
SYMMETRY Symmetry
VIEW View
INVARIANTS
  TypeOK
  ListenerCatchesUp
  VerificationShowsCurrent
  RelaunchResumesSession
  BelievedVerifiedIsVerified
  TrapsOnlyAfterRefusal
PROPERTIES
  SessionEndsOnlyByRefusal
  AccountLifeRefined
