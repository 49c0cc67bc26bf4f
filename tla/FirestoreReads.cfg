CONSTANTS
  own = own
  listener = listener
  get1 = get1
  get2 = get2
  None = None
  Purge = Purge
  Docs = {own}
  Readers = {listener, get1}
  Gets = {get1}
  DocOf <- OwnReads
  Deletions = {1}
  MaxVersion = 2
  MaxBreaks = 1
  MaxStale = 1
SPECIFICATION Spec
CHECK_DEADLOCK FALSE
INVARIANTS
  TypeOK
  NoAssertFails
  OnlineStateFollowsStream
  StreamServesTargets
  TablesAgree
  NothingLeftWatched
  AnswersCounted
PROPERTIES
  CachedOnlyOffline
  ReadsRefined
  ConnectionRefined
