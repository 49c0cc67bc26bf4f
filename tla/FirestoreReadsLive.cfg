CONSTANTS
  own = own
  listener = listener
  get1 = get1
  get2 = get2
  None = None
  Purge = Purge
  Docs = {own}
  Readers = {listener, get1}
  Gets = {get1}
  DocOf <- OwnReads
  Deletions = {1}
  MaxVersion = 2
  MaxBreaks = 0
  MaxStale = 0
SPECIFICATION FairSpec
CHECK_DEADLOCK FALSE
PROPERTIES
  GetAnswered
  ListenerConverges
