CONSTANTS
  own = own
  listener = listener
  get1 = get1
  get2 = get2
  None = None
  Purge = Purge
  Docs = {own}
  Readers = {get1, get2}
  Gets = {get1, get2}
  DocOf <- OwnReads
  Deletions = {0}
  MaxVersion = 1
  MaxBreaks = 0
  MaxStale = 0
SPECIFICATION Spec
CHECK_DEADLOCK FALSE
INVARIANT CurrentIsCaughtUp
