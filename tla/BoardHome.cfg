CONSTANTS
  Documents <- SomeDocuments
  NoDocument = NoDocument
  MaxHomes = 2
  MaxResults = 1
  MaxAsked = 2
  MaxBinds = 1
  MaxDetails = 1
SPECIFICATION Spec
INVARIANTS
  TablesInBounds
  HomeShowsVacancies
  NotifiedAfterSnapshot
