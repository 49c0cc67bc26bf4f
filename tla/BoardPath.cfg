CONSTANTS
  Documents <- OneDocument
  NoDocument = NoDocument
  MaxHomes = 1
  MaxResults = 1
  MaxAsked = 2
  MaxBinds = 1
  MaxDetails = 1
SPECIFICATION Spec
INVARIANT DetailHasPath
