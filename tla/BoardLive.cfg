CONSTANTS
  Documents <- OneDocument
  NoDocument = NoDocument
  MaxHomes = 1
  MaxResults = 1
  MaxAsked = 2
  MaxBinds = 2
  MaxDetails = 2
SPECIFICATION FairSpec
INVARIANT DetailsServed
PROPERTY MatchIsShown
