CONSTANTS
  Documents <- OneDocument
  NoDocument = NoDocument
  MaxHomes = 1
  MaxResults = 2
  MaxAsked = 2
  MaxBinds = 2
  MaxDetails = 0
SPECIFICATION Spec
INVARIANTS
  TypeOK
  ScoresReadOnce
  EveryNoticeServed
  MatchSettles
