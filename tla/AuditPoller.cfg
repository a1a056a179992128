SPECIFICATION FairSpec
CONSTANTS
  MaxEvents = 4
  Subjects = {anOrganisation}
  Nothing = Nothing
  PageSize = 2
INVARIANT NothingIsSkipped
PROPERTY EveryChangeIsTold
