SPECIFICATION PolicySpec
CONSTANTS
  Users = {a, b}
  Commands = {c1, c2}
  MaxCommands = 2
  Scopes = {openid, email, read}
  IdentityScopes = {openid, email}
  MaxChanges = 2
SYMMETRY Alike
CHECK_DEADLOCK FALSE
INVARIANTS TypeOK NothingOutlives OnlyErasuresDeadlock
  IssuedIsEntitled CodesAreExchangeable ExplanationIsExact
PROPERTIES AudienceIsExact ChangesBuildOnWhatWasRead
