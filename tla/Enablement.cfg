SPECIFICATION FairSpec
CONSTANTS
  Calls = {c1, c2}
  Hosts = {h}
  Providers = {p}
  Scopes = {p, other}
  Capabilities = {a}
  NoCall = NoCall
  MaxMoves = 1
  MaxFailures = 1
CHECK_DEADLOCK FALSE
INVARIANT EnablesInFull
PROPERTIES OthersChoicesStay RepeatsFinish
