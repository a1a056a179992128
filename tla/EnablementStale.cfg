SPECIFICATION FairSpec
CONSTANTS
  Calls = {c1, c2}
  Hosts = {h}
  Providers = {p}
  Scopes = {p, other}
  Capabilities = {a}
  NoCall = NoCall
  MaxMoves = 0
  MaxFailures = 0
CHECK_DEADLOCK FALSE
PROPERTY NewStaysOff
