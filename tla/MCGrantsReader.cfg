SPECIFICATION Spec
CONSTANTS
  Members = {acme, globex}
  OrganisationOf <- MCOrganisationOf
  UserOf <- MCUserOf
  Calls = {c1, c2}
  Lifetime = 1
  ReadTime = 1
  Reliable = FALSE
  MaxClock = 3
  MaxChanges = 1
  MaxVersion = 2
  NoEntry = NoEntry
  NoRead = NoRead
SYMMETRY MCSymmetry
INVARIANTS EndedAccessStops CallsReadWhatTheyAreOwed
