SPECIFICATION Spec
CONSTANTS
  Firms = {"f", "g"}
  Users = {u, v}
  Callbacks = {c1, c2, c3}
  Identities = {"one", "two", "also"}
  People = {"p", "q"}
  Home <- MCHome
  Person <- MCPerson
  Nobody = nobody
  MaxMoves = 2
SYMMETRY Alike
CHECK_DEADLOCK FALSE
INVARIANTS TypeOK SessionsAreTheirs
PROPERTIES BindingsAreProved SessionsStandWhenMade
