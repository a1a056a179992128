SPECIFICATION Spec
CONSTANTS
  Staff = {a, b}
  Commands = {c1, c2}
  MaxCommands = 3
  MaxMoves = 1
SYMMETRY Alike
CHECK_DEADLOCK FALSE
INVARIANT AuthorityDoesNotDeadlock
PROPERTIES AuthorityLastsToTheCommit LastWriterStays
