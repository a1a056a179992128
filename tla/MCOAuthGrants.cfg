SPECIFICATION Spec
CONSTANTS
  u1 = u1
  Users = {u1}
  Sessions = {s1}
  Flows = {f1}
  Grants = {g1, g2}
  Codes = {c1, c2}
  Tokens = {t1, t2, t3}
  Requests = {r1, r2}
  Scopes = {x1}
  None = None
  UserOf <- MCUserOf
  MaxRequests = 5
  MaxMoves = 2
SYMMETRY MCSymmetry
CHECK_DEADLOCK FALSE
INVARIANTS GrantsRestOnTheLiving OneLineOfTokens
PROPERTIES IssuesThePermitted IsDelegation
