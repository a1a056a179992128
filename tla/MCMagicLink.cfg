SPECIFICATION Spec
CONSTANTS
  Requests = {r1, r2}
  Posts = {p1, p2}
  Users = {u1, u2}
  Nobody = Nobody
  NoRequest = NoRequest
  Limit = 1
  Tries = 2
  MaxCommands = 2
SYMMETRY MCSymmetry
CHECK_DEADLOCK FALSE
INVARIANTS LimitHolds SessionsRestOnTheLiving OneSessionPerRequest
PROPERTIES SignsInTheAdmitted DeadLinksStayDead
