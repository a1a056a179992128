SPECIFICATION CommitsSpec
CONSTANTS
  record = record
  Resources = {record}
  TargetOf <- OneTarget
  NoCall = NoCall
  Capabilities = {v1}
  Intents = {i1, i2}
  Calls = {c1, c2}
  Classes = {"agent"}
  Arguments <- AgentInputs
  Unreliable <- AnyCall
  MaxMoves = 0
  Writes = {w1, w2}
  Keys = {k1, k2}
  Inputs = {a, b}
  NoMatch = NoMatch
  NoRow = NoRow
  NoHolder = NoHolder
SYMMETRY CommitSymmetry
CHECK_DEADLOCK FALSE
INVARIANTS CallersHearTheTruth EvidenceIsFaithful OncePerKey RepliesAreTrue
PROPERTIES IsOneShot EffectsAreDue
