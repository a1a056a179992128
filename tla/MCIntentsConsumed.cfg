SPECIFICATION Spec
CONSTANTS
  record = record
  Resources = {record}
  TargetOf <- OneTarget
  NoCall = NoCall
  Capabilities = {v1}
  Intents = {i1}
  Calls = {c1, c2}
  Classes = {"agent"}
  Arguments <- AgentInputs
  Unreliable = {}
  MaxMoves = 0
INVARIANTS
  ConsumedIsUnapplied
