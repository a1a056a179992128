SPECIFICATION FairSpec
CONSTANTS
  record = record
  Resources = {record}
  TargetOf <- OneTarget
  NoCall = NoCall
  Capabilities = {v1}
  Intents = {i1}
  Calls = {c1, c2}
  Classes = {"agent", "controlled", "human"}
  Arguments <- RightInputs
  Unreliable = {c1}
  MaxMoves = 1
INVARIANTS
  AppliedAsConfirmed
PROPERTIES
  CallsEnd
  MovedIsNeverApplied
