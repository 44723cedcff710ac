CONSTANTS
  Nodes = {"a", "b", "c"}
  None = None
  TimestampMod = 65536
  MaxEpoch = 2
  MaxInput = 2
  Ast <- LateAst
  Programs <- LatePrograms
  Facts <- LateFacts
  Relations <- LateRelations
SPECIFICATION Spec
CHECK_DEADLOCK FALSE
INVARIANT GroundFactsKnown
