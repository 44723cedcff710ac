CONSTANTS
  Nodes = {"a", "b"}
  None = None
  TimestampMod = 8
  MaxEpoch = 3
  MaxInput = 2
  Ast <- EngineAst
  Programs <- EnginePrograms
  Facts <- EngineFacts
  Relations <- EngineRelations
SPECIFICATION Spec
CHECK_DEADLOCK FALSE
PROPERTY ImplementsEngine
