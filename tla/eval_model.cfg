CONSTANTS
  Nodes = {"a", "b", "c"}
  None = None
  TimestampMod = 65536
  MaxEpoch = 3
  MaxInput = 2
  Ast <- ModelAst
  Programs <- ModelPrograms
  Facts <- ModelFacts
  Relations <- ModelRelations
SPECIFICATION Spec
CHECK_DEADLOCK FALSE
INVARIANT TypeOK
INVARIANT FixpointIsModel
INVARIANT FirstEpochIsModel
INVARIANT ClosedUnderRules
INVARIANT SupportedByRules
INVARIANT ScratchIsEmpty
INVARIANT EmittedIsDerived
INVARIANT EmittedInOneEpoch
INVARIANT EmittedAtMostTwice
INVARIANT NoFault
INVARIANT EpochStartsClean
INVARIANT NoSelfLock
PROPERTY TotalGrows
