CONSTANTS
  None = None
  TimestampMod = 8
  MaxEpoch = 7
  MaxInput = 15
  Ast <- TestAst
  Programs <- TestPrograms
  Facts <- TestFacts
  Relations <- TestRelations
SPECIFICATION TestSpec
CHECK_DEADLOCK FALSE
INVARIANT TestsDerive
INVARIANT StoreAgrees
INVARIANT FirstEpochIsModel
INVARIANT AggregatesAreCurrent
PROPERTY EpochsEnd
