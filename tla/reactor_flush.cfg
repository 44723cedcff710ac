CONSTANTS
  Model <- MCModel
  Wants <- MCWants
  StreamFacts <- MCStreamFacts
  Sinks <- MCSolo
  Streams = {}
  Inserts = {"x"}
  solo = solo
  pair = pair
  also = also
  ticker = ticker
  None = None
  Flush = Flush
  CommandBuffer = 1
  StreamBuffer = 1
  SinkBuffer = 1
  EventBuffer = 1
  MaxCopies = 1
  MaxCalls = 3
  SingleThread = FALSE
  Cancels = FALSE
  Crashes = FALSE
SPECIFICATION Spec
CHECK_DEADLOCK FALSE
INVARIANT FlushCoversInserts
