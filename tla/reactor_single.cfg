CONSTANTS
  Model <- MCModel
  Wants <- MCWants
  StreamFacts <- MCStreamFacts
  Sinks <- MCThree
  Streams = {}
  Inserts = {"x", "y"}
  solo = solo
  pair = pair
  also = also
  ticker = ticker
  None = None
  Flush = Flush
  CommandBuffer = 1
  StreamBuffer = 1
  SinkBuffer = 1
  EventBuffer = 1
  MaxCopies = 2
  MaxCalls = 4
  SingleThread = TRUE
  Cancels = FALSE
  Crashes = FALSE
SPECIFICATION Spec
CHECK_DEADLOCK FALSE
INVARIANT FlushCoversInserts
INVARIANT SinkGetsAll
