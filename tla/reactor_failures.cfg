CONSTANTS
  Model <- MCModel
  Wants <- MCWants
  StreamFacts <- MCStreamFacts
  Sinks <- MCSolo
  Streams = {ticker}
  Inserts = {"x"}
  solo = solo
  pair = pair
  also = also
  ticker = ticker
  None = None
  Flush = Flush
  CommandBuffer = 1
  StreamBuffer = 0
  SinkBuffer = 1
  EventBuffer = 0
  MaxCopies = 1
  MaxCalls = 3
  SingleThread = FALSE
  Cancels = TRUE
  Crashes = TRUE
SPECIFICATION Spec
CHECK_DEADLOCK FALSE
INVARIANT DiesOfPeers
PROPERTY CallsReturn
PROPERTY InsertsReachSinks
PROPERTY StreamsAreEvaluated
