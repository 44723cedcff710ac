CONSTANTS
  Model <- MCModel
  Wants <- MCWants
  StreamFacts <- MCStreamFacts
  Sinks <- MCSinks
  Streams = {ticker}
  Inserts = {"x", "y"}
  solo = solo
  pair = pair
  also = also
  ticker = ticker
  None = None
  Flush = Flush
  CommandBuffer = 1
  StreamBuffer = 0
  SinkBuffer = 1
  EventBuffer = 1
  MaxCopies = 1
  MaxCalls = 4
  SingleThread = FALSE
  Cancels = FALSE
  Crashes = FALSE
SPECIFICATION Spec
CHECK_DEADLOCK FALSE
INVARIANT TypeOK
INVARIANT FlushBarrier
INVARIANT ChannelsBounded
