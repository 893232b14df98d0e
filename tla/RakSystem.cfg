SPECIFICATION FairSpec
CONSTANTS
  BufferSize = 3
  SizeModulus = 16
  PacketSizes <- Sizes
  SerialRoom = 2
  Message = 2
  Scenarios <- AllScenarios
INVARIANTS
  ResendHasRoom
  NoGap
  ProcessedIsHeard
PROPERTIES
  ConnectJoins
  WrittenIsProcessed
