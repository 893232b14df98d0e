SPECIFICATION FairSpec
CONSTANTS
  ReadBufferSize = 2
  WriteBufferSize = 2
  SerialSize = 5
  MaxSend = 1
  Margin = 1
  Chunk = 1
  Scenarios <- HttpOnSim7x00
PROPERTIES
  SessionEnds
