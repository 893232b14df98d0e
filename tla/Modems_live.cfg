SPECIFICATION FairSpec
CONSTANTS
  ReadBufferSize = 2
  WriteBufferSize = 2
  SerialSize = 5
  MaxSend = 1
  Margin = 1
  Chunk = 1
  Scenarios <- LiveScenarios
PROPERTIES
  ErrorRecovers
  DisconnectCompletes
  DataFetched
  CloseNoticed
  SessionEnds
