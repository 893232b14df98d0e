CONSTANTS
  ReadBufferSize = 2
  WriteBufferSize = 2
  TickModulus = 6
  MaxStep = 2
  Timeouts = {2}
  MaxUp = 2
  MaxDown = 2
  Programs = {"blocking", "mqtt"}
\* blocking.cpp comes to its end.
CHECK_DEADLOCK FALSE
SPECIFICATION FairSpec
INVARIANTS TypeOK StreamIntact InTime DeadlineKept
PROPERTIES FullMeansSent CallsReturn
