SPECIFICATION FairSpec
CONSTANTS
  NewLine = nl
  Letter = a
  Char <- MCChar
  Texts <- MCTexts
  ReadSize = 2
  WriteSize = 2
  Platforms = {TRUE, FALSE}
  Budgets <- MCBudgets
  MaxChunk = 2
  SizeModulus = 16
  LinesModulus = 8
INVARIANTS
  TypeOK
  ReceiveFifo
  TransmitFifo
  LinesCounted
  WholeLine
  NoStalePull
  NoLostWakeup
  ProcessedIsSent
PROPERTIES
  TransmitDrains
