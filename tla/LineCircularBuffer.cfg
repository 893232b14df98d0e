SPECIFICATION Spec
CONSTANTS
  NewLine = nl
  Char = {nl, a}
  BufferSize = 3
  MaxChunk = 4
  SizeModulus = 16
  LinesModulus = 8
INVARIANT TypeOK LinesCounted
PROPERTY ImplementsFifo
