\* Five rounds through a buffer of two slots (MAX_BUF in prodcons.h), two data values.
CONSTANTS
  NLOOPS = 5
  MAX_BUF = 2
  Items = {d1, d2}
  NoItem = NoItem
SPECIFICATION FairSpec
INVARIANTS IInv FinalCount
PROPERTIES ImplementsBuffer Finishes
