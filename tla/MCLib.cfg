CONSTANTS
  a = a
  b = b
  Byte = {a, b}
  Data <- MCData
  Capacity = 4
  IndexRange = 16
  InitIndex = 13
  MaxData = 5
  AGAIN = AGAIN
  INVAL = INVAL
  CharBits = 3
  ShortBits = 5
  IntBits = 8
  LongLongBits = 13
  NoLimit = 100
  Room = 16
  Separator = " "
  Cut = "cut"
  MaxArgs = 3
  Prints <- MCPrints
  Scans <- MCScans
  Lines <- MCLines
SPECIFICATION LibSpec
CHECK_DEADLOCK FALSE
INVARIANTS PrintsStandard ReadsBack CountsResults ScansNumbers ArgsAreWords
PROPERTY ImplementsFifo
