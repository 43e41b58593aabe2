CONSTANTS
  Name <- MCName
  Bucket = {1, 2}
  Hash <- MCHash
  Char = {0, 1, 2}
  Separator = 0
  Cut = 3
  MaxArgs = 2
  Param = {"3"}
  LineMax = 3
  HistorySize = 3
  EscMax = 3
  SizeRange = 64
  MaxLines = 3
SPECIFICATION Spec
INVARIANT CompletesWord
