SPECIFICATION LoopSpec
CONSTANTS
  MaxOps = 3
  SizeMod = 256
  Byte <- MCByte
  Command <- MCCommand
  CharOffset = {}
INVARIANT TotalSizeIsContent
