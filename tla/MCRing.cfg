SPECIFICATION LoopSpec
CONSTANTS
  MaxOps = 4
  SizeMod = 1
  Byte <- MCByte
  Command <- MCCommand
  CharOffset <- MCCharOffset
INVARIANTS LoopTypeOK OffsetsOK FindMatchesConcatenation NoSlotTwice LoopFindsEntry
PROPERTIES ImplementsCommandLog SearchEnds
