SPECIFICATION Spec
CONSTANTS
  p1 = p1  p2 = p2  f1 = f1  f2 = f2
  Proc = {p1, p2}
  File = {f1, f2}
  FileOf <- OwnFiles
  Ops <- Writers
  NoOne = NoOne
  NoRead = NoRead
  MaxOps = 2
  SizeMod = 256
  Byte <- MCByte
  NewLine = "n"
  Chunk <- MixedChunk
  Count <- MCCount
  Offset <- MCOffset
  SeekTo <- MCSeekTo
  MaxAccepted = 4
  MaxLive = 4
INVARIANTS TypeOK WriteFits CommandsComplete HoldsNewest PointersLive
