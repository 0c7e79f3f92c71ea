SPECIFICATION FairSpec
CONSTANTS
  p1 = p1  p2 = p2  f1 = f1  f2 = f2
  Proc = {p1, p2}
  File = {f1}
  FileOf <- SharedFile
  Ops <- Everything
  NoOne = NoOne
  NoRead = NoRead
  MaxOps = 2
  SizeMod = 256
  Byte <- MCByte
  NewLine = "n"
  Chunk <- OneChunk
  Count = {1}
  Offset = {0}
  SeekTo <- OneSeekTo
  MaxAccepted = 1
  MaxLive = 1
PROPERTY CallsReturn
