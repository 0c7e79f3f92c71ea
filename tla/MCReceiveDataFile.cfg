SPECIFICATION FairSpec
CONSTANTS
  c1 = c1  c2 = c2  c3 = c3
  Conn = {c1, c2}
  Stream <- TwoClients
  Byte <- MCByte
  NewLine = "n"
  Nul = "0"
  SeekMark = "s"
  BufSize = 2
  Block = 1
  UseDevice = FALSE
  MaxOps = 2
  Before <- EarlierRun
  Stamp <- MCStamp
  MaxStamps = 1
  Timer = Timer
  NoOne = NoOne
PROPERTIES OwnCommandReplied Served
CHECK_DEADLOCK FALSE
