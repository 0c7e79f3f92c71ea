SPECIFICATION Spec
CONSTANTS
  c1 = c1  c2 = c2  c3 = c3
  Conn = {c1, c2, c3}
  Stream <- Commands
  Byte <- MCByte
  NewLine = "n"
  Nul = "0"
  SeekMark = "s"
  BufSize = 2
  Block = 1
  UseDevice = TRUE
  MaxOps = 2
  Before <- EarlierRun
  Stamp <- MCStamp
  MaxStamps = 0
  Timer = Timer
  NoOne = NoOne
INVARIANT CommandsFramed
PROPERTIES ReplyComplete OwnCommandReplied
CHECK_DEADLOCK FALSE
