SPECIFICATION ServerFairSpec
CONSTANTS
  c1 = c1  c2 = c2
  Conn = {c1, c2}
  Stream <- OneEach
  Byte <- MCByte
  NewLine = "n"
  Nul = "0"
  SeekMark = "s"
  BufSize = 2
  Block = 2
  UseDevice = FALSE
  MaxOps = 1
  Before <- EmptyFile
  Stamp <- MCStamp
  MaxStamps = 0
  Timer = Timer
  NoOne = NoOne
  NoNode = NoNode
INVARIANTS ServerTypeOK JoinsDefined SocketOutlivesThread ReapsAll ExitsAfterThreads
PROPERTIES OwnCommandReplied ShutdownEnds
CHECK_DEADLOCK FALSE
