SPECIFICATION FairSpec
CONSTANTS
  a1 = a1  a2 = a2  b1 = b1  ta = ta  tb = tb
  Call = {a1, a2, b1}
  Caller = {ta, tb}
  By <- MCBy
  NoCall = NoCall
INVARIANTS OwnResult ChildrenReaped SuccessesMatch FileClosed
PROPERTY CallsReturn
CHECK_DEADLOCK FALSE
