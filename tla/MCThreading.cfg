SPECIFICATION FairSpec
CONSTANTS
  t1 = t1  t2 = t2  t3 = t3  m1 = m1  m2 = m2
  Thread = {t1, t2, t3}
  Mutex = {m1, m2}
  MutexOf <- MCMutexOf
  Caller = Caller
  NoOne = NoOne
INVARIANT SuccessIsFinal
PROPERTY ThreadsReturn
CHECK_DEADLOCK FALSE
