SPECIFICATION LiveSpec
CONSTANTS
  p1 = p1
  p2 = p2
  p3 = p3
  Proc = {p1, p2, p3}
  None = None
  MaxAttempts = 1
  CrashPoints <- AnyPoint
INVARIANT
  MutexUnlessRobbed
PROPERTIES
  OnlyStaleSampleRobs
  LockFreedAgain
