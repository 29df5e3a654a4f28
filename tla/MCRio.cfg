\* Every stream of at most five bytes, a buffer of two, calls of several sizes in
\* any order.  A failed call ends the process.
CONSTANTS
  BufSize = 2
  Limits <- SmallLimits
  MaxLen = 5
SPECIFICATION FairSpec
INVARIANTS
  TypeOK
  NoByteLost
PROPERTIES
  IsLineReader
  CallsReturn
CHECK_DEADLOCK FALSE
