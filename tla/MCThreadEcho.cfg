\* Three clients, fewer descriptors, every way to leave.  The server idles when the
\* clients are done, and stops when it is killed.
CONSTANTS
  NConns = 3
  NFds = 2
  Leaves <- Both
SPECIFICATION FairSpec
INVARIANTS
  NeverEarlier
  LostToTwin
  LeaksForCause
PROPERTY
  ThreadsEnd
CHECK_DEADLOCK FALSE
