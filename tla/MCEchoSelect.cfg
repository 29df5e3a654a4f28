\* Three clients, and a set with bits for two of them.  The system allows two descriptors
\* for clients, and accept may fail and the server starve, or three, and FD_SET may run over
\* the set.  The server waits for clients for ever, and stops when it is killed or has run
\* over the set.
CONSTANTS
  NConns = 3
  NSlots = 3
  Listen = 0
  NFiles = 4
  Limits <- AtAndBeyondTheSet
  NMsgs = 2
SPECIFICATION FairSpec
INVARIANTS
  SlotsMatch
  LeaksForCause
  NeverBlocks
  AlwaysASlot
  HarmlessMaxi
PROPERTY
  EveryMessageAnswered
CHECK_DEADLOCK FALSE
