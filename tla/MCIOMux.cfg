\* Three clients, of which two fit in the set; the third gets a descriptor beyond it.  The
\* server waits for clients for ever, and stops when it exits.
CONSTANTS
  NConns = 3
  NSlots = 3
  Listen = 0
  NFiles = 4
  Streams <- TwoAndOne
SPECIFICATION FairSpec
INVARIANTS
  PoolMatchesTable
  ReadyWhenServed
  NoneSkipped
  RightFirstReply
  HangsForCause
PROPERTY
  EveryClientEnds
CHECK_DEADLOCK FALSE
