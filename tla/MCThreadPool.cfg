\* Two workers, two slots, three connections whose clients send whole requests, close
\* inside the headers or reset, and a descriptor table that can fill up.  Liveness, so
\* no symmetry.  The server idles when the clients are done.
CONSTANTS
  Main = Main
  w1 = w1
  w2 = w2
  None = None
  Src = Src
  Workers <- TwoWorkers
  Kinds <- AnyRequest
  Resets = TRUE
  NConns = 3
  NFds = 4
  N = 2
SPECIFICATION FairSpec
INVARIANTS
  IInv
  FdOwnership
PROPERTIES
  IsWebServer
  EveryConnectionEnds
CHECK_DEADLOCK FALSE
