\* Three connections with requests of every kind.  Three children and CGI programs fit:
\* both the parent's fork and a child's own may fail.  The server idles when the clients
\* are done.
CONSTANTS
  NConns = 3
  NProcs = 3
  Kinds <- AllKinds
SPECIFICATION FairSpec
PROPERTIES
  IsWebServer
  ZombiesAreReaped
  EveryConnectionEnds
CHECK_DEADLOCK FALSE
