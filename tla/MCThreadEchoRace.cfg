\* Two clients.
CONSTANTS
  NConns = 2
  NFds = 2
  Leaves <- Closing
SPECIFICATION Spec
INVARIANT
  PrivateInfo
CHECK_DEADLOCK FALSE
