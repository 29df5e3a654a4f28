\* One worker and one request for a CGI program.
CONSTANTS
  Main = Main
  w1 = w1
  w2 = w2
  None = None
  Src = Src
  Workers <- OneWorker
  Kinds <- OnlyDynamic
  Resets = FALSE
  NConns = 1
  NFds = 4
  N = 2
SPECIFICATION Spec
INVARIANT
  SurvivesChildren
CHECK_DEADLOCK FALSE
