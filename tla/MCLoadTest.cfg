\* One child with two requests, two children with one, three with none, which are more
\* than fit in the pipe, and four, which are more than the system allows; the server,
\* with limits that three connections exceed; and one other client.
CONSTANTS
  Args <- SmallTests
  PipeCap = 2
  NProcs = 3
  other = other
  Others <- OneOther
  OtherRequests <- AnyRequest
  NCells = 3
  NFds = 3
  NThreads = 2
  None = None
  Src = Src
SPECIFICATION FairSpec
INVARIANTS
  TypeOK
  PrivateDescriptor
  ReportsCounted
PROPERTIES
  IsWebServer
  EveryConnectionEnds
  TestEnds
CHECK_DEADLOCK FALSE
