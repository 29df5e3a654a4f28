\* Requests of up to four lines, whole or cut short; files change, clients leave.
\* doit returns or exits, and the model stops.
CONSTANTS
  Requests <- Short
  FilesChange = TRUE
  ClientsLeave = TRUE
SPECIFICATION FairRequestSpec
INVARIANTS
  RequestTypeOK
  RightReply
  ExitsForCause
PROPERTY
  WholeRequestsEnd
CHECK_DEADLOCK FALSE
