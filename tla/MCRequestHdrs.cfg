\* Clients that close their side inside the headers.
CONSTANTS
  Requests <- Short
  FilesChange = FALSE
  ClientsLeave = FALSE
SPECIFICATION FairRequestSpec
PROPERTY
  EveryRequestEnds
CHECK_DEADLOCK FALSE
