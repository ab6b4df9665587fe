CONSTANTS
  Clients = {"k", "l"}
  Requests <- Mixed
  Config <- Components
  MaxData <- Answering
SPECIFICATION FairSpec
INVARIANTS TypeOK EndToEnd TablesAgree
PROPERTY Concluded
CHECK_DEADLOCK FALSE
