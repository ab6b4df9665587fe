CONSTANTS
  Transports <- AllTransports
  Accepts = {"a"}
  Connects = {"c"}
  MaxMsgs = 1
  MaxReady = 1
SPECIFICATION FairSpec
INVARIANTS TypeOK SingleOwner StreamIntact
PROPERTIES FinalizeTells Reported
