CONSTANTS
  Transports = {"UCX"}
  Accepts = {}
  Connects = {"c"}
  MaxMsgs = 1
  MaxReady = 1
SPECIFICATION FairSpec
PROPERTY NoLostWakeup
