CONSTANTS
  Handle = {h1, h2}
  NoHandle = NoHandle
  User = {u1}
  NoUser = NoUser
  Thread = {t1}
  MaxFd = 2
  MaxMsg = 0
  MaxListen = 1
  ListenFirst = TRUE
  Shared = FALSE
  Crashes = FALSE
  BlockFlags = {FALSE, TRUE}
SPECIFICATION ClosingSpec
PROPERTIES Delivered Accepted FinalizeReturns
