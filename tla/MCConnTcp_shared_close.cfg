CONSTANTS
  Handle = {h1, h2}
  NoHandle = NoHandle
  User = {u1, u2}
  NoUser = NoUser
  Thread = {t1, t2}
  MaxFd = 1
  MaxMsg = 0
  MaxListen = 1
  ListenFirst = TRUE
  Shared = TRUE
  Crashes = FALSE
  BlockFlags = {}
SPECIFICATION Spec
PROPERTY CloseOwnFd
