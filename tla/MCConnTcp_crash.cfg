CONSTANTS
  Handle = {h1, h2}
  NoHandle = NoHandle
  User = {u1}
  NoUser = NoUser
  Thread = {t1}
  MaxFd = 1
  MaxMsg = 1
  MaxListen = 1
  ListenFirst = TRUE
  Shared = FALSE
  Crashes = TRUE
  BlockFlags = {FALSE, TRUE}
SPECIFICATION Spec
SYMMETRY Symmetry
INVARIANTS TypeOK NoDangling TableConsistent EosThenFin
PROPERTY CloseOwnFd
