CONSTANTS
  Handle = {h1, h2}
  NoHandle = NoHandle
  User = {u1, u2}
  NoUser = NoUser
  Thread = {t1, t2}
  MaxFd = 2
  MaxMsg = 1
  MaxListen = 1
  ListenFirst = TRUE
  Shared = FALSE
  Crashes = FALSE
  BlockFlags = {}
SPECIFICATION Spec
SYMMETRY Symmetry
INVARIANTS UniqueReader RefCountExact ReadyHasData NoStaleSelect FdMaxExact
