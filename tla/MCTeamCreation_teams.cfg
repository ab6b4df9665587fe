CONSTANTS
  a = a  b = b  c = c
  ta = ta  tb = tb  tc = tc  ta2 = ta2
  x = x  y = y  z = z
  NoProc = NoProc
  Proc = {a, b, c}
  Team = {x, y, z}
  Thread = {ta, tb, tc}
  Host <- Hosts
  Root <- Roots
  Ordering <- Orderings
  Misconfigured <- Bad
  Program <- Calls
  Failures = TRUE
SPECIFICATION FairSpec
INVARIANTS TypeOK GroupComplete
PROPERTY CompleteTeamCreated
