CONSTANTS
  a = a  b = b  c = c
  ta = ta  tb = tb  tc = tc  ta2 = ta2
  x = x  y = y  z = z
  NoProc = NoProc
  Proc = {a, b}
  Team = {x, y}
  Thread = {ta, ta2, tb}
  Host <- TwoHosts
  Root <- TwoRoots
  Ordering <- TwoOrderings
  Misconfigured <- None
  Program <- TwoCalls
  Failures = FALSE
SPECIFICATION FairSpec
PROPERTY CompleteTeamCreated
