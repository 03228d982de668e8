SPECIFICATION FairSpec
CONSTANTS
  h = h
  a = a
  p = p
  k1 = k1
  k2 = k2
  c1 = c1
  c2 = c2
  Hooks = {h}
  Asks = {p}
  Safe = {p}
  Keys = {k1, k2}
  Target <- TargetHook
  Acceptable = {k1, k2}
  MaxSends = 1
  MaxRestarts = 1
  Conns = {c1}
 
PROPERTIES PromiseSpec WaitersHear
CHECK_DEADLOCK FALSE
