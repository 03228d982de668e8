SPECIFICATION Spec
CONSTANTS
  h1 = h1
  h2 = h2
  c1 = c1
  c2 = c2
  Hosts <- OneHost
  Remote = {h1}
  Reachable <- Everywhere
  Commands <- OneCommand
  HostOf <- ToFirst
  MaxStale = 1
  MaxDrops = 1
  MaxFlips = 0
  MaxReloads = 0
INVARIANTS BrokenLinkIsRetried
CHECK_DEADLOCK FALSE
