SPECIFICATION FairSpec
CONSTANTS
  h1 = h1
  h2 = h2
  c1 = c1
  c2 = c2
  Hosts <- TwoHosts
  Remote = {h1}
  Reachable <- OnlyLocal
  Commands <- OneCommand
  HostOf <- ToFirst
  MaxStale = 1
  MaxDrops = 1
  MaxFlips = 2
  MaxReloads = 1
INVARIANTS  LinkIsTrue
PROPERTIES FirstConnection
CHECK_DEADLOCK FALSE
