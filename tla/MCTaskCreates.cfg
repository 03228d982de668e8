SPECIFICATION FairSpec
CONSTANTS
  c = c
  c2 = c2
  f = f
  s1 = s1
  s2 = s2
  Keys = {c, c2}
  Sessions = {s1}
  Kind <- MCKind
  Provider <- MCMixed
  Target <- MCTarget
  Known = {}
  NoSession = NoSession
  NoKey = NoKey
  MaxIntents = 1
  MaxRequeues = 0
  MaxCopies = 1
  MaxCrashes = 1
  MaxMoves = 0
INVARIANTS LeaseHeld
PROPERTIES CreateSettles
