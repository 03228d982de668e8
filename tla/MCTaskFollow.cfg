SPECIFICATION FairSpec
CONSTANTS
  c = c
  c2 = c2
  f = f
  s1 = s1
  s2 = s2
  Keys = {f}
  Sessions = {s1}
  Kind <- MCKind
  Provider <- MCCodex
  Target <- MCTarget
  Known <- MCKnown
  NoSession = NoSession
  NoKey = NoKey
  MaxIntents = 2
  MaxRequeues = 1
  MaxCopies = 1
  MaxCrashes = 1
  MaxMoves = 2
INVARIANTS QueueIsSafe
PROPERTIES LedgerSpec 
