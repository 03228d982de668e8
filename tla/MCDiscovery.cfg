SPECIFICATION DiscoveryFairSpec
CONSTANTS
  t = t
  Files = {t}
  Provider <- MCProvider
  LastPid = 2
  SessionOf <- MCSessionOf
  Evidence <- MCEvidence
  Bearing = {1}
  Text <- MCText
  Told <- MCTold
  LineSize = 1
  Chunk = 1
  MaxLines = 2
  MaxRotations = 1
  MaxReads = 1
  MaxHooks = 1
  MaxStarts = 1
INVARIANTS FreeToReply
PROPERTY ProcessesAreFollowed
