SPECIFICATION FairSpec
CONSTANTS
  a1 = a1
  t1 = t1
  k1 = k1
  k2 = k2
  Nobody = Nobody
  Agents = {a1}
  Tasks = {t1}
  Keys = {k1, k2}
  Kinds = {"progress", "failure"}
  States = {"failed", "completed"}
  MaxPosts = 2
  MaxTurns = 1
  MaxRestarts = 1
INVARIANT FeedIsCalm
PROPERTY FailureIsHeard
