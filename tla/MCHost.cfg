SPECIFICATION Spec
CONSTANTS
  c1 = c1
  f1 = f1
  f2 = f2
  s1 = s1
  s2 = s2
  q1 = q1
  q2 = q2
  k1 = k1
  k2 = k2
  Creates = {c1}
  FollowUps = {f1, f2}
  Found = {s1}
  Fresh = {s2}
  Claude = {s2}
  Nowhere = Nowhere
  Nobody = Nobody
  Asks = {q1, q2}
  Safe = {q2}
  Keys = {k1, k2}
  Target <- AboutFirst
  MaxRestarts = 1
INVARIANTS FollowUpsTakeTurns RowsTellTheTruth
CHECK_DEADLOCK FALSE
