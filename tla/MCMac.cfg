SPECIFICATION MacSpec
CONSTANTS
  Starts = {s1, s2}
  NoOne = NoOne
  MaxTries = 4
  MaxReused = 1
  Prompt = TRUE
  Jobs = {j1, j2}
  j1 = j1
  Lineups <- TwoKinds
  Serial = TRUE
  Sound = TRUE
  f1 = f1
  Files = {f1}
  Tasks = {t1}
  Of <- FirstFile
  Slots = {1, 2}
  MaxDrops = 1
  MaxRestarts = 1
  Views = {v1, v2}
  Entries = {e1, e2}
  NoEntry = NoEntry
  Limit = 1
  Places = {a, b, w}
  Temporary = {w}
  Root <- OwnTops
  Repo <- OneRepo
  NoRepo = NoRepo
  Nowhere = Nowhere
  Remote = {a, b, w}
  Sessions = {s1}
  Notes = {n1}
  Orders = {o1}
  MaxProjects = 2
  MaxFailures = 1
  MaxProjectRestarts = 1
  Rows = {x1, x2}
  MaxDowngrades = 2
  MaxDeaths = 2
INVARIANTS  MaterialsAreKept ProjectsAreWhole 
  
CHECK_DEADLOCK FALSE
