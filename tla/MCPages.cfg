SPECIFICATION PageSpec
CONSTANTS
  Devices = {d1, d2}
  Kinds <- AllKinds
  MaxSets = 2
  MaxLosses = 1
  MaxAsks = 1
  MaxPosts = 3
  PostKinds <- TwoKinds
  MaxMade = 3
  MaxOut = 1
  MaxGap = 1
  Window = 1
  SaidKinds = {"result"}
  EventKinds = {"instruction", "completed", "other"}
  Turns = {u1}
  NoTurn = NoTurn
  Texts = {"x"}
  Gaps = {1, 4}
  Nearby = 1
  Reach = 3
  MaxThings = 3
  MaxCuts = 1
  m1 = m1
  m2 = m2
  t1 = t1
  Macs = {m1, m2}
  Things = {t1, c2}
  OwnerOf <- TwoOwners
  Failed = {c2}
  Old = {}
  MaxActs = 1
  MaxTurns = 1
  Forms = {p1, p2}
  Addresses = {a1}
  MaxSubmits = 2
INVARIANTS PagesAreHonest  MacsStayApart ToldIsListed
PROPERTIES OwnOrder  
CHECK_DEADLOCK FALSE
