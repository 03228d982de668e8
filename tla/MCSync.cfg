SPECIFICATION FairSpec
CONSTANTS
  i1 = i1
  i2 = i2
  x = x
  y = y
  Items = {i1}
  Texts = {x}
  Routes = {"local", "cloud"}
  Invalids = TRUE
  MaxWrites = 1
  MaxLinks = 2
  MaxCommands = 1
  MaxLosses = 1
INVARIANTS ReplicaFollows
  
CHECK_DEADLOCK FALSE
