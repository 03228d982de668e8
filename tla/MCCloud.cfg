SPECIFICATION CloudSpec
CONSTANTS
  x = x
  y = y
  z = z
  Nobody = Nobody
  Clients = {x, y}
  MaxFaults = 2
  Conns = {x}
  MaxCommands = 2
  MaxSockets = 3
  MaxCrashes = 1
  Idle = Idle
  Devices = {z}
  MaxCalls = 1
  MaxLate = 2
  MaxRotations = 1
  MaxReboots = 1
  Settings <- MCSettings
  Tunnels = {x}
  InRoom = 1
  OutRoom = 1
  MaxFrames = 2
  MaxSaid <- MCSaid
  MaxLinks = 2
INVARIANTS PairsOneOrSaysWhy RelaysKeepOrder CredentialsWork
PROPERTIES Completes EndsAreTold  RetiredStaysOut
CHECK_DEADLOCK FALSE
