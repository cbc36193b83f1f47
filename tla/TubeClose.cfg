SPECIFICATION TubesOnly
CONSTANTS
  MaxDesc = 2
  MaxCand = 2
  Worlds <- CallWorlds
  MaxContents = 3
  Settings <- MediaSettings
  CallContents = {1, 2, 3}
  CallSettings <- CallScenes
  TubeScenes <- StreamScenes
  Connections = {1, 2}
  BusScenes <- DBusScenes
  HeaderSize = 2
  MaxQueue = 6
  MaxMessage = 100
  Members = {"m1", "m2"}
INVARIANTS
  TubesClosedTogether
CHECK_DEADLOCK FALSE
