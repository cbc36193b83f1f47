SPECIFICATION MCSpec
CONSTANTS
  MaxDesc = 2
  MaxCand = 2
  Worlds <- CallWorlds
  MaxContents = 3
  Settings <- MediaSettings
  CallContents = {1, 2, 3}
  CallSettings <- CallScenes
  TubeScenes <- StreamScenes
  Connections = {1, 2}
  BusScenes <- DBusScenes
  HeaderSize = 2
  MaxQueue = 6
  MaxMessage = 100
  Members = {"m1", "m2"}
INVARIANTS
  SessionsAgree
  MediaAsAgreed
  ChannelsTracked
  TubesSound
\* a session or channel that ended does nothing more
CHECK_DEADLOCK FALSE
