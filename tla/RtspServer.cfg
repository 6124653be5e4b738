SPECIFICATION RtspSpec
CONSTANTS
  c1 = c1
  c2 = c2
  file = file
  stream = stream
  Client = {c1, c2}
  Player = {file, stream}
  Stream = {stream}
  Blocks = 1
  Server = Server
  None = None
  Room = 5
  PipeMax = 3
  AacFrame = 2
  AacMax = 2
  AacSizes = {0, 1, 3}
  AacCap = 4
INVARIANTS
  OneVoice
  BusyIsLock
  SoundIntact
  ALawInverted
  StreamsMatch
PROPERTIES
  StopEndsPlayback
  FreedWhenUnused
  Served
