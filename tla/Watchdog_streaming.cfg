SPECIFICATION LiveSpec
CONSTANTS
  Wd = wd
  wd = wd
  u = u
  Client = {wd, u}
  None = None
  Service <- Streaming
  Key <- StreamingKeys
  Command <- StreamingAll
  Asked <- StreamingCommands
  Stubborn <- Nothing
  Mortal <- RtspOnly
  MaxEvents = 2
  Period = 3
PROPERTY
  Converges
