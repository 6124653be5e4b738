SPECIFICATION LiveSpec
CONSTANTS
  Wd = wd
  wd = wd
  u = u
  Client = {wd, u}
  None = None
  Service <- Discovery
  Key <- DiscoveryKeys
  Command <- DiscoveryAll
  Asked <- DiscoveryCommands
  Stubborn <- Nothing
  Mortal <- Nothing
  MaxEvents = 1
  Period = 1
PROPERTY
  DiscoveryFollowsOnvif
