SPECIFICATION LiveSpec
CONSTANTS
  Wd = wd
  wd = wd
  u = u
  Client = {wd, u}
  None = None
  Service <- Events
  Key <- EventKeys
  Command <- EventAll
  Asked <- EventCommands
  Stubborn <- Notifier
  Mortal <- EventDaemons
  MaxEvents = 2
  Period = 3
PROPERTIES
  OnvifKeepsConsumer
  Converges
