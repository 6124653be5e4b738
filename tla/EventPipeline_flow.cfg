SPECIFICATION Spec
CONSTANTS
  p1 = p1
  p2 = p2
  Pid = {p1, p2}
  None = None
  Mirror = {2}
  Consumed = 2
  Capacity <- Two
  Sent <- Packets
  InboxMax = 1
  TimerMax = 1
SYMMETRY Pids
INVARIANTS
  OneConsumer
  NoStaleEvent
  FilesFollowDispatch
