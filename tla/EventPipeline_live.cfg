SPECIFICATION Spec
CONSTANTS
  p1 = p1
  p2 = p2
  Pid = {p1, p2}
  None = None
  Mirror = {1, 2}
  Consumed = 2
  Capacity <- Single
  Sent <- TwoPackets
  InboxMax = 1
  TimerMax = 1
PROPERTIES
  TransparentToDispatch
  ConsumerReturns
