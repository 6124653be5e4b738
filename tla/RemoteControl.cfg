SPECIFICATION ControlSpec
CONSTANTS
  None = None
  Caller = {u1, u2}
  Ops <- MCOps
  Spots <- MCSpots
  Model = {"mstar", "v2alt"}
  TopPreset = 1
  MaxOps = 2
  QueueMax = 1
  Change <- MCChange
  Initial <- MCInitial
  MaxFaults = 2
  Page = {p1, p2}
  Beside = {}
  MaxAsks = 3
  Built = {"mosquitto", "wolf"}
  Message <- MCMessage
INVARIANTS
  NeverDeaf
  TablesAgree
  JumpLands
PROPERTIES
  AtomicUpdates
  ListensAgain
  AfterCrash
  MotionEnds
CHECK_DEADLOCK FALSE
