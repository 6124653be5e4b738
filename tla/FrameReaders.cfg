SPECIFICATION ReadersSpec
CONSTANTS
  None = None
  v1 = v1
  Viewer = {v1}
  Thumb = Thumb
  Cells = 4
  Sampled = {1, 2, 3}
  Telling = {1, 3}
  LastFrame = 1
  Video <- Recordings
  MB = 4
  B = 2
  Wd = 16
  Ht = 8
  UvOff = 130
  LowW = 4
  LowH = 4
  UvGap = 3
  RingSize = 5
  FhsSize = 3
  MaxLen = 2
  Kind <- LowAndAudio
  Standard = {}
  Invocation <- Commands
  Cycle = 5
  Chunks = 3
  Span <- Lengths
  Compared <- LastOnes
  LagMax = 3
  LostGap = 2
  Content <- Shown
  Option <- Switches
INVARIANTS
  OneCapture
  SnapshotCoherent
  RightPixels
  KeyPicture
  IntactUnlessLapped
  OrderedOutput
  WholeFrames
PROPERTIES
  ThumbnailMade
  LossExplained
  CaptureStarts
  KeyAfterGap
CHECK_DEADLOCK FALSE
