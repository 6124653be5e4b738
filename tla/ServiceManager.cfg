SPECIFICATION Spec
CONSTANTS
  c1 = c1
  c2 = c2
  Client = {c1, c2}
  None = None
  Service <- Managed
  Key <- ManagedKeys
  Command <- Commands
  Stubborn <- RtspOnly
  Mortal <- RtspOnly
SYMMETRY Shells
CONSTRAINT OneSide
INVARIANTS
  SingleInstance
  OneStreamer
PROPERTY
  PolicyKept
