CONSTANTS
  r = r
  a = a
  b = b
  Participants <- MCParticipants
  Root = r
  Upstream <- MCUpstream
  Versions <- MCVersions
  Retain = TRUE
  MaxFaults = 1
SPECIFICATION Spec
INVARIANTS TypeOK Atomicity  ForgetSafe ApplyNeverPanics NoProtocolError
PROPERTIES  DurableSteps
