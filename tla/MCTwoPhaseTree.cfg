CONSTANTS
  r = r
  i = i
  l = l
  Participants <- MCParticipants
  Root = r
  Upstream <- MCUpstream
  Versions <- MCVersions
  Retain = TRUE
  MaxFaults = 1
SPECIFICATION Spec
INVARIANTS Atomicity ForgetSafe ApplyNeverPanics
