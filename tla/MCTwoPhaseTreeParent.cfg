CONSTANTS
  r = r
  i = i
  l = l
  Participants <- MCParticipants
  Root = r
  Upstream <- MCUpstream
  Versions <- MCVersions
  Retain = TRUE
  MaxFaults = 0
SPECIFICATION Spec
INVARIANTS ParentWaits
