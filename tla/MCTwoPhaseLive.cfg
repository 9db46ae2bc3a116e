CONSTANTS
  r = r
  a = a
  Participants <- MCParticipants
  Root = r
  Upstream <- MCUpstream
  Versions <- MCVersions
  Retain = FALSE
  MaxFaults = 2
SPECIFICATION FairSpec
PROPERTIES Termination
