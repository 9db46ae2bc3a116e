CONSTANTS
  r = r
  a = a
  b = b
  Participants <- MCParticipants
  Root = r
  Upstream <- MCUpstream
  Versions <- MCVersions
  Retain = TRUE
  MaxFaults = 1
SPECIFICATION Spec
INVARIANTS VersionAgreement
SYMMETRY MCLeaves
