--------------------------- MODULE MCTwoPhaseFlat ---------------------------
EXTENDS TwoPhaseCommit
CONSTANTS r, a, b
MCParticipants == {r, a, b}
MCUpstream == [q \in {a, b} |-> r]
MCVersions == {1}
=============================================================================
