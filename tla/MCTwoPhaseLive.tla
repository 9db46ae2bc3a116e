--------------------------- MODULE MCTwoPhaseLive ---------------------------
EXTENDS TwoPhaseCommit
CONSTANTS r, a
MCParticipants == {r, a}
MCUpstream == [q \in {a} |-> r]
MCVersions == {1}
=============================================================================
