--------------------------- MODULE MCTwoPhaseTree ---------------------------
EXTENDS TwoPhaseCommit
CONSTANTS r, i, l
MCParticipants == {r, i, l}
MCUpstream == [q \in {i, l} |-> IF q = i THEN r ELSE i]
MCVersions == {1}
=============================================================================
