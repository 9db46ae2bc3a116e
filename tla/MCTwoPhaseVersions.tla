------------------------- MODULE MCTwoPhaseVersions -------------------------
EXTENDS TwoPhaseCommit, TLC
CONSTANTS r, a, b
MCParticipants == {r, a, b}
MCUpstream == [q \in {a, b} |-> r]
MCVersions == {1, 2}
\* The two leaves are interchangeable.
MCLeaves == Permutations({a, b})
=============================================================================
