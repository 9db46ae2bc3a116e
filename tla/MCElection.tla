----------------------------- MODULE MCElection -----------------------------
(* Three members, of which two can become the leader. *)
EXTENDS ElectionLives, TLC
CONSTANTS
    a, b, c,
    MaxAccepts, MaxPrepares, MaxChanges     \* bounds on the messages under way

ThreeNodes == {a, b, c}
TwoNodes == {a, b}
NoRestart == [p \in ThreeNodes |-> 0]
\* a candidate and a voter
RestartOfAC == [p \in ThreeNodes |-> IF p = b THEN 0 ELSE 1]
RestartOfA == [p \in ThreeNodes |-> IF p = a THEN 1 ELSE 0]
Symmetry == Permutations(TwoNodes)

\* The messages that some handler can still react to.
Live ==
    {m \in msgs :
        /\ now <= m.sent + MaxDelay
        /\ \/ m.type \in {"prepare", "accept"}
           \/ m.ballot > ballot[m.to]
           \/ m.type # "rejected" /\ m.ballot = ballot[m.to]}

InFlight(t) == Cardinality({m \in Live : m.type = t})
Bound ==
    /\ InFlight("accept") <= MaxAccepts
    /\ InFlight("prepare") <= MaxPrepares
    /\ InFlight("change") <= MaxChanges

\* The clock only starts once there is a leader: what happens to its lease.
Elected == Bound /\ (now > 0 => leaders # {})

\* One of those that may restart does.
OneRestart == Elected /\ restarts[a] + restarts[c] <= 1

\* States that differ in what has no effect any more are the same: dead
\* messages, expired leases and, but for EpochUnique, past leaders.
View ==
    <<now, role, ballot, prepared, countVars, source, restarts,
      accBallot, window, best, accLease, initTs, Live,
      [p \in Nodes |-> IF CheckLeader(p) THEN <<lease[p], epoch[p]>> ELSE <<>>]>>
ViewWithHistory == <<View, leaders>>
=============================================================================
