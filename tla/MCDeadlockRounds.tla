-------------------------- MODULE MCDeadlockRounds --------------------------
(* An instance of DeadlockRounds for TLC: three nodes on one server and of   *)
(* one priority, so node 1 has the least label.                              *)
EXTENDS DeadlockRounds

OneServer == {"s"}
ThreeDet == 1..3
ThreeKey == {"x", "y", "z"}
ThreeKeyOf == <<"x", "y", "z">>
ThreeHome == [k \in ThreeKey |-> "s"]
ThreePriority == <<1, 1, 1>>

\* Every way in which three nodes can wait for one another with a deadlock
CyclicGraphs ==
    {b \in [ThreeDet -> SUBSET ThreeKey] :
        /\ \A d \in ThreeDet : ThreeKeyOf[d] \notin b[d]
        /\ \E S \in SUBSET ThreeDet \ {{}} :
            \A d \in S : \E e \in S : ThreeKeyOf[e] \in b[d]}
\* Node 1 waits for a ring of the others and is not part of it; or all form a
\* ring.
RingGraphs == {<<{"y"}, {"z"}, {"y"}>>, <<{"y"}, {"z"}, {"x"}>>}
\* Node 1 may bring the counter of earlier waits to these.
ThreeStarts == (CyclicGraphs \X {<<0, 0, 0>>}) \cup (RingGraphs \X {<<3, 0, 0>>})
=============================================================================
