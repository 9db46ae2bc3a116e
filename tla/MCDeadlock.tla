----------------------------- MODULE MCDeadlock -----------------------------
(* Instances of DeadlockDetector for TLC.                                    *)
EXTENDS DeadlockDetector

\* The threads and messages under way at a time.
Busy ==
    Cardinality({d \in Det : snap[d] # NONE})
    + Cardinality(UNION {InCache(s) : s \in Server})
    + Cardinality(net) + Cardinality(hand) + Cardinality(starting)
    + Cardinality(collects)
AtMostTwoBusy == Busy <= 2
AtMostThreeBusy == Busy <= 3

\* Three nodes of one priority on two servers wait in a ring.
ThreeDet == 1..3
RingKey == {"x", "y", "z"}
RingKeyOf == <<"x", "y", "z">>
RingHome == [k \in RingKey |-> IF k = "x" THEN "s" ELSE "t"]
TwoServers == {"s", "t"}
Ring == {<<1, "y">>, <<2, "z">>, <<3, "x">>}
EqualPriority == <<1, 1, 1>>

RingInit ==
    /\ block = [d \in Det |-> {k \in Key : <<d, k>> \in Waits}]
    /\ lclv = [d \in Det |-> 0]
    /\ Registered
RingSpec == RingInit /\ [][Detect]_vars

\* Two keys on one server; x is registered a second time as node 3.
PairKey == {"x", "y"}
PairKeyOf == <<"x", "y", "x">>
PairHome == [k \in PairKey |-> "s"]
OneServer == {"s"}
PairWaits == {<<1, "y">>, <<2, "x">>, <<3, "y">>}
PairPriority == <<1, 2, 1>>
=============================================================================
