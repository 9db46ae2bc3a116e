--------------------------- MODULE ElectionSafety ---------------------------
(***************************************************************************)
(* Proofs about the lease election.  Every variable keeps its type; and    *)
(* when no replica restarts there is at most one leader and an epoch has   *)
(* one owner, for any number of members and any delays.  The lemmas of the *)
(* first layer say what a step can do to the network, to an acceptor and   *)
(* to a proposer, and expand the actions.  The second layer, the argument, *)
(* uses nothing but those lemmas: IInv is inductive, and implies OneLeader *)
(* and EpochUnique.  The last section is about restarts: nobody is granted *)
(* what it has not asked for, if a restart takes longer than an answer.    *)
(* ElectionRestarts proves OneLeader with restarts.                        *)
(***************************************************************************)
EXTENDS ElectionInv, TLAPS, FiniteSetTheorems

USE DEF INVALID

-----------------------------------------------------------------------------
(* Majorities *)

\* The member list is finite.
LEMMA NodesCardinality == Cardinality(Nodes) \in Nat
BY FS_CardinalityType, NodesAssumption

\* Two majorities of the member list have a member in common.
LEMMA MajoritiesMeet ==
    ASSUME NEW S \in SUBSET Nodes, NEW T \in SUBSET Nodes,
           IsMajority(S), IsMajority(T)
    PROVE  \E q \in Nodes : q \in S /\ q \in T
<1>1. IsFiniteSet(S) /\ IsFiniteSet(T)
    BY FS_Subset, NodesAssumption
<1>2. Cardinality(S) \in Nat /\ Cardinality(T) \in Nat
    BY <1>1, FS_CardinalityType
<1>3. Cardinality(S) + Cardinality(T) > Cardinality(Nodes)
    BY <1>2, NodesCardinality DEF IsMajority
<1>4. S \cap T # {}
    BY <1>3, FS_MajoritiesIntersect, NodesAssumption
<1>. QED
    BY <1>4

\* A set that holds a majority is one.
LEMMA MajorityGrows ==
    ASSUME NEW S, NEW T \in SUBSET Nodes, S \subseteq T, IsMajority(S)
    PROVE  IsMajority(T)
<1>1. IsFiniteSet(T)
    BY FS_Subset, NodesAssumption
<1>2. Cardinality(S) <= Cardinality(T) /\ Cardinality(S) \in Nat
        /\ Cardinality(T) \in Nat
    BY <1>1, FS_Subset, FS_CardinalityType
<1>. QED
    BY <1>2, NodesCardinality DEF IsMajority

\* The threshold of record_prepare_ok() is a majority.
LEMMA HalfPlusOne ==
    ASSUME NEW S \in SUBSET Nodes,
           Cardinality(S) = Cardinality(Nodes) \div 2 + 1
    PROVE  IsMajority(S)
BY NodesCardinality DEF IsMajority

\* No majority is empty.
LEMMA MajorityNotEmpty ==
    ASSUME NEW S \in SUBSET Nodes, IsMajority(S)
    PROVE  \E q \in Nodes : q \in S
BY MajoritiesMeet

-----------------------------------------------------------------------------
(* Types *)

\* The part of TypeOK that an action determines.
TypeRest ==
    /\ now \in Clock
    /\ role \in [Nodes -> {"leader", "follower"}]
    /\ ballot \in [Nodes -> Ballot] /\ prepared \in [Nodes -> Ballot]
    /\ prepareOk \in [Nodes -> SUBSET Nodes]
    /\ promised \in [Nodes -> [Nodes -> Time \ {INVALID}]]
    /\ lease \in [Nodes -> Time] /\ epoch \in [Nodes -> Ballot]
    /\ source \in [Nodes -> [addr : Node, ballot : Ballot]]
    /\ accBallot \in [Nodes -> Ballot] /\ window \in [Nodes -> Ballot]
    /\ best \in [Nodes -> Request]
    /\ accLease \in [Nodes -> [owner : Node, ballot : Ballot, end : Time]]
    /\ initTs \in [Nodes -> Int]
    /\ msgs \subseteq Message

\* The domains in terms of integers.
LEMMA Domains ==
    /\ \A b \in Ballot : b \in Int /\ -1 <= b /\ b <= MaxBallot
    /\ \A b \in Int : -1 <= b /\ b <= MaxBallot => b \in Ballot
    /\ \A t \in Clock : t \in Nat /\ t <= MaxTime
    /\ \A t \in Clock : t + LeaseInterval \in Time \ {INVALID}
    /\ \A t \in Time : t \in Int
    /\ \A t \in Time \ {INVALID} : t \in Nat
    /\ 0 \in Time \ {INVALID} /\ INVALID \in Time /\ INVALID \in Ballot
    /\ 0 \in Clock
BY TimeAssumption DEF Ballot, Clock, Time

\* A message has the fields of its type.
LEMMA MessageFields ==
    ASSUME NEW m \in Message
    PROVE  /\ m.sent \in Clock /\ m.ballot \in Ballot
           /\ m.type \in {"prepare", "prepared", "accept", "accepted",
                          "rejected", "change"}
           /\ m.type # "rejected" => m.from \in Nodes
           /\ m.type \notin {"prepare", "accept"} => m.to \in Nodes
           /\ m.type = "prepare" => m.role \in {"leader", "follower"}
           /\ m.type = "prepared" => m.lease \in VoteLease
           /\ m.type \in {"accept", "accepted"} => m.start \in Clock
           /\ m.type = "change" => m.old \in Ballot
BY DEF Message

\* What the handlers send are messages.
LEMMA SentMessages ==
    ASSUME TypeRest, NEW p \in Nodes, NEW q \in Nodes, NEW b0 \in Ballot
    PROVE  /\ \A r \in {"leader", "follower"} : PrepareReq(p, b0, r) \in Message
           /\ \A l \in VoteLease : PrepareResp(p, q, b0, l) \in Message
           /\ AcceptReq(p, b0) \in Message
           /\ \A old \in Ballot : ChangeLeader(p, q, b0, old) \in Message
BY DEF TypeRest, PrepareReq, PrepareResp, AcceptReq, ChangeLeader, Message

\* What the handlers send is a message.
LEMMA AnsweredMessages ==
    ASSUME TypeRest, NEW p \in Nodes, NEW m \in Message, NEW b0 \in Ballot,
           m.type \in {"prepare", "accept"}
    PROVE  /\ m.type = "accept" => AcceptResp(p, m) \in Message
           /\ Reject(m, b0) \in Message
BY MessageFields DEF TypeRest, AcceptResp, Reject, Message

\* The proposer's and the acceptor's change to another ballot.
LEMMA AdvanceType ==
    ASSUME TypeRest, NEW p \in Nodes, NEW b0 \in Ballot, Advance(p, b0)
    PROVE  /\ ballot' \in [Nodes -> Ballot]
           /\ prepareOk' \in [Nodes -> SUBSET Nodes]
           /\ promised' \in [Nodes -> [Nodes -> Time \ {INVALID}]]
           /\ source' \in [Nodes -> [addr : Node, ballot : Ballot]]
BY Domains DEF TypeRest, Advance, NoSource, Node

\* advance_ballot_number_and_reset_related_states_() of the acceptor keeps
\* the types.
LEMMA AdvanceAcceptorType ==
    ASSUME TypeRest, NEW p \in Nodes, NEW b0 \in Ballot, AdvanceAcceptor(p, b0)
    PROVE  /\ accBallot' \in [Nodes -> Ballot]
           /\ window' \in [Nodes -> Ballot]
           /\ best' \in [Nodes -> Request]
BY Domains DEF TypeRest, AdvanceAcceptor, Request

\* What a vote tells of a lease is the content of a vote.
LEMMA LeaseOfType ==
    ASSUME NEW l \in [owner : Node, ballot : Ballot, end : Time]
    PROVE  LeaseOf(l) \in VoteLease
BY DEF LeaseOf, VoteLease, Node

-----------------------------------------------------------------------------
(* One lemma for each action *)

\* Each action keeps the types; first the timers of the proposer.
LEMMA RenewLeaseType ==
    ASSUME TypeRest, NEW p \in Nodes, RenewLease(p)
    PROVE  TypeRest'
<1>1. CASE CheckLeader(p)
    <2>1. AcceptReq(p, prepared[p]) \in Message
        <3>1. prepared[p] \in Ballot
            BY DEF TypeRest
        <3>. QED
            BY <3>1, SentMessages
    <2>2. msgs' \subseteq Message
        BY <1>1, <2>1 DEF RenewLease, Send, TypeRest
    <2>. QED
        BY <1>1, <2>2 DEF RenewLease, TypeRest, proposerVars, acceptorVars,
                          countVars, leaseVars
<1>2. CASE ~CheckLeader(p)
    <2>0. /\ promised' = [promised EXCEPT ![p] = [q \in Nodes |-> 0]]
          /\ lease' = [lease EXCEPT ![p] = INVALID]
          /\ epoch' = [epoch EXCEPT ![p] = INVALID]
        BY <1>2 DEF RenewLease
    <2>1. promised' \in [Nodes -> [Nodes -> Time \ {INVALID}]]
        BY <2>0, Domains DEF TypeRest
    <2>2. lease' \in [Nodes -> Time] /\ epoch' \in [Nodes -> Ballot]
        BY <2>0, Domains DEF TypeRest
    <2>. QED
        BY <1>2, <2>1, <2>2 DEF RenewLease, TypeRest, acceptorVars
<1>. QED
    BY <1>1, <1>2

LEMMA DevoteType ==
    ASSUME TypeRest, NEW p \in Nodes, Devote(p)
    PROVE  TypeRest'
<1>1. role' \in [Nodes -> {"leader", "follower"}] /\ role'[p] \in {"leader", "follower"}
    BY DEF Devote, TypeRest
<1>2. /\ ballot' \in [Nodes -> Ballot]
      /\ prepareOk' \in [Nodes -> SUBSET Nodes]
      /\ promised' \in [Nodes -> [Nodes -> Time \ {INVALID}]]
      /\ source' \in [Nodes -> [addr : Node, ballot : Ballot]]
    <2>1. CASE role'[p] = "follower"
        <3>1. ballot[p] + 1 \in Ballot
            BY <2>1, Domains, TimeAssumption DEF Devote, TypeRest
        <3>. QED
            BY <2>1, <3>1, AdvanceType DEF Devote
    <2>2. CASE role'[p] # "follower"
        BY <2>2 DEF Devote, TypeRest, countVars
    <2>. QED
        BY <2>1, <2>2
<1>3. msgs' \subseteq Message
    <2>1. PrepareReq(p, ballot'[p], role'[p]) \in Message
        BY <1>1, <1>2, SentMessages
    <2>. QED
        BY <2>1 DEF Devote, Send, TypeRest
<1>. QED
    BY <1>1, <1>2, <1>3 DEF Devote, TypeRest, acceptorVars, leaseVars

LEMMA DevoteInVainType ==
    ASSUME TypeRest, NEW p \in Nodes, DevoteInVain(p)
    PROVE  TypeRest'
BY DEF DevoteInVain, TypeRest, countVars, leaseVars, acceptorVars

\* The responses, and the hand-over.
LEMMA LearnBallotType ==
    ASSUME TypeRest, NEW m \in msgs, LearnBallot(m),
           m.type \in {"prepared", "accepted", "rejected"}
    PROVE  TypeRest'
<1>1. m.to \in Nodes /\ m.ballot \in Ballot
    BY MessageFields DEF TypeRest
<1>2. CASE CheckLeader(m.to)
    <2>1. m.ballot + 1 \in Ballot
        BY <1>1, <1>2, Domains, TimeAssumption DEF LearnBallot
    <2>2. msgs' \subseteq Message
        BY <1>1, <1>2, <2>1, SentMessages DEF LearnBallot, Send, TypeRest
    <2>. QED
        BY <1>1, <1>2, <2>1, <2>2, AdvanceType
        DEF LearnBallot, TypeRest, acceptorVars, leaseVars
<1>3. CASE ~CheckLeader(m.to)
    BY <1>1, <1>3, AdvanceType DEF LearnBallot, TypeRest, acceptorVars, leaseVars
<1>. QED
    BY <1>2, <1>3

LEMMA OnPrepareResponseType ==
    ASSUME TypeRest, NEW m \in msgs, m.type = "prepared", OnPrepareResponse(m)
    PROVE  TypeRest'
<1>1. m.to \in Nodes /\ m.from \in Nodes
    BY MessageFields DEF TypeRest
<1>2. prepareOk' \in [Nodes -> SUBSET Nodes]
    BY <1>1 DEF OnPrepareResponse, TypeRest
<1>3. prepared' \in [Nodes -> Ballot] /\ msgs' \subseteq Message
    <2>1. ballot[m.to] \in Ballot
        BY <1>1 DEF TypeRest
    <2>2. AcceptReq(m.to, ballot[m.to]) \in Message
        BY <1>1, <2>1, SentMessages
    <2>. QED
        BY <1>1, <2>1, <2>2 DEF OnPrepareResponse, Send, TypeRest
<1>. QED
    BY <1>2, <1>3 DEF OnPrepareResponse, TypeRest, acceptorVars, leaseVars

LEMMA ChangeLeaderToType ==
    ASSUME TypeRest, NEW p \in Nodes, NEW q \in Nodes, ChangeLeaderTo(p, q)
    PROVE  TypeRest'
<1>1. ballot[p] + 1 \in Ballot
    BY Domains, TimeAssumption DEF ChangeLeaderTo, TypeRest
<1>2. msgs' \subseteq Message
    BY <1>1, SentMessages DEF ChangeLeaderTo, Send, TypeRest
<1>. QED
    BY <1>1, <1>2, AdvanceType, Domains DEF ChangeLeaderTo, TypeRest, acceptorVars

LEMMA OnChangeLeaderType ==
    ASSUME TypeRest, NEW m \in msgs, m.type = "change", OnChangeLeader(m)
    PROVE  TypeRest'
<1>1. m.to \in Nodes /\ m.from \in Nodes /\ m.ballot \in Ballot /\ m.old \in Ballot
    BY MessageFields DEF TypeRest
<1>2. msgs' \subseteq Message
    BY <1>1, SentMessages DEF OnChangeLeader, Send, TypeRest
<1>3. promised' \in [Nodes -> [Nodes -> Time \ {INVALID}]]
    BY <1>1, Domains DEF OnChangeLeader, TypeRest
<1>. QED
    BY <1>1, <1>2, <1>3 DEF OnChangeLeader, TypeRest, acceptorVars, leaseVars, Node

\* What record_accept_ok() makes of the promises.
Acks(m) ==
    [promised[m.to] EXCEPT ![m.from] =
        IF @ >= m.start + LeaseInterval THEN @ ELSE m.start + LeaseInterval]

\* record_accept_ok() writes a time.
LEMMA AcksType ==
    ASSUME TypeRest, NEW m \in msgs, m.type = "accepted"
    PROVE  Acks(m) \in [Nodes -> Time \ {INVALID}]
<1>1. m.to \in Nodes /\ m.from \in Nodes /\ m.start \in Clock
    BY MessageFields DEF TypeRest
<1>2. m.start + LeaseInterval \in Time \ {INVALID}
    BY <1>1, Domains
<1>3. promised[m.to] \in [Nodes -> Time \ {INVALID}]
    BY <1>1 DEF TypeRest
<1>. QED
    BY <1>1, <1>2, <1>3 DEF Acks

\* The effects of on_accept_response(), one by one.
LEMMA OnAcceptResponseEffects ==
    ASSUME NEW m \in msgs, OnAcceptResponse(m)
    PROVE  /\ \/ promised' = [promised EXCEPT ![m.to] = [q \in Nodes |-> 0]]
              \/ promised' = [promised EXCEPT ![m.to] = Acks(m)]
           /\ \/ prepareOk' = prepareOk
              \/ prepareOk' = [prepareOk EXCEPT ![m.to] = {}]
              \/ prepareOk' = [prepareOk EXCEPT ![m.to] = prepareOk[m.to]]
           /\ \/ UNCHANGED leaseVars
              \/ \E t \in {Acks(m)[q] : q \in Nodes} :
                    /\ IsMajority({q \in Nodes : Acks(m)[q] # 0})
                    /\ IsMedian(Acks(m), t) /\ NewLease(m.to, t)
           /\ \/ role' = role
              \/ \E r \in {"leader", "follower", role[m.to]} :
                    role' = [role EXCEPT ![m.to] = r]
           /\ source' = source \/ source' = [source EXCEPT ![m.to] = NoSource]
           /\ msgs' = msgs \/ msgs' = msgs \cup {AcceptReq(m.to, prepared[m.to])}
           /\ UNCHANGED <<now, ballot, prepared, acceptorVars>>
           /\ Counts(m)
<1>. DEFINE p == m.to
            revoked == role[p] = "leader" /\ ~CheckLeader(p)
            zero == [q \in Nodes |-> 0]
<1>1. CASE IsMajority({q \in Nodes : Acks(m)[q] # 0})
    <2>1. PICK t \in {Acks(m)[q] : q \in Nodes} :
            /\ IsMedian(Acks(m), t)
            /\ NewLease(p, t)
            /\ promised' = [promised EXCEPT ![p] = IF revoked THEN zero ELSE Acks(m)]
            /\ prepareOk' = [prepareOk EXCEPT ![p] = IF revoked THEN {} ELSE @]
            /\ IF TakesOver(p, lease'[p])
               THEN /\ role' = [role EXCEPT ![p] = "leader"]
                    /\ source' = [source EXCEPT ![p] = NoSource]
                    /\ Send({AcceptReq(p, prepared[p])})
               ELSE /\ role' = [role EXCEPT ![p] =
                                    IF revoked THEN "follower" ELSE @]
                    /\ UNCHANGED <<source, msgs>>
        BY <1>1 DEF OnAcceptResponse, Acks
    <2>2. /\ \/ promised' = [promised EXCEPT ![p] = zero]
             \/ promised' = [promised EXCEPT ![p] = Acks(m)]
          /\ \/ prepareOk' = [prepareOk EXCEPT ![p] = {}]
             \/ prepareOk' = [prepareOk EXCEPT ![p] = prepareOk[p]]
        <3>1. CASE revoked
            BY <2>1, <3>1
        <3>2. CASE ~revoked
            BY <2>1, <3>2
        <3>. QED
            BY <3>1, <3>2
    <2>3. /\ \E r \in {"leader", "follower", role[p]} : role' = [role EXCEPT ![p] = r]
          /\ source' = source \/ source' = [source EXCEPT ![p] = NoSource]
          /\ msgs' = msgs \/ msgs' = msgs \cup {AcceptReq(p, prepared[p])}
        <3>1. CASE TakesOver(p, lease'[p])
            BY <2>1, <3>1 DEF Send
        <3>2. CASE ~TakesOver(p, lease'[p])
            <4>1. CASE revoked
                BY <2>1, <3>2, <4>1
            <4>2. CASE ~revoked
                BY <2>1, <3>2, <4>2
            <4>. QED
                BY <4>1, <4>2
        <3>. QED
            BY <3>1, <3>2
    <2>. QED
        BY <1>1, <2>1, <2>2, <2>3 DEF OnAcceptResponse
<1>2. CASE ~IsMajority({q \in Nodes : Acks(m)[q] # 0})
    BY <1>2 DEF OnAcceptResponse, Acks
<1>. QED
    BY <1>1, <1>2

\* A lease from accept responses ends at a time that somebody promised.
LEMMA OnAcceptResponseType ==
    ASSUME TypeRest, NEW m \in msgs, m.type = "accepted", OnAcceptResponse(m)
    PROVE  TypeRest'
<1>1. m.to \in Nodes /\ m.from \in Nodes /\ m.start \in Clock
    BY MessageFields DEF TypeRest
<1>2. Acks(m) \in [Nodes -> Time \ {INVALID}]
    BY AcksType
<1>3. promised' \in [Nodes -> [Nodes -> Time \ {INVALID}]]
    <2>1. [q \in Nodes |-> 0] \in [Nodes -> Time \ {INVALID}]
        BY Domains
    <2>2. \E f \in [Nodes -> Time \ {INVALID}] :
                promised' = [promised EXCEPT ![m.to] = f]
        BY <1>2, <2>1, OnAcceptResponseEffects
    <2>. QED
        BY <1>1, <2>2 DEF TypeRest
<1>4. prepareOk' \in [Nodes -> SUBSET Nodes]
    <2>1. \E S \in {{}, prepareOk[m.to]} : prepareOk' = [prepareOk EXCEPT ![m.to] = S]
        <3>1. prepareOk = [prepareOk EXCEPT ![m.to] = prepareOk[m.to]]
            BY <1>1 DEF TypeRest
        <3>. QED
            BY <3>1, OnAcceptResponseEffects
    <2>2. prepareOk[m.to] \in SUBSET Nodes
        BY <1>1 DEF TypeRest
    <2>. QED
        BY <1>1, <2>1, <2>2 DEF TypeRest
<1>5. lease' \in [Nodes -> Time] /\ epoch' \in [Nodes -> Ballot]
    <2>1. ASSUME NEW t \in {Acks(m)[q] : q \in Nodes}, NewLease(m.to, t)
          PROVE  lease' \in [Nodes -> Time] /\ epoch' \in [Nodes -> Ballot]
        <3>1. t \in Time
            BY <1>2, <2>1
        <3>. QED
            BY <1>1, <2>1, <3>1, Domains DEF NewLease, TypeRest
    <2>2. CASE UNCHANGED leaseVars
        BY <2>2 DEF leaseVars, TypeRest
    <2>. QED
        BY <2>1, <2>2, OnAcceptResponseEffects
<1>6. role' \in [Nodes -> {"leader", "follower"}]
    BY <1>1, OnAcceptResponseEffects DEF TypeRest
<1>7. source' \in [Nodes -> [addr : Node, ballot : Ballot]]
    <2>1. NoSource \in [addr : Node, ballot : Ballot]
        BY Domains DEF NoSource, Node
    <2>. QED
        BY <1>1, <2>1, OnAcceptResponseEffects DEF TypeRest
<1>8. msgs' \subseteq Message
    <2>1. prepared[m.to] \in Ballot
        BY <1>1 DEF TypeRest
    <2>2. AcceptReq(m.to, prepared[m.to]) \in Message
        BY <1>1, <2>1, SentMessages
    <2>. QED
        BY <2>2, OnAcceptResponseEffects DEF TypeRest
<1>. QED
    BY <1>3, <1>4, <1>5, <1>6, <1>7, <1>8, OnAcceptResponseEffects
    DEF TypeRest, acceptorVars

\* The handlers and the timer of the acceptor.
LEMMA OnPrepareRequestType ==
    ASSUME TypeRest, NEW p \in Nodes, NEW m \in msgs, m.type = "prepare",
           OnPrepareRequest(p, m)
    PROVE  TypeRest'
<1>1. /\ m \in Message /\ m.from \in Nodes /\ m.ballot \in Ballot
      /\ m.role \in {"leader", "follower"}
    BY MessageFields DEF TypeRest
<1>2. /\ ballot' \in [Nodes -> Ballot]
      /\ prepareOk' \in [Nodes -> SUBSET Nodes]
      /\ promised' \in [Nodes -> [Nodes -> Time \ {INVALID}]]
      /\ source' \in [Nodes -> [addr : Node, ballot : Ballot]]
    BY <1>1, AdvanceType DEF OnPrepareRequest, TypeRest, countVars
<1>. DEFINE S == IF m.from = p \/ m.ballot = ballot[p] THEN {}
                 ELSE IF m.ballot < ballot[p]
                 THEN {Reject(m, ballot[p])}
                 ELSE IF m.role = "leader" \/ p \notin Candidates THEN {}
                 ELSE {PrepareReq(p, m.ballot, role[p])}
            resp == PrepareResp(p, m.from, m.ballot, LeaseOf(accLease[p]))
<1>3. /\ Reject(m, ballot[p]) \in Message
      /\ Reject(m, accBallot[p]) \in Message
      /\ PrepareReq(p, m.ballot, role[p]) \in Message
      /\ resp \in Message
    <2>1. ballot[p] \in Ballot /\ accBallot[p] \in Ballot
            /\ role[p] \in {"leader", "follower"}
        BY DEF TypeRest
    <2>2. LeaseOf(accLease[p]) \in VoteLease
        BY LeaseOfType DEF TypeRest
    <2>3. Reject(m, ballot[p]) \in Message /\ Reject(m, accBallot[p]) \in Message
        BY <1>1, <2>1, AnsweredMessages
    <2>4. PrepareReq(p, m.ballot, role[p]) \in Message
        BY <1>1, <2>1, SentMessages
    <2>5. resp \in Message
        BY <1>1, <2>2, SentMessages
    <2>. QED
        BY <2>3, <2>4, <2>5
<1>4. AcceptorOnPrepare(p, m, S)
    BY DEF OnPrepareRequest
<1>5. S \subseteq Message
    BY <1>3
<1>. HIDE DEF S, resp
<1>6. msgs' \subseteq Message
    BY <1>3, <1>4, <1>5 DEF AcceptorOnPrepare, Send, TypeRest, resp
<1>7. /\ accBallot' \in [Nodes -> Ballot]
      /\ window' \in [Nodes -> Ballot]
      /\ best' \in [Nodes -> Request]
    <2>1. CASE AdvanceAcceptor(p, m.ballot)
        BY <1>1, <2>1, AdvanceAcceptorType
    <2>2. CASE UNCHANGED <<accBallot, window, best>>
        BY <2>2 DEF TypeRest
    <2>3. CASE ~AdvanceAcceptor(p, m.ballot) /\ ~UNCHANGED <<accBallot, window, best>>
        <3>1. accBallot' = accBallot
            BY <1>4, <2>3 DEF AcceptorOnPrepare
        <3>2. window' \in [Nodes -> Ballot]
            BY <1>1, <1>4, <2>3 DEF AcceptorOnPrepare, TypeRest
        <3>3. best' \in [Nodes -> Request]
            <4>1. CASE best' = best
                BY <4>1 DEF TypeRest
            <4>2. CASE best' # best
                <5>1. /\ \/ m.ballot > window[p] \/ best[p] # NoRequest
                      /\ \E t \in {now, best[p].opened} :
                            /\ t = now \/ best[p] # NoRequest
                            /\ best' = [best EXCEPT ![p] =
                                [from |-> m.from, opened |-> t]]
                    BY <1>4, <2>3, <4>2 DEF AcceptorOnPrepare
                <5>2. PICK t \in {now, best[p].opened} :
                            /\ t = now \/ best[p] # NoRequest
                            /\ best' = [best EXCEPT ![p] =
                                [from |-> m.from, opened |-> t]]
                    BY <5>1
                <5>3. t \in Clock
                    BY <5>2 DEF TypeRest, Request
                <5>4. [from |-> m.from, opened |-> t] \in Request
                    BY <1>1, <5>3 DEF Request
                <5>. QED
                    BY <5>2, <5>4 DEF TypeRest
            <4>. QED
                BY <4>1, <4>2
        <3>. QED
            BY <3>1, <3>2, <3>3 DEF TypeRest
    <2>. QED
        BY <2>1, <2>2, <2>3
<1>. QED
    BY <1>2, <1>6, <1>7 DEF OnPrepareRequest, TypeRest, leaseVars

\* The lease an acceptor votes with.
VotingLease(p) ==
    IF Expired(p) THEN [accLease[p] EXCEPT !.owner = NoNode, !.end = INVALID]
    ELSE accLease[p]

\* A lease that is reset is a lease.
LEMMA VotingLeaseType ==
    ASSUME TypeRest, NEW p \in Nodes
    PROVE  VotingLease(p) \in [owner : Node, ballot : Ballot, end : Time]
<1>1. accLease[p] \in [owner : Node, ballot : Ballot, end : Time]
    BY DEF TypeRest
<1>2. [accLease[p] EXCEPT !.owner = NoNode, !.end = INVALID]
        \in [owner : Node, ballot : Ballot, end : Time]
    BY <1>1, Domains DEF Node
<1>. QED
    BY <1>1, <1>2 DEF VotingLease

LEMMA VoteType ==
    ASSUME TypeRest, NEW p \in Nodes, Vote(p)
    PROVE  TypeRest'
<1>1. best[p].from \in Nodes /\ window[p] \in Ballot
    BY DEF TypeRest, Vote, Request
<1>2. VotingLease(p) \in [owner : Node, ballot : Ballot, end : Time]
    BY VotingLeaseType
<1>3. PrepareResp(p, best[p].from, window[p],
                  LeaseOf(VotingLease(p))) \in Message
    BY <1>1, <1>2, LeaseOfType, SentMessages
<1>4. msgs' \subseteq Message
    BY <1>3 DEF Vote, VotingLease, Send, TypeRest
<1>5. accLease' \in [Nodes -> [owner : Node, ballot : Ballot, end : Time]]
    BY <1>2 DEF Vote, VotingLease, TypeRest
<1>6. best' \in [Nodes -> Request]
    BY DEF Vote, Request, TypeRest
<1>. QED
    BY <1>1, <1>4, <1>5, <1>6 DEF Vote, TypeRest, proposerVars, countVars, leaseVars

LEMMA ForgetLeaseType ==
    ASSUME TypeRest, NEW p \in Nodes, ForgetLease(p)
    PROVE  TypeRest'
<1>1. accLease' \in [Nodes -> [owner : Node, ballot : Ballot, end : Time]]
    BY Domains DEF ForgetLease, TypeRest, Node
<1>. QED
    BY <1>1 DEF ForgetLease, TypeRest, proposerVars, countVars, leaseVars

LEMMA OnAcceptRequestType ==
    ASSUME TypeRest, NEW p \in Nodes, NEW m \in msgs, m.type = "accept",
           OnAcceptRequest(p, m)
    PROVE  TypeRest'
<1>1. /\ m \in Message /\ m.from \in Nodes /\ m.ballot \in Ballot
    BY MessageFields DEF TypeRest
<1>2. /\ ballot' \in [Nodes -> Ballot]
      /\ prepareOk' \in [Nodes -> SUBSET Nodes]
      /\ promised' \in [Nodes -> [Nodes -> Time \ {INVALID}]]
      /\ source' \in [Nodes -> [addr : Node, ballot : Ballot]]
    BY <1>1, AdvanceType DEF OnAcceptRequest, TypeRest, countVars
<1>3. msgs' \subseteq Message
    <2>1. accBallot[p] \in Ballot
        BY DEF TypeRest
    <2>2. Reject(m, accBallot[p]) \in Message /\ AcceptResp(p, m) \in Message
        BY <1>1, <2>1, AnsweredMessages
    <2>. QED
        BY <2>2 DEF OnAcceptRequest, Send, TypeRest
<1>4. /\ accBallot' \in [Nodes -> Ballot]
      /\ window' \in [Nodes -> Ballot]
      /\ best' \in [Nodes -> Request]
    <2>1. AdvanceAcceptor(p, m.ballot) \/ UNCHANGED <<accBallot, window, best>>
        BY DEF OnAcceptRequest
    <2>2. CASE UNCHANGED <<accBallot, window, best>>
        BY <2>2 DEF TypeRest
    <2>. QED
        BY <1>1, <2>1, <2>2, AdvanceAcceptorType
<1>5. accLease' \in [Nodes -> [owner : Node, ballot : Ballot, end : Time]]
    <2>1. /\ now + LeaseInterval \in Time
          /\ accLease[p].end \in Time
        BY Domains DEF TypeRest
    <2>2. \/ accLease' = accLease
          \/ \E e \in {accLease[p].end, now + LeaseInterval} :
                accLease' = [accLease EXCEPT ![p] =
                    [owner |-> m.from, ballot |-> m.ballot, end |-> e]]
        BY DEF OnAcceptRequest
    <2>3. \A e \in {accLease[p].end, now + LeaseInterval} :
            [owner |-> m.from, ballot |-> m.ballot, end |-> e]
                \in [owner : Node, ballot : Ballot, end : Time]
        BY <1>1, <2>1 DEF Node
    <2>4. CASE accLease' = accLease
        BY <2>4 DEF TypeRest
    <2>5. CASE accLease' # accLease
        <3>1. PICK e \in {accLease[p].end, now + LeaseInterval} :
                accLease' = [accLease EXCEPT ![p] =
                    [owner |-> m.from, ballot |-> m.ballot, end |-> e]]
            BY <2>2, <2>5
        <3>. QED
            BY <2>3, <3>1 DEF TypeRest
    <2>. QED
        BY <2>4, <2>5
<1>. QED
    BY <1>2, <1>3, <1>4, <1>5 DEF OnAcceptRequest, TypeRest, leaseVars

\* The environment.
LEMMA RestartType ==
    ASSUME TypeRest, NEW p \in Nodes, Restart(p)
    PROVE  TypeRest'
<1>1. /\ NoSource \in [addr : Node, ballot : Ballot]
      /\ NoRequest \in Request
      /\ [owner |-> NoNode, ballot |-> INVALID, end |-> INVALID]
            \in [owner : Node, ballot : Ballot, end : Time]
      /\ [q \in Nodes |-> 0] \in [Nodes -> Time \ {INVALID}]
    BY Domains DEF NoSource, Request, Node
<1>2. initTs' \in [Nodes -> Int]
    BY TimeAssumption, Domains DEF Restart, TypeRest
<1>3. /\ promised' \in [Nodes -> [Nodes -> Time \ {INVALID}]]
      /\ prepareOk' \in [Nodes -> SUBSET Nodes]
    BY <1>1 DEF Restart, TypeRest
<1>4. /\ source' \in [Nodes -> [addr : Node, ballot : Ballot]]
      /\ best' \in [Nodes -> Request]
    BY <1>1 DEF Restart, TypeRest
<1>5. accLease' \in [Nodes -> [owner : Node, ballot : Ballot, end : Time]]
    BY <1>1 DEF Restart, TypeRest
<1>6. /\ role' \in [Nodes -> {"leader", "follower"}]
      /\ lease' \in [Nodes -> Time]
    BY Domains DEF Restart, TypeRest
<1>. QED
    BY <1>1, <1>2, <1>3, <1>4, <1>5, <1>6, Domains DEF Restart, TypeRest

LEMMA TickType ==
    ASSUME TypeRest, Tick
    PROVE  TypeRest'
<1>1. now' \in Clock
    BY TimeAssumption DEF Tick, Clock, TypeRest
<1>. QED
    BY <1>1 DEF Tick, TypeRest, proposerVars, acceptorVars, countVars, leaseVars

\* All actions together.
LEMMA StepType ==
    ASSUME TypeRest, Step
    PROVE  TypeRest'
<1>1. CASE Tick
    BY <1>1, TickType
<1>2. ASSUME NEW m \in msgs, Receive(m)
      PROVE  TypeRest'
    <2>1. CASE m.type = "prepare" /\ \E p \in Nodes : OnPrepareRequest(p, m)
        BY <2>1, OnPrepareRequestType
    <2>2. CASE m.type = "accept" /\ \E p \in Nodes : OnAcceptRequest(p, m)
        BY <2>2, OnAcceptRequestType
    <2>3. CASE m.type = "prepared" /\ OnPrepareResponse(m)
        BY <2>3, OnPrepareResponseType
    <2>4. CASE m.type = "accepted" /\ OnAcceptResponse(m)
        BY <2>4, OnAcceptResponseType
    <2>5. CASE m.type \in {"prepared", "accepted", "rejected"} /\ LearnBallot(m)
        BY <2>5, LearnBallotType
    <2>6. CASE m.type = "change" /\ OnChangeLeader(m)
        BY <2>6, OnChangeLeaderType
    <2>. QED
        BY <1>2, <2>1, <2>2, <2>3, <2>4, <2>5, <2>6 DEF Receive
<1>3. ASSUME NEW p \in Nodes,
             \/ RenewLease(p) \/ Devote(p) \/ DevoteInVain(p)
             \/ Vote(p) \/ ForgetLease(p) \/ Restart(p)
             \/ \E q \in Nodes : ChangeLeaderTo(p, q)
      PROVE  TypeRest'
    BY <1>3, RenewLeaseType, DevoteType, DevoteInVainType, VoteType,
       ForgetLeaseType, RestartType, ChangeLeaderToType
<1>. QED
    BY <1>1, <1>2, <1>3 DEF Step, Run

\* The history of leaders is apart from the rest of TypeOK.
LEMMA TypeSplit ==
    TypeOK <=> /\ TypeRest /\ restarts \in [Nodes -> Nat]
               /\ leaders \subseteq Nodes \X Ballot
BY DEF TypeOK, TypeRest

\* TypeOK is inductive.
LEMMA NextType ==
    ASSUME TypeOK, [Next]_vars
    PROVE  TypeOK'
<1>1. CASE Next
    <2>1. TypeRest'
        BY <1>1, TypeSplit, StepType DEF Next
    <2>2. epoch' \in [Nodes -> Ballot]
        BY <2>1 DEF TypeRest
    <2>3. leaders' \subseteq Nodes \X Ballot
        BY <1>1, <2>2 DEF Next, TypeOK
    <2>4. restarts' \in [Nodes -> Nat]
        BY <1>1 DEF Next, Step, Restart, TypeOK
    <2>. QED
        BY <2>1, <2>3, <2>4 DEF TypeOK, TypeRest
<1>2. CASE UNCHANGED vars
    BY <1>2 DEF vars, TypeOK, proposerVars, acceptorVars, countVars, leaseVars
<1>. QED
    BY <1>1, <1>2

LEMMA InitType == Init => TypeOK
<1>1. /\ NoSource \in [addr : Node, ballot : Ballot]
      /\ NoRequest \in Request
      /\ [owner |-> NoNode, ballot |-> INVALID, end |-> INVALID]
            \in [owner : Node, ballot : Ballot, end : Time]
      /\ [q \in Nodes |-> 0] \in [Nodes -> Time \ {INVALID}]
    BY Domains DEF NoSource, Request, Node
<1>2. 0 - MaxLeaseTime \in Int
    BY TimeAssumption
<1>. QED
    BY <1>1, <1>2, Domains DEF Init, TypeOK

\* Every variable of the election keeps to its domain.
THEOREM ElectionTypes == Spec => []TypeOK
BY InitType, NextType, PTL DEF Spec

-----------------------------------------------------------------------------
(* Restarts or none *)

\* The members keep running.
NoRestarts == \A p \in Nodes : MaxRestarts[p] = 0

-----------------------------------------------------------------------------
(* What can be sent *)

VoteSent(v) ==
    /\ accBallot[v.from] < v.ballot /\ accBallot'[v.from] = v.ballot
    /\ \/ v.lease = LeaseOf(accLease[v.from])
       \/ v.lease = NoLease /\ Expired(v.from)
    /\ \A w \in Votes' : w \in Votes \/ w = v
    /\ Grants' = Grants

GrantSent(g) ==
    /\ \E m \in Proposals : m.from = g.to /\ m.ballot = g.ballot /\ m.start = g.start
    /\ accBallot[g.from] <= g.ballot /\ accBallot'[g.from] = g.ballot
    /\ accLease'[g.from].owner = g.to /\ accLease'[g.from].ballot = g.ballot
    /\ now + LeaseInterval <= accLease'[g.from].end
    /\ Votes' = Votes

ProposalSent(m) ==
    /\ m.ballot = prepared'[m.from]
    /\ m.start = now
    /\ \/ prepared'[m.from] = ballot[m.from] /\ IsMajority(prepareOk'[m.from])
            /\ ballot' = ballot
       \/ prepared' = prepared /\ CheckLeader(m.from)
       \/ prepared' = prepared /\ \E g \in Grants : g.to = m.from

HandOverSent(h) ==
    /\ h.old = ballot[h.from] /\ ballot'[h.from] = h.old + 1
    /\ h.ballot = h.old + 1
    /\ lease'[h.from] = INVALID

NetworkStep ==
    /\ msgs \subseteq msgs'
    /\ \A m \in msgs' : m \notin msgs =>
            /\ m.type = "prepared" => VoteSent(m)
            /\ m.type = "accepted" => GrantSent(m)
            /\ m.type = "accept" => ProposalSent(m)
            /\ m.type = "change" => HandOverSent(m)

\* A step that sends nothing but prepare requests and rejections.
LEMMA QuietStep ==
    ASSUME NEW S, msgs' = msgs \cup S,
           \A x \in S : x.type \in {"prepare", "rejected"}
    PROVE  NetworkStep
BY DEF NetworkStep

\* The effects of handle_message() on a prepare request
LEMMA OnPrepareRequestEffects ==
    ASSUME TypeRest, NEW p \in Nodes, NEW m \in msgs, m.type = "prepare",
           OnPrepareRequest(p, m)
    PROVE  \E S :
           /\ \A x \in S : x.type \in {"prepare", "rejected"}
           /\ \/ msgs' = msgs \cup S /\ accBallot' = accBallot
              \/ /\ accBallot[p] < m.ballot
                 /\ accBallot' = [accBallot EXCEPT ![p] = m.ballot]
                 /\ msgs' = msgs \cup S \cup
                        {PrepareResp(p, m.from, m.ballot,
                                     LeaseOf(accLease[p]))}
<1>. DEFINE S == IF m.from = p \/ m.ballot = ballot[p] THEN {}
                 ELSE IF m.ballot < ballot[p]
                 THEN {Reject(m, ballot[p])}
                 ELSE IF m.role = "leader" \/ p \notin Candidates THEN {}
                 ELSE {PrepareReq(p, m.ballot, role[p])}
            resp == PrepareResp(p, m.from, m.ballot, LeaseOf(accLease[p]))
<1>1. AcceptorOnPrepare(p, m, S)
    BY DEF OnPrepareRequest
<1>2. \A x \in S : x.type \in {"prepare", "rejected"}
    BY DEF Reject, PrepareReq
<1>3. Reject(m, accBallot[p]).type = "rejected"
    BY DEF Reject
<1>. HIDE DEF S
<1>4. \/ msgs' = msgs \cup S /\ accBallot' = accBallot
      \/ msgs' = msgs \cup (S \cup {Reject(m, accBallot[p])}) /\ accBallot' = accBallot
      \/ /\ m.ballot >= accBallot[p] /\ m.ballot # accBallot[p]
         /\ accBallot' = [accBallot EXCEPT ![p] = m.ballot]
         /\ msgs' = msgs \cup (S \cup {resp})
    BY <1>1 DEF AcceptorOnPrepare, Send, AdvanceAcceptor
<1>5. m.ballot \in Int /\ accBallot[p] \in Int
    BY MessageFields, Domains DEF TypeRest
<1>6. CASE msgs' = msgs \cup S /\ accBallot' = accBallot
    BY <1>2, <1>6
<1>7. CASE msgs' = msgs \cup (S \cup {Reject(m, accBallot[p])}) /\ accBallot' = accBallot
    <2>. DEFINE T == S \cup {Reject(m, accBallot[p])}
    <2>1. \A x \in T : x.type \in {"prepare", "rejected"}
        BY <1>2, <1>3
    <2>. QED
        BY <1>7, <2>1
<1>8. CASE /\ m.ballot >= accBallot[p] /\ m.ballot # accBallot[p]
           /\ accBallot' = [accBallot EXCEPT ![p] = m.ballot]
           /\ msgs' = msgs \cup (S \cup {resp})
    <2>1. accBallot[p] < m.ballot
        BY <1>5, <1>8
    <2>2. msgs' = msgs \cup S \cup {resp}
        BY <1>8
    <2>. QED
        BY <1>2, <1>8, <2>1, <2>2
<1>. QED
    BY <1>4, <1>6, <1>7, <1>8

\* The effects of handle_message() on an accept request
LEMMA OnAcceptRequestEffects ==
    ASSUME TypeRest, NEW p \in Nodes, NEW m \in msgs, m.type = "accept",
           OnAcceptRequest(p, m)
    PROVE  \/ /\ accBallot' = accBallot /\ accLease' = accLease
              /\ msgs' = msgs \/ msgs' = msgs \cup {Reject(m, accBallot[p])}
           \/ /\ accBallot[p] <= m.ballot
              /\ accBallot' = [accBallot EXCEPT ![p] = m.ballot]
              /\ \E e \in Time :
                    /\ accLease[p].end <= e /\ now + LeaseInterval <= e
                    /\ accLease' = [accLease EXCEPT ![p] =
                            [owner |-> m.from, ballot |-> m.ballot, end |-> e]]
              /\ msgs' = msgs \cup {AcceptResp(p, m)}
<1>1. /\ now + LeaseInterval \in Time /\ accLease[p].end \in Time
      /\ now + LeaseInterval \in Int /\ accLease[p].end \in Int
      /\ m.ballot \in Int /\ accBallot[p] \in Int
    BY MessageFields, Domains DEF TypeRest
<1>2. \/ /\ accBallot' = accBallot /\ accLease' = accLease
         /\ msgs' = msgs \/ msgs' = msgs \cup {Reject(m, accBallot[p])}
      \/ /\ m.ballot >= accBallot[p]
         /\ accBallot' = accBallot \/ accBallot' = [accBallot EXCEPT ![p] = m.ballot]
         /\ accBallot' = accBallot => ~(m.ballot > accBallot[p])
         /\ accLease' = [accLease EXCEPT ![p] =
                [owner |-> m.from, ballot |-> m.ballot,
                 end |-> IF @.end >= now + LeaseInterval THEN @.end
                         ELSE now + LeaseInterval]]
         /\ msgs' = msgs \cup {AcceptResp(p, m)}
    BY <1>1 DEF OnAcceptRequest, AdvanceAcceptor, Send, TypeRest
<1>3. accBallot = [accBallot EXCEPT ![p] = accBallot[p]]
    BY DEF TypeRest
<1>4. CASE /\ m.ballot >= accBallot[p]
           /\ accBallot' = accBallot \/ accBallot' = [accBallot EXCEPT ![p] = m.ballot]
           /\ accBallot' = accBallot => ~(m.ballot > accBallot[p])
           /\ accLease' = [accLease EXCEPT ![p] =
                [owner |-> m.from, ballot |-> m.ballot,
                 end |-> IF @.end >= now + LeaseInterval THEN @.end
                         ELSE now + LeaseInterval]]
           /\ msgs' = msgs \cup {AcceptResp(p, m)}
    <2>. DEFINE e == IF accLease[p].end >= now + LeaseInterval THEN accLease[p].end
                     ELSE now + LeaseInterval
    <2>1. e \in Time /\ accLease[p].end <= e /\ now + LeaseInterval <= e
        BY <1>1
    <2>2. accLease' = [accLease EXCEPT ![p] =
                [owner |-> m.from, ballot |-> m.ballot, end |-> e]]
        BY <1>4
    <2>3. accBallot' = [accBallot EXCEPT ![p] = m.ballot]
        BY <1>1, <1>3, <1>4
    <2>4. accBallot[p] <= m.ballot
        BY <1>1, <1>4
    <2>. HIDE DEF e
    <2>. QED
        BY <1>4, <2>1, <2>2, <2>3, <2>4
<1>. QED
    BY <1>2, <1>4

\* Without restarts no step is one.
LEMMA RestartNever ==
    ASSUME restarts \in [Nodes -> Nat], NoRestarts, NEW p \in Nodes
    PROVE  ~Restart(p)
BY DEF Restart, NoRestarts

\* A new vote that meets the conditions makes a step of the network.
LEMMA VoteStep ==
    ASSUME TypeRest, NEW p \in Nodes, NEW v \in msgs', v.type = "prepared",
           v.from = p, v.ballot \in Ballot,
           msgs \subseteq msgs',
           \A x \in msgs' : x \in msgs \/ x = v \/ x.type \in {"prepare", "rejected"},
           accBallot' = [accBallot EXCEPT ![p] = v.ballot],
           accBallot[p] < v.ballot,
           v.lease = LeaseOf(accLease[p]) \/ (v.lease = NoLease /\ Expired(p))
    PROVE  NetworkStep
<1>1. VoteSent(v)
    <2>1. accBallot'[v.from] = v.ballot
        BY DEF TypeRest
    <2>2. \A w \in Votes' : w \in Votes \/ w = v
        BY DEF Votes
    <2>3. Grants' = Grants
        BY DEF Grants
    <2>. QED
        BY <2>1, <2>2, <2>3, Zenon DEF VoteSent
<1>. QED
    BY <1>1 DEF NetworkStep

\* Who proposes a lease has just won, or has won before.
LEMMA ProposalStep ==
    ASSUME NEW p \in Nodes, NEW b0,
           msgs' = msgs \cup {AcceptReq(p, b0)},
           b0 = prepared'[p],
           \/ prepared'[p] = ballot[p] /\ IsMajority(prepareOk'[p]) /\ ballot' = ballot
           \/ prepared' = prepared /\ CheckLeader(p)
           \/ prepared' = prepared /\ \E g \in Grants : g.to = p
    PROVE  NetworkStep
<1>. DEFINE m == AcceptReq(p, b0)
<1>1. m.type = "accept" /\ m.from = p /\ m.ballot = b0 /\ m.start = now
    BY DEF AcceptReq
<1>. HIDE DEF m
<1>2. msgs' = msgs \cup {m}
    BY DEF m
<1>3. ProposalSent(m)
    BY <1>1 DEF ProposalSent
<1>. QED
    BY <1>1, <1>2, <1>3 DEF NetworkStep

\* What a step can add to the network, in terms of the state before it.
LEMMA StepNetwork ==
    ASSUME TypeRest, \A p \in Nodes : ~Restart(p), Step
    PROVE  NetworkStep
<1>1. CASE Tick
    BY <1>1 DEF Tick, NetworkStep
<1>2. ASSUME NEW m \in msgs, m.type = "prepare", NEW p \in Nodes, OnPrepareRequest(p, m)
      PROVE  NetworkStep
    <2>1. m.from \in Nodes /\ m.ballot \in Ballot
        BY <1>2, MessageFields DEF TypeRest
    <2>2. PICK S :
           /\ \A x \in S : x.type \in {"prepare", "rejected"}
           /\ \/ msgs' = msgs \cup S /\ accBallot' = accBallot
              \/ /\ accBallot[p] < m.ballot
                 /\ accBallot' = [accBallot EXCEPT ![p] = m.ballot]
                 /\ msgs' = msgs \cup S \cup
                        {PrepareResp(p, m.from, m.ballot,
                                     LeaseOf(accLease[p]))}
        BY <1>2, OnPrepareRequestEffects
    <2>3. CASE msgs' = msgs \cup S
        BY <2>2, <2>3, QuietStep
    <2>4. CASE msgs' # msgs \cup S
        <3>. DEFINE v == PrepareResp(p, m.from, m.ballot, LeaseOf(accLease[p]))
        <3>1. /\ v.type = "prepared" /\ v.from = p /\ v.ballot = m.ballot
              /\ v.lease = LeaseOf(accLease[p])
            BY DEF PrepareResp
        <3>2. msgs' = msgs \cup S \cup {v}
            BY <2>2, <2>4
        <3>. HIDE DEF v
        <3>3. /\ v \in msgs' /\ msgs \subseteq msgs'
              /\ \A x \in msgs' : x \in msgs \/ x = v \/ x.type \in {"prepare", "rejected"}
            BY <2>2, <3>2
        <3>4. /\ v.ballot \in Ballot
              /\ accBallot' = [accBallot EXCEPT ![p] = v.ballot]
              /\ accBallot[p] < v.ballot
            BY <2>1, <2>2, <2>4, <3>1
        <3>. QED
            BY <3>1, <3>3, <3>4, VoteStep
    <2>. QED
        BY <2>3, <2>4
<1>3. ASSUME NEW m \in msgs, m.type = "accept", NEW p \in Nodes, OnAcceptRequest(p, m)
      PROVE  NetworkStep
    <2>1. CASE msgs' = msgs \/ msgs' = msgs \cup {Reject(m, accBallot[p])}
        BY <2>1 DEF NetworkStep, Reject
    <2>2. CASE /\ accBallot[p] <= m.ballot
               /\ accBallot' = [accBallot EXCEPT ![p] = m.ballot]
               /\ \E e \in Time :
                    /\ accLease[p].end <= e /\ now + LeaseInterval <= e
                    /\ accLease' = [accLease EXCEPT ![p] =
                            [owner |-> m.from, ballot |-> m.ballot, end |-> e]]
               /\ msgs' = msgs \cup {AcceptResp(p, m)}
        <3>. DEFINE g == AcceptResp(p, m)
        <3>1. /\ g.type = "accepted" /\ g.from = p /\ g.to = m.from
              /\ g.ballot = m.ballot /\ g.start = m.start
            BY DEF AcceptResp
        <3>. HIDE DEF g
        <3>2. msgs' = msgs \cup {g}
            BY <2>2 DEF g
        <3>3. accBallot'[p] = m.ballot
            BY <2>2 DEF TypeRest
        <3>4. /\ accLease'[p].owner = m.from /\ accLease'[p].ballot = m.ballot
              /\ now + LeaseInterval <= accLease'[p].end
            BY <2>2 DEF TypeRest
        <3>5. Votes' = Votes
            BY <3>1, <3>2 DEF Votes
        <3>6. m \in Proposals
            BY <1>3 DEF Proposals
        <3>7. GrantSent(g)
            BY <2>2, <3>1, <3>3, <3>4, <3>5, <3>6 DEF GrantSent
        <3>. QED
            BY <3>1, <3>2, <3>7 DEF NetworkStep
    <2>. QED
        BY <1>3, <2>1, <2>2, OnAcceptRequestEffects
<1>4. ASSUME NEW m \in msgs, m.type = "prepared", OnPrepareResponse(m)
      PROVE  NetworkStep
    <2>1. m.to \in Nodes /\ m.from \in Nodes
        BY <1>4, MessageFields DEF TypeRest
    <2>. DEFINE p == m.to
                ok == prepareOk[p] \cup {m.from}
    <2>2. CASE Cardinality(ok) = Cardinality(Nodes) \div 2 + 1
        <3>1. /\ prepared' = [prepared EXCEPT ![p] = ballot[p]]
              /\ prepareOk' = [prepareOk EXCEPT ![p] = ok]
              /\ msgs' = msgs \cup {AcceptReq(p, ballot[p])}
              /\ ballot' = ballot
            BY <1>4, <2>2 DEF OnPrepareResponse, Send
        <3>2. ok \in SUBSET Nodes
            BY <2>1 DEF TypeRest
        <3>3. IsMajority(ok)
            BY <2>2, <3>2, HalfPlusOne
        <3>4. prepared'[p] = ballot[p] /\ prepareOk'[p] = ok
            BY <2>1, <3>1 DEF TypeRest
        <3>. QED
            BY <2>1, <3>1, <3>3, <3>4, ProposalStep
    <2>3. CASE Cardinality(ok) # Cardinality(Nodes) \div 2 + 1
        BY <1>4, <2>3 DEF OnPrepareResponse, NetworkStep
    <2>. QED
        BY <2>2, <2>3
<1>5. ASSUME NEW m \in msgs, m.type = "accepted", OnAcceptResponse(m)
      PROVE  NetworkStep
    <2>1. m.to \in Nodes
        BY <1>5, MessageFields DEF TypeRest
    <2>2. \E g \in Grants : g.to = m.to
        BY <1>5 DEF Grants
    <2>3. prepared' = prepared
        BY <1>5, OnAcceptResponseEffects
    <2>4. CASE msgs' = msgs
        BY <2>4 DEF NetworkStep
    <2>5. CASE msgs' = msgs \cup {AcceptReq(m.to, prepared[m.to])}
        BY <2>1, <2>2, <2>3, <2>5, ProposalStep
    <2>. QED
        BY <1>5, <2>4, <2>5, OnAcceptResponseEffects
<1>6. ASSUME NEW m \in msgs, LearnBallot(m),
           m.type \in {"prepared", "accepted", "rejected"}
      PROVE  NetworkStep
    <2>1. msgs' = msgs \/ msgs' = msgs \cup {PrepareReq(m.to, m.ballot + 1, "leader")}
        BY <1>6 DEF LearnBallot, Send
    <2>. QED
        BY <2>1 DEF NetworkStep, PrepareReq
<1>7. ASSUME NEW m \in msgs, m.type = "change", OnChangeLeader(m)
      PROVE  NetworkStep
    <2>1. msgs' = msgs \/ msgs' = msgs \cup {PrepareReq(m.to, m.ballot, "leader")}
        BY <1>7 DEF OnChangeLeader, Send
    <2>. QED
        BY <2>1 DEF NetworkStep, PrepareReq
<1>8. ASSUME NEW p \in Nodes, RenewLease(p)
      PROVE  NetworkStep
    <2>1. CASE CheckLeader(p)
        <3>1. msgs' = msgs \cup {AcceptReq(p, prepared[p])} /\ prepared' = prepared
            BY <1>8, <2>1 DEF RenewLease, Send, proposerVars
        <3>. QED
            BY <2>1, <3>1, ProposalStep
    <2>2. CASE ~CheckLeader(p)
        BY <1>8, <2>2 DEF RenewLease, NetworkStep
    <2>. QED
        BY <2>1, <2>2
<1>9. ASSUME NEW p \in Nodes, Devote(p)
      PROVE  NetworkStep
    BY <1>9 DEF Devote, Send, NetworkStep, PrepareReq
<1>10. ASSUME NEW p \in Nodes, Vote(p)
       PROVE  NetworkStep
    <2>1. best[p].from \in Nodes /\ window[p] \in Ballot /\ accBallot[p] < window[p]
        BY <1>10, Domains DEF Vote, TypeRest, Request
    <2>2. /\ msgs' = msgs \cup {PrepareResp(p, best[p].from,
                                         window[p], LeaseOf(VotingLease(p)))}
          /\ accBallot' = [accBallot EXCEPT ![p] = window[p]]
        BY <1>10 DEF Vote, VotingLease, Send
    <2>3. \/ LeaseOf(VotingLease(p)) = LeaseOf(accLease[p])
          \/ LeaseOf(VotingLease(p)) = NoLease /\ Expired(p)
        BY DEF VotingLease, LeaseOf, TypeRest
    <2>. DEFINE v == PrepareResp(p, best[p].from, window[p],
                                 LeaseOf(VotingLease(p)))
    <2>4. /\ v.type = "prepared" /\ v.from = p /\ v.ballot = window[p]
          /\ v.lease = LeaseOf(VotingLease(p))
        BY DEF PrepareResp
    <2>5. msgs' = msgs \cup {v}
        BY <2>2
    <2>. HIDE DEF v
    <2>6. /\ v \in msgs' /\ msgs \subseteq msgs'
          /\ \A x \in msgs' : x \in msgs \/ x = v \/ x.type \in {"prepare", "rejected"}
        BY <2>5
    <2>7. /\ v.ballot \in Ballot
          /\ accBallot' = [accBallot EXCEPT ![p] = v.ballot]
          /\ accBallot[p] < v.ballot
        BY <2>1, <2>2, <2>4
    <2>8. v.lease = LeaseOf(accLease[p]) \/ (v.lease = NoLease /\ Expired(p))
        BY <2>3, <2>4
    <2>. QED
        BY <2>4, <2>6, <2>7, <2>8, VoteStep
<1>11. ASSUME NEW p \in Nodes, ForgetLease(p)
       PROVE  NetworkStep
    BY <1>11 DEF ForgetLease, NetworkStep
<1>12. ASSUME NEW p \in Nodes, NEW q \in Nodes, ChangeLeaderTo(p, q)
       PROVE  NetworkStep
    <2>. DEFINE h == ChangeLeader(p, q, ballot[p] + 1, ballot[p])
    <2>1. h.type = "change" /\ h.from = p /\ h.old = ballot[p] /\ h.ballot = ballot[p] + 1
        BY DEF ChangeLeader
    <2>. HIDE DEF h
    <2>2. msgs' = msgs \cup {h}
        BY <1>12 DEF ChangeLeaderTo, Send, h
    <2>3. ballot'[p] = ballot[p] + 1 /\ lease'[p] = INVALID
        BY <1>12 DEF ChangeLeaderTo, Advance, TypeRest
    <2>4. HandOverSent(h)
        BY <2>1, <2>3 DEF HandOverSent
    <2>. QED
        BY <2>1, <2>2, <2>4 DEF NetworkStep
<1>13. ASSUME NEW p \in Nodes, DevoteInVain(p)
       PROVE  NetworkStep
    BY <1>13 DEF DevoteInVain, NetworkStep
<1>. QED
    BY <1>1, <1>2, <1>3, <1>4, <1>5, <1>6, <1>7, <1>8, <1>9, <1>10, <1>11, <1>12,
       <1>13 DEF Step, Receive, Run

-----------------------------------------------------------------------------
(* What can happen to an acceptor *)

AcceptorStep ==
    /\ now <= now'
    /\ \A q \in Nodes :
        /\ accBallot[q] <= accBallot'[q]
        /\ \/ accLease'[q] = accLease[q]
           \/ /\ Expired(q) /\ accLease'[q].owner = NoNode
              /\ accLease'[q].ballot = accLease[q].ballot
           \/ \E m \in Proposals :
                /\ accBallot[q] <= m.ballot /\ accBallot'[q] = m.ballot
                /\ accLease'[q].owner = m.from /\ accLease'[q].ballot = m.ballot
                /\ accLease[q].end <= accLease'[q].end

\* What a step can do to an acceptor.
LEMMA StepAcceptor ==
    ASSUME TypeRest, \A p \in Nodes : ~Restart(p), Step
    PROVE  AcceptorStep
<1>1. CASE Tick
    BY <1>1, Domains DEF Tick, AcceptorStep, acceptorVars, TypeRest
<1>2. ASSUME NEW m \in msgs, m.type = "prepare", NEW p \in Nodes, OnPrepareRequest(p, m)
      PROVE  AcceptorStep
    <2>1. accLease' = accLease /\ now' = now
        BY <1>2 DEF OnPrepareRequest
    <2>2. \/ accBallot' = accBallot
          \/ accBallot[p] < m.ballot /\ accBallot' = [accBallot EXCEPT ![p] = m.ballot]
        BY <1>2, OnPrepareRequestEffects
    <2>3. m.ballot \in Ballot
        BY <1>2, MessageFields DEF TypeRest
    <2>4. \A q \in Nodes : accBallot[q] \in Int /\ accBallot[q] <= accBallot'[q]
        <3>1. m.ballot \in Int /\ \A q \in Nodes : accBallot[q] \in Int
            BY <2>3, Domains DEF TypeRest
        <3>2. CASE accBallot' = accBallot
            BY <3>1, <3>2
        <3>3. CASE /\ accBallot[p] < m.ballot
                   /\ accBallot' = [accBallot EXCEPT ![p] = m.ballot]
            BY <3>1, <3>3 DEF TypeRest
        <3>. QED
            BY <2>2, <3>2, <3>3
    <2>. QED
        BY <2>1, <2>4, Domains DEF AcceptorStep, TypeRest
<1>3. ASSUME NEW m \in msgs, m.type = "accept", NEW p \in Nodes, OnAcceptRequest(p, m)
      PROVE  AcceptorStep
    <2>1. now' = now /\ m \in Proposals
        BY <1>3 DEF OnAcceptRequest, Proposals
    <2>2. m.ballot \in Ballot
        BY <1>3, MessageFields DEF TypeRest
    <2>3. CASE accBallot' = accBallot /\ accLease' = accLease
        BY <2>1, <2>3, Domains DEF AcceptorStep, TypeRest
    <2>4. CASE /\ accBallot[p] <= m.ballot
               /\ accBallot' = [accBallot EXCEPT ![p] = m.ballot]
               /\ \E e \in Time :
                    /\ accLease[p].end <= e
                    /\ accLease' = [accLease EXCEPT ![p] =
                            [owner |-> m.from, ballot |-> m.ballot, end |-> e]]
        <3>1. \A q \in Nodes : q # p => accBallot'[q] = accBallot[q] /\ accLease'[q] = accLease[q]
            BY <2>4 DEF TypeRest
        <3>2. /\ accBallot'[p] = m.ballot /\ accLease'[p].owner = m.from
              /\ accLease'[p].ballot = m.ballot /\ accLease[p].end <= accLease'[p].end
            BY <2>4 DEF TypeRest
        <3>. QED
            BY <2>1, <2>2, <2>4, <3>1, <3>2, Domains DEF AcceptorStep, TypeRest
    <2>. QED
        BY <1>3, <2>3, <2>4, OnAcceptRequestEffects
<1>4. ASSUME NEW m \in msgs, m.type = "prepared", OnPrepareResponse(m)
      PROVE  AcceptorStep
    <2>1. accBallot' = accBallot /\ accLease' = accLease /\ now' = now
        BY <1>4 DEF OnPrepareResponse, acceptorVars
    <2>. QED
        BY <2>1, Domains DEF AcceptorStep, TypeRest
<1>5. ASSUME NEW m \in msgs, m.type = "accepted", OnAcceptResponse(m)
      PROVE  AcceptorStep
    <2>1. accBallot' = accBallot /\ accLease' = accLease /\ now' = now
        BY <1>5, OnAcceptResponseEffects DEF acceptorVars
    <2>. QED
        BY <2>1, Domains DEF AcceptorStep, TypeRest
<1>6. ASSUME NEW m \in msgs, LearnBallot(m),
           m.type \in {"prepared", "accepted", "rejected"}
      PROVE  AcceptorStep
    <2>1. accBallot' = accBallot /\ accLease' = accLease /\ now' = now
        BY <1>6 DEF LearnBallot, acceptorVars
    <2>. QED
        BY <2>1, Domains DEF AcceptorStep, TypeRest
<1>7. ASSUME NEW m \in msgs, m.type = "change", OnChangeLeader(m)
      PROVE  AcceptorStep
    <2>1. accBallot' = accBallot /\ accLease' = accLease /\ now' = now
        BY <1>7 DEF OnChangeLeader, acceptorVars
    <2>. QED
        BY <2>1, Domains DEF AcceptorStep, TypeRest
<1>8. ASSUME NEW p \in Nodes, RenewLease(p)
      PROVE  AcceptorStep
    <2>1. accBallot' = accBallot /\ accLease' = accLease /\ now' = now
        BY <1>8 DEF RenewLease, acceptorVars
    <2>. QED
        BY <2>1, Domains DEF AcceptorStep, TypeRest
<1>9. ASSUME NEW p \in Nodes, Devote(p)
      PROVE  AcceptorStep
    <2>1. accBallot' = accBallot /\ accLease' = accLease /\ now' = now
        BY <1>9 DEF Devote, acceptorVars
    <2>. QED
        BY <2>1, Domains DEF AcceptorStep, TypeRest
<1>10. ASSUME NEW p \in Nodes, Vote(p)
       PROVE  AcceptorStep
    <2>1. /\ accBallot' = [accBallot EXCEPT ![p] = window[p]] /\ window[p] > accBallot[p]
          /\ now' = now
        BY <1>10 DEF Vote
    <2>2. window[p] \in Ballot
        BY DEF TypeRest
    <2>3. accLease' = [accLease EXCEPT ![p] = VotingLease(p)]
        BY <1>10 DEF Vote, VotingLease
    <2>4. \/ VotingLease(p) = accLease[p]
          \/ /\ Expired(p) /\ VotingLease(p).owner = NoNode
             /\ VotingLease(p).ballot = accLease[p].ballot
        BY DEF VotingLease, TypeRest
    <2>. QED
        BY <2>1, <2>2, <2>3, <2>4, Domains DEF AcceptorStep, TypeRest
<1>11. ASSUME NEW p \in Nodes, ForgetLease(p)
       PROVE  AcceptorStep
    <2>1. accBallot' = accBallot /\ now' = now
        BY <1>11 DEF ForgetLease
    <2>2. /\ Expired(p) /\ accLease'[p].owner = NoNode
          /\ accLease'[p].ballot = accLease[p].ballot
          /\ \A q \in Nodes : q # p => accLease'[q] = accLease[q]
        BY <1>11 DEF ForgetLease, TypeRest
    <2>. QED
        BY <2>1, <2>2, Domains DEF AcceptorStep, TypeRest
<1>12. ASSUME NEW p \in Nodes, NEW q \in Nodes, ChangeLeaderTo(p, q)
       PROVE  AcceptorStep
    <2>1. accBallot' = accBallot /\ accLease' = accLease /\ now' = now
        BY <1>12 DEF ChangeLeaderTo, acceptorVars
    <2>. QED
        BY <2>1, Domains DEF AcceptorStep, TypeRest
<1>13. ASSUME NEW p \in Nodes, DevoteInVain(p)
       PROVE  AcceptorStep
    BY <1>13, Domains DEF DevoteInVain, AcceptorStep, acceptorVars, TypeRest
<1>. QED
    BY <1>1, <1>2, <1>3, <1>4, <1>5, <1>6, <1>7, <1>8, <1>9, <1>10, <1>11, <1>12,
       <1>13 DEF Step, Receive, Run

-----------------------------------------------------------------------------
(* What can happen to a proposer *)

ProposerStep ==
    \A p \in Nodes :
        /\ ballot[p] <= ballot'[p]
        /\ \/ prepareOk'[p] = {}
           \/ /\ ballot'[p] = ballot[p]
              /\ \A q \in prepareOk'[p] :
                    \/ q \in prepareOk[p]
                    \/ \E v \in Votes :
                            /\ v.from = q /\ v.to = p /\ v.ballot = ballot[p]
                            /\ LeaseAllows(p, v.lease)
        /\ \A q \in Nodes :
            \/ promised'[p][q] = 0
            \/ /\ ballot'[p] = ballot[p]
               /\ \/ promised'[p][q] = promised[p][q]
                  \/ \E g \in Grants :
                        /\ g.from = q /\ g.to = p /\ g.ballot = ballot[p]
                        /\ promised'[p][q] = g.start + LeaseInterval
        /\ \/ source'[p] = NoSource
           \/ source'[p] = source[p] /\ ballot'[p] = ballot[p]
           \/ \E h \in HandOvers :
                /\ h.to = p /\ h.ballot = ballot'[p]
                /\ h.from = source'[p].addr /\ h.old = source'[p].ballot
        /\ \/ prepared'[p] = prepared[p]
           \/ prepared'[p] = ballot[p] /\ ballot' = ballot /\ IsMajority(prepareOk'[p])

\* A step that leaves ballot, votes and promises alone is a ProposerStep ...
LEMMA ProposerSame ==
    ASSUME TypeRest, UNCHANGED <<ballot, countVars, source, prepared>>
    PROVE  ProposerStep
<1>1. \A p \in Nodes : ballot[p] <= ballot'[p]
    BY Domains DEF TypeRest
<1>. QED
    BY <1>1 DEF ProposerStep, countVars

\* ... and so is one that starts a higher ballot.
LEMMA ProposerAdvance ==
    ASSUME TypeRest, prepared' = prepared, NEW r \in Nodes, NEW b0 \in Ballot,
           b0 > ballot[r], Advance(r, b0)
    PROVE  ProposerStep
<1>1. \A p \in Nodes : p # r =>
        /\ ballot'[p] = ballot[p] /\ prepareOk'[p] = prepareOk[p]
        /\ promised'[p] = promised[p] /\ source'[p] = source[p]
    BY DEF Advance, TypeRest
<1>2. /\ ballot'[r] = b0 /\ prepareOk'[r] = {} /\ source'[r] = NoSource
      /\ \A q \in Nodes : promised'[r][q] = 0
    BY DEF Advance, TypeRest
<1>3. \A p \in Nodes : ballot[p] <= ballot'[p]
    <2>1. b0 \in Int /\ \A p \in Nodes : ballot[p] \in Int
        BY Domains DEF TypeRest
    <2>2. ballot[r] <= ballot'[r]
        BY <1>2, <2>1
    <2>. QED
        BY <1>1, <2>1, <2>2
<1>. QED
    BY <1>1, <1>2, <1>3 DEF ProposerStep

\* What a step can do to a proposer.
LEMMA StepProposer ==
    ASSUME TypeRest, \A p \in Nodes : ~Restart(p), Step
    PROVE  ProposerStep
<1>1. CASE Tick
    <2>1. UNCHANGED <<ballot, countVars, source, prepared>>
        BY <1>1 DEF Tick, proposerVars
    <2>. QED
        BY <2>1, ProposerSame
<1>2. ASSUME NEW m \in msgs, m.type = "prepare", NEW p \in Nodes, OnPrepareRequest(p, m)
      PROVE  ProposerStep
    <2>1. m.ballot \in Ballot /\ prepared' = prepared
        BY <1>2, MessageFields DEF TypeRest, OnPrepareRequest
    <2>2. CASE m.ballot > ballot[p] /\ Advance(p, m.ballot)
        BY <2>1, <2>2, ProposerAdvance
    <2>3. CASE UNCHANGED <<ballot, countVars, source>>
        BY <2>1, <2>3, ProposerSame
    <2>. QED
        BY <1>2, <2>2, <2>3 DEF OnPrepareRequest
<1>3. ASSUME NEW m \in msgs, m.type = "accept", NEW p \in Nodes, OnAcceptRequest(p, m)
      PROVE  ProposerStep
    <2>1. m.ballot \in Ballot /\ prepared' = prepared
        BY <1>3, MessageFields DEF TypeRest, OnAcceptRequest
    <2>2. CASE m.ballot > ballot[p] /\ Advance(p, m.ballot)
        BY <2>1, <2>2, ProposerAdvance
    <2>3. CASE UNCHANGED <<ballot, countVars, source>>
        BY <2>1, <2>3, ProposerSame
    <2>. QED
        BY <1>3, <2>2, <2>3 DEF OnAcceptRequest
<1>4. ASSUME NEW m \in msgs, m.type = "prepared", OnPrepareResponse(m)
      PROVE  ProposerStep
    <2>1. m.to \in Nodes /\ m.from \in Nodes /\ m \in Votes
        BY <1>4, MessageFields DEF TypeRest, Votes
    <2>. DEFINE r == m.to
                ok == prepareOk[r] \cup {m.from}
    <2>2. /\ UNCHANGED <<ballot, promised, source>>
          /\ prepareOk' = [prepareOk EXCEPT ![r] = ok]
          /\ m.ballot = ballot[r] /\ LeaseAllows(r, m.lease)
        BY <1>4 DEF OnPrepareResponse, Counts
    <2>3. \A p \in Nodes : \A q \in prepareOk'[p] :
            \/ q \in prepareOk[p]
            \/ \E v \in Votes : /\ v.from = q /\ v.to = p /\ v.ballot = ballot[p]
                               /\ LeaseAllows(p, v.lease)
        BY <2>1, <2>2 DEF TypeRest
    <2>4. \A p \in Nodes :
            \/ prepared'[p] = prepared[p]
            \/ prepared'[p] = ballot[p] /\ ballot' = ballot /\ IsMajority(prepareOk'[p])
        <3>1. CASE Cardinality(ok) = Cardinality(Nodes) \div 2 + 1
            <4>1. prepared' = [prepared EXCEPT ![r] = ballot[r]]
                BY <1>4, <3>1 DEF OnPrepareResponse
            <4>2. ok \in SUBSET Nodes
                BY <2>1 DEF TypeRest
            <4>3. IsMajority(ok)
                BY <3>1, <4>2, HalfPlusOne
            <4>4. prepareOk'[r] = ok
                BY <2>1, <2>2 DEF TypeRest
            <4>. QED
                BY <2>1, <2>2, <4>1, <4>3, <4>4 DEF TypeRest
        <3>2. CASE Cardinality(ok) # Cardinality(Nodes) \div 2 + 1
            BY <1>4, <3>2 DEF OnPrepareResponse
        <3>. QED
            BY <3>1, <3>2
    <2>5. \A p \in Nodes : ballot[p] <= ballot'[p]
        BY <2>2, Domains DEF TypeRest
    <2>. QED
        BY <2>2, <2>3, <2>4, <2>5 DEF ProposerStep
<1>5. ASSUME NEW m \in msgs, m.type = "accepted", OnAcceptResponse(m)
      PROVE  ProposerStep
    <2>1. m.to \in Nodes /\ m.from \in Nodes /\ m \in Grants
        BY <1>5, MessageFields DEF TypeRest, Grants
    <2>2. ballot' = ballot /\ prepared' = prepared /\ m.ballot = ballot[m.to]
        BY <1>5, OnAcceptResponseEffects DEF Counts
    <2>3. \A p \in Nodes : prepareOk'[p] = {} \/ prepareOk'[p] = prepareOk[p]
        <3>1. CASE prepareOk' = prepareOk
            BY <3>1
        <3>2. CASE prepareOk' = [prepareOk EXCEPT ![m.to] = {}]
            BY <2>1, <3>2 DEF TypeRest
        <3>3. CASE prepareOk' = [prepareOk EXCEPT ![m.to] = prepareOk[m.to]]
            BY <2>1, <3>3 DEF TypeRest
        <3>. QED
            BY <1>5, <3>1, <3>2, <3>3, OnAcceptResponseEffects
    <2>4. \A p \in Nodes : source'[p] = NoSource \/ source'[p] = source[p]
        <3>1. CASE source' = source
            BY <3>1
        <3>2. CASE source' = [source EXCEPT ![m.to] = NoSource]
            BY <2>1, <3>2 DEF TypeRest
        <3>. QED
            BY <1>5, <3>1, <3>2, OnAcceptResponseEffects
    <2>5. \A p, q \in Nodes :
            \/ promised'[p][q] = 0 \/ promised'[p][q] = promised[p][q]
            \/ p = m.to /\ q = m.from /\ promised'[p][q] = m.start + LeaseInterval
        <3>1. \A q \in Nodes : \/ Acks(m)[q] = promised[m.to][q]
                               \/ q = m.from /\ Acks(m)[q] = m.start + LeaseInterval
            BY <2>1 DEF Acks, TypeRest
        <3>2. CASE promised' = [promised EXCEPT ![m.to] = Acks(m)]
            BY <2>1, <3>1, <3>2 DEF TypeRest
        <3>3. CASE promised' = [promised EXCEPT ![m.to] = [q \in Nodes |-> 0]]
            BY <2>1, <3>3 DEF TypeRest
        <3>. QED
            BY <1>5, <3>2, <3>3, OnAcceptResponseEffects
    <2>6. \A p \in Nodes : ballot[p] <= ballot'[p]
        BY <2>2, Domains DEF TypeRest
    <2>. QED
        BY <2>1, <2>2, <2>3, <2>4, <2>5, <2>6 DEF ProposerStep
<1>6. ASSUME NEW m \in msgs, LearnBallot(m),
           m.type \in {"prepared", "accepted", "rejected"}
      PROVE  ProposerStep
    <2>1. m.to \in Nodes /\ m.ballot \in Ballot /\ m.ballot > ballot[m.to]
        BY <1>6, MessageFields DEF TypeRest, LearnBallot
    <2>2. prepared' = prepared
        BY <1>6 DEF LearnBallot
    <2>3. CASE Advance(m.to, m.ballot)
        BY <2>1, <2>2, <2>3, ProposerAdvance
    <2>4. CASE m.ballot < MaxBallot /\ Advance(m.to, m.ballot + 1)
        <3>1. m.ballot + 1 \in Ballot /\ m.ballot + 1 > ballot[m.to]
            BY <2>1, <2>4, Domains, TimeAssumption DEF TypeRest
        <3>. QED
            BY <2>1, <2>2, <2>4, <3>1, ProposerAdvance
    <2>. QED
        BY <1>6, <2>3, <2>4 DEF LearnBallot
<1>7. ASSUME NEW m \in msgs, m.type = "change", OnChangeLeader(m)
      PROVE  ProposerStep
    <2>1. m.to \in Nodes /\ m.ballot \in Ballot /\ m \in HandOvers
        BY <1>7, MessageFields DEF TypeRest, HandOvers
    <2>2. /\ prepared' = prepared
          /\ ballot' = [ballot EXCEPT ![m.to] = m.ballot]
          /\ prepareOk' = [prepareOk EXCEPT ![m.to] = {}]
          /\ promised' = [promised EXCEPT ![m.to] = [q \in Nodes |-> 0]]
          /\ source' = [source EXCEPT ![m.to] = [addr |-> m.from, ballot |-> m.old]]
          /\ m.ballot = ballot[m.to] \/ m.ballot > ballot[m.to]
        BY <1>7 DEF OnChangeLeader
    <2>3. \A p \in Nodes : p # m.to =>
            /\ ballot'[p] = ballot[p] /\ prepareOk'[p] = prepareOk[p]
            /\ promised'[p] = promised[p] /\ source'[p] = source[p]
        BY <2>2 DEF TypeRest
    <2>4. /\ ballot'[m.to] = m.ballot /\ prepareOk'[m.to] = {}
          /\ \A q \in Nodes : promised'[m.to][q] = 0
          /\ source'[m.to].addr = m.from /\ source'[m.to].ballot = m.old
        BY <2>1, <2>2 DEF TypeRest
    <2>5. \A p \in Nodes : ballot[p] <= ballot'[p]
        BY <2>1, <2>2, <2>3, <2>4, Domains DEF TypeRest
    <2>. QED
        BY <2>1, <2>2, <2>3, <2>4, <2>5 DEF ProposerStep
<1>8. ASSUME NEW p \in Nodes, RenewLease(p)
      PROVE  ProposerStep
    <2>1. CASE CheckLeader(p)
        <3>1. UNCHANGED <<ballot, countVars, source, prepared>>
            BY <1>8, <2>1 DEF RenewLease, proposerVars
        <3>. QED
            BY <3>1, ProposerSame
    <2>2. CASE ~CheckLeader(p)
        <3>1. /\ UNCHANGED <<ballot, prepared, source>>
              /\ prepareOk' = [prepareOk EXCEPT ![p] = {}]
              /\ promised' = [promised EXCEPT ![p] = [q \in Nodes |-> 0]]
            BY <1>8, <2>2 DEF RenewLease
        <3>2. \A r \in Nodes : prepareOk'[r] = {} \/ prepareOk'[r] = prepareOk[r]
            BY <3>1 DEF TypeRest
        <3>3. \A r, q \in Nodes : promised'[r][q] = 0 \/ promised'[r][q] = promised[r][q]
            BY <3>1 DEF TypeRest
        <3>4. \A r \in Nodes : ballot[r] <= ballot'[r]
            BY <3>1, Domains DEF TypeRest
        <3>. QED
            BY <3>1, <3>2, <3>3, <3>4 DEF ProposerStep
    <2>. QED
        BY <2>1, <2>2
<1>9. ASSUME NEW p \in Nodes, Devote(p)
      PROVE  ProposerStep
    <2>1. prepared' = prepared
        BY <1>9 DEF Devote
    <2>2. CASE ballot[p] < MaxBallot /\ Advance(p, ballot[p] + 1)
        <3>1. ballot[p] + 1 \in Ballot /\ ballot[p] + 1 > ballot[p]
            BY <2>2, Domains, TimeAssumption DEF TypeRest
        <3>. QED
            BY <2>1, <2>2, <3>1, ProposerAdvance
    <2>3. CASE UNCHANGED <<ballot, countVars, source>>
        BY <2>1, <2>3, ProposerSame
    <2>. QED
        BY <1>9, <2>2, <2>3 DEF Devote
<1>10. ASSUME NEW p \in Nodes, Vote(p)
       PROVE  ProposerStep
    <2>1. UNCHANGED <<ballot, countVars, source, prepared>>
        BY <1>10 DEF Vote, proposerVars
    <2>. QED
        BY <2>1, ProposerSame
<1>11. ASSUME NEW p \in Nodes, ForgetLease(p)
       PROVE  ProposerStep
    <2>1. UNCHANGED <<ballot, countVars, source, prepared>>
        BY <1>11 DEF ForgetLease, proposerVars
    <2>. QED
        BY <2>1, ProposerSame
<1>12. ASSUME NEW p \in Nodes, NEW q \in Nodes, ChangeLeaderTo(p, q)
       PROVE  ProposerStep
    <2>1. ballot[p] + 1 \in Ballot /\ ballot[p] + 1 > ballot[p]
        BY <1>12, Domains, TimeAssumption DEF TypeRest, ChangeLeaderTo
    <2>2. prepared' = prepared /\ Advance(p, ballot[p] + 1)
        BY <1>12 DEF ChangeLeaderTo
    <2>. QED
        BY <2>1, <2>2, ProposerAdvance
<1>13. ASSUME NEW p \in Nodes, DevoteInVain(p)
       PROVE  ProposerStep
    BY <1>13, ProposerSame DEF DevoteInVain
<1>. QED
    BY <1>1, <1>2, <1>3, <1>4, <1>5, <1>6, <1>7, <1>8, <1>9, <1>10, <1>11, <1>12,
       <1>13 DEF Step, Receive, Run

-----------------------------------------------------------------------------
(* What can happen to a lease *)

LeaseStep ==
    \A p \in Nodes :
        /\ \/ lease'[p] = lease[p]
           \/ lease'[p] = INVALID
           \/ /\ HandOvers' = HandOvers /\ ballot' = ballot
              /\ 0 < lease'[p]
              /\ \E m \in Grants :
                    /\ m.to = p /\ m.ballot = ballot[p]
                    /\ IsMajority({q \in Nodes : Acks(m)[q] >= lease'[p]})
        /\ CheckLeader(p)' =>
                \/ CheckLeader(p) /\ epoch'[p] = epoch[p]
                \/ /\ epoch'[p] = prepared[p] /\ prepared' = prepared
                   /\ \E g \in Grants : g.to = p

\* A step that leaves the lease alone, or resets it, is a LeaseStep.
LEMMA LeaseSame ==
    ASSUME TypeRest, UNCHANGED leaseVars, now' = now \/ now' = now + 1
    PROVE  LeaseStep
<1>1. \A p \in Nodes : CheckLeader(p)' => CheckLeader(p)
    BY Domains DEF CheckLeader, TypeRest, leaseVars
<1>. QED
    BY <1>1 DEF LeaseStep, leaseVars

LEMMA LeaseReset ==
    ASSUME TypeRest, NEW r \in Nodes, now' = now,
           lease' = [lease EXCEPT ![r] = INVALID],
           epoch' = [epoch EXCEPT ![r] = INVALID]
    PROVE  LeaseStep
<1>1. /\ lease'[r] = INVALID
      /\ \A p \in Nodes : p # r => lease'[p] = lease[p] /\ epoch'[p] = epoch[p]
    BY DEF TypeRest
<1>2. ~CheckLeader(r)'
    <2>1. now \in Nat
        BY Domains DEF TypeRest
    <2>. QED
        BY <1>1, <2>1 DEF CheckLeader
<1>3. \A p \in Nodes : p # r /\ CheckLeader(p)' => CheckLeader(p)
    BY <1>1 DEF CheckLeader
<1>. QED
    BY <1>1, <1>2, <1>3 DEF LeaseStep

\* What a step can do to the lease of a leader.
LEMMA StepLease ==
    ASSUME TypeRest, \A p \in Nodes : ~Restart(p), Step
    PROVE  LeaseStep
<1>1. CASE Tick
    <2>1. UNCHANGED leaseVars /\ now' = now + 1
        BY <1>1 DEF Tick, proposerVars
    <2>. QED
        BY <2>1, LeaseSame
<1>2. ASSUME NEW m \in msgs, m.type = "prepare", NEW p \in Nodes, OnPrepareRequest(p, m)
      PROVE  LeaseStep
    <2>1. UNCHANGED leaseVars /\ now' = now
        BY <1>2 DEF OnPrepareRequest
    <2>. QED
        BY <2>1, LeaseSame
<1>3. ASSUME NEW m \in msgs, m.type = "accept", NEW p \in Nodes, OnAcceptRequest(p, m)
      PROVE  LeaseStep
    <2>1. UNCHANGED leaseVars /\ now' = now
        BY <1>3 DEF OnAcceptRequest
    <2>. QED
        BY <2>1, LeaseSame
<1>4. ASSUME NEW m \in msgs, m.type = "prepared", OnPrepareResponse(m)
      PROVE  LeaseStep
    <2>1. UNCHANGED leaseVars /\ now' = now
        BY <1>4 DEF OnPrepareResponse
    <2>. QED
        BY <2>1, LeaseSame
<1>5. ASSUME NEW m \in msgs, m.type = "accepted", OnAcceptResponse(m)
      PROVE  LeaseStep
    <2>1. m.to \in Nodes /\ m.from \in Nodes /\ m \in Grants
        BY <1>5, MessageFields DEF TypeRest, Grants
    <2>2. /\ ballot' = ballot /\ prepared' = prepared /\ m.ballot = ballot[m.to]
          /\ now' = now
        BY <1>5, OnAcceptResponseEffects DEF Counts
    <2>3. HandOvers' = HandOvers
        <3>1. AcceptReq(m.to, prepared[m.to]).type = "accept"
            BY DEF AcceptReq
        <3>. QED
            BY <1>5, <3>1, OnAcceptResponseEffects DEF HandOvers
    <2>4. CASE UNCHANGED leaseVars
        BY <2>2, <2>4, LeaseSame
    <2>5. ASSUME NEW t \in {Acks(m)[q] : q \in Nodes},
                 IsMajority({q \in Nodes : Acks(m)[q] # 0}),
                 IsMedian(Acks(m), t), NewLease(m.to, t)
          PROVE  LeaseStep
        <3>1. Acks(m) \in [Nodes -> Time \ {INVALID}]
            BY <1>5, AcksType
        <3>2. t \in Time \ {INVALID} /\ t \in Nat
            BY <3>1, Domains
        <3>3. t # 0
            <4>1. SUFFICES ASSUME t = 0 PROVE FALSE
                OBVIOUS
            <4>2. \A q \in Nodes : Acks(m)[q] \in Nat
                BY <3>1, Domains
            <4>3. {q \in Nodes : Acks(m)[q] # 0} = {q \in Nodes : Acks(m)[q] > t}
                BY <4>1, <4>2
            <4>. QED
                BY <2>5, <4>3 DEF IsMedian
        <3>4. IsMajority({q \in Nodes : Acks(m)[q] >= t})
            BY <2>5 DEF IsMedian
        <3>. DEFINE revoked == role[m.to] = "leader" /\ ~CheckLeader(m.to)
                    old == IF revoked THEN INVALID ELSE lease[m.to]
        <3>5. /\ lease' = [lease EXCEPT ![m.to] = IF t > old THEN t ELSE old]
              /\ epoch' = [epoch EXCEPT ![m.to] =
                    IF t > old /\ ~CheckLeader(m.to) THEN prepared[m.to]
                    ELSE IF revoked THEN INVALID ELSE @]
            BY <2>5 DEF NewLease
        <3>6. (revoked => ~CheckLeader(m.to)) /\ (old = INVALID \/ old = lease[m.to])
                /\ (~revoked => old = lease[m.to]) /\ (revoked => old = INVALID)
            OBVIOUS
        <3>. HIDE DEF revoked, old
        <3>7. /\ lease'[m.to] = t \/ lease'[m.to] = lease[m.to] \/ lease'[m.to] = INVALID
              /\ \A p \in Nodes : p # m.to => lease'[p] = lease[p] /\ epoch'[p] = epoch[p]
            BY <2>1, <3>5, <3>6 DEF TypeRest
        <3>8. CheckLeader(m.to)' =>
                \/ CheckLeader(m.to) /\ epoch'[m.to] = epoch[m.to]
                \/ epoch'[m.to] = prepared[m.to]
            <4>1. SUFFICES ASSUME CheckLeader(m.to)'
                           PROVE  \/ CheckLeader(m.to) /\ epoch'[m.to] = epoch[m.to]
                                  \/ epoch'[m.to] = prepared[m.to]
                OBVIOUS
            <4>2. /\ now < lease'[m.to] /\ now \in Nat /\ lease[m.to] \in Int
                  /\ lease'[m.to] = IF t > old THEN t ELSE old
                BY <2>1, <2>2, <3>5, <4>1, Domains DEF CheckLeader, TypeRest
            <4>3. epoch'[m.to] = IF t > old /\ ~CheckLeader(m.to) THEN prepared[m.to]
                                 ELSE IF revoked THEN INVALID ELSE epoch[m.to]
                BY <2>1, <3>5 DEF TypeRest
            <4>4. CASE CheckLeader(m.to)
                BY <3>6, <4>3, <4>4
            <4>5. CASE ~CheckLeader(m.to)
                <5>1. t > old
                    BY <3>2, <3>6, <4>2, <4>5 DEF CheckLeader
                <5>. QED
                    BY <4>3, <4>5, <5>1
            <4>. QED
                BY <4>4, <4>5
        <3>9. \A p \in Nodes : p # m.to /\ CheckLeader(p)' => CheckLeader(p)
            BY <2>2, <3>7 DEF CheckLeader
        <3>10. lease'[m.to] = t =>
                /\ 0 < lease'[m.to]
                /\ IsMajority({q \in Nodes : Acks(m)[q] >= lease'[m.to]})
            BY <3>2, <3>3, <3>4
        <3>. QED
            BY <2>1, <2>2, <2>3, <3>7, <3>8, <3>9, <3>10, Zenon DEF LeaseStep
    <2>. QED
        BY <1>5, <2>4, <2>5, OnAcceptResponseEffects
<1>6. ASSUME NEW m \in msgs, LearnBallot(m),
           m.type \in {"prepared", "accepted", "rejected"}
      PROVE  LeaseStep
    <2>1. UNCHANGED leaseVars /\ now' = now
        BY <1>6 DEF LearnBallot
    <2>. QED
        BY <2>1, LeaseSame
<1>7. ASSUME NEW m \in msgs, m.type = "change", OnChangeLeader(m)
      PROVE  LeaseStep
    <2>1. UNCHANGED leaseVars /\ now' = now
        BY <1>7 DEF OnChangeLeader
    <2>. QED
        BY <2>1, LeaseSame
<1>8. ASSUME NEW p \in Nodes, RenewLease(p)
      PROVE  LeaseStep
    <2>1. CASE CheckLeader(p)
        <3>1. UNCHANGED leaseVars /\ now' = now
            BY <1>8, <2>1 DEF RenewLease, proposerVars
        <3>. QED
            BY <3>1, LeaseSame
    <2>2. CASE ~CheckLeader(p)
        <3>1. /\ lease' = [lease EXCEPT ![p] = INVALID]
              /\ epoch' = [epoch EXCEPT ![p] = INVALID] /\ now' = now
            BY <1>8, <2>2 DEF RenewLease
        <3>. QED
            BY <3>1, LeaseReset
    <2>. QED
        BY <2>1, <2>2
<1>9. ASSUME NEW p \in Nodes, Devote(p)
      PROVE  LeaseStep
    <2>1. UNCHANGED leaseVars /\ now' = now
        BY <1>9 DEF Devote
    <2>. QED
        BY <2>1, LeaseSame
<1>10. ASSUME NEW p \in Nodes, Vote(p)
       PROVE  LeaseStep
    <2>1. UNCHANGED leaseVars /\ now' = now
        BY <1>10 DEF Vote, proposerVars
    <2>. QED
        BY <2>1, LeaseSame
<1>11. ASSUME NEW p \in Nodes, ForgetLease(p)
       PROVE  LeaseStep
    <2>1. UNCHANGED leaseVars /\ now' = now
        BY <1>11 DEF ForgetLease, proposerVars
    <2>. QED
        BY <2>1, LeaseSame
<1>12. ASSUME NEW p \in Nodes, NEW q \in Nodes, ChangeLeaderTo(p, q)
       PROVE  LeaseStep
    <2>1. /\ lease' = [lease EXCEPT ![p] = INVALID]
          /\ epoch' = [epoch EXCEPT ![p] = INVALID] /\ now' = now
        BY <1>12 DEF ChangeLeaderTo
    <2>. QED
        BY <2>1, LeaseReset
<1>13. ASSUME NEW p \in Nodes, DevoteInVain(p)
       PROVE  LeaseStep
    BY <1>13, LeaseSame DEF DevoteInVain
<1>. QED
    BY <1>1, <1>2, <1>3, <1>4, <1>5, <1>6, <1>7, <1>8, <1>9, <1>10, <1>11, <1>12,
       <1>13 DEF Step, Receive, Run

-----------------------------------------------------------------------------
(* The argument.  What has been won, granted and handed over stays so. *)

\* Votes are never taken back.
LEMMA VotersGrow ==
    ASSUME msgs \subseteq msgs', NEW p, NEW b0
    PROVE  Voters(p, b0) \subseteq Voters(p, b0)'
BY DEF Voters, Votes, Countable, HandOvers

\* A ballot that is won stays won.
LEMMA WonStable ==
    ASSUME msgs \subseteq msgs', NEW p, NEW b0, Won(p, b0)
    PROVE  Won(p, b0)'
<1>1. Voters(p, b0) \subseteq Voters(p, b0)'
    BY VotersGrow
<1>2. Voters(p, b0)' \in SUBSET Nodes
    BY DEF Voters
<1>3. IsMajority(Voters(p, b0))
    BY DEF Won
<1>. HIDE DEF Voters
<1>4. IsMajority(Voters(p, b0)')
    BY <1>1, <1>2, <1>3, MajorityGrows
<1>. QED
    BY <1>4 DEF Won, IsMajority

\* A ballot is won by one proposer: two majorities meet in an acceptor, and it
\* votes once.
LEMMA WonUnique ==
    ASSUME VoteOnce, NEW p, NEW r, NEW b0, Won(p, b0), Won(r, b0)
    PROVE  p = r
<1>1. Voters(p, b0) \in SUBSET Nodes /\ Voters(r, b0) \in SUBSET Nodes
    BY DEF Voters
<1>2. PICK q \in Nodes : q \in Voters(p, b0) /\ q \in Voters(r, b0)
    BY <1>1, MajoritiesMeet DEF Won
<1>. QED
    BY <1>2 DEF Voters, VoteOnce

\* The conjuncts of the invariant, one by one.
LEMMA VoteOnceStep ==
    ASSUME TypeRest, VoteOnce, Promised, NetworkStep
    PROVE  VoteOnce'
<1>. SUFFICES ASSUME NEW m \in Votes', NEW n \in Votes',
                     m.from = n.from, m.ballot = n.ballot
              PROVE  m.to = n.to
    BY DEF VoteOnce
<1>1. \A v \in Votes' : v \in Votes \/ VoteSent(v)
    BY DEF NetworkStep, Votes
<1>2. \A v \in Votes : v.from \in Nodes /\ v.ballot \in Int /\ accBallot[v.from] \in Int
                        /\ v.ballot <= accBallot[v.from]
    BY MessageFields, Domains DEF Votes, TypeRest, Promised
<1>3. CASE m \in Votes /\ n \in Votes
    BY <1>3 DEF VoteOnce
<1>4. CASE m \notin Votes
    <2>1. VoteSent(m)
        BY <1>1, <1>4
    <2>2. CASE n \in Votes
        BY <1>2, <2>1, <2>2 DEF VoteSent
    <2>3. CASE n \notin Votes
        BY <2>1, <2>3 DEF VoteSent
    <2>. QED
        BY <2>2, <2>3
<1>5. CASE n \notin Votes
    <2>1. VoteSent(n)
        BY <1>1, <1>5
    <2>2. CASE m \in Votes
        BY <1>2, <2>1, <2>2 DEF VoteSent
    <2>3. CASE m \notin Votes
        BY <2>1, <2>3 DEF VoteSent
    <2>. QED
        BY <2>2, <2>3
<1>. QED
    BY <1>3, <1>4, <1>5

\* The types of what the argument talks about
LEMMA Numbers ==
    ASSUME TypeRest
    PROVE  /\ \A v \in Votes : /\ v.from \in Nodes /\ v.to \in Nodes /\ v.ballot \in Ballot
                               /\ v.ballot \in Int /\ v.lease \in VoteLease
           /\ \A g \in Grants : /\ g.from \in Nodes /\ g.to \in Nodes /\ g.ballot \in Ballot
                                /\ g.ballot \in Int /\ g.start \in Nat
                                /\ g.start + LeaseInterval \in Int
           /\ \A m \in Proposals : /\ m.from \in Nodes /\ m.ballot \in Ballot
                                   /\ m.ballot \in Int /\ m.start \in Nat
           /\ \A h \in HandOvers : /\ h.from \in Nodes /\ h.to \in Nodes
                                   /\ h.ballot \in Int /\ h.old \in Int
           /\ \A q \in Nodes : /\ accBallot[q] \in Int /\ ballot[q] \in Int
                               /\ ballot[q] \in Ballot /\ prepared[q] \in Ballot
                               /\ lease[q] \in Int /\ accLease[q].ballot \in Int
                               /\ accLease[q].end \in Int /\ accLease[q].owner \in Node
                               /\ accLease[q].ballot \in Ballot
           /\ now \in Nat
<1>1. LeaseInterval \in Nat
    BY TimeAssumption
<1>2. /\ \A v \in Votes : v \in Message /\ v.type = "prepared"
      /\ \A g \in Grants : g \in Message /\ g.type = "accepted"
      /\ \A m \in Proposals : m \in Message /\ m.type = "accept"
      /\ \A h \in HandOvers : h \in Message /\ h.type = "change"
    BY DEF Votes, Grants, Proposals, HandOvers, TypeRest
<1>3. \A v \in Votes : /\ v.from \in Nodes /\ v.to \in Nodes /\ v.ballot \in Ballot
                       /\ v.ballot \in Int /\ v.lease \in VoteLease
    BY <1>2, MessageFields, Domains
<1>4. \A g \in Grants : /\ g.from \in Nodes /\ g.to \in Nodes /\ g.ballot \in Ballot
                        /\ g.ballot \in Int /\ g.start \in Nat
                        /\ g.start + LeaseInterval \in Int
    BY <1>1, <1>2, MessageFields, Domains
<1>5. \A m \in Proposals : /\ m.from \in Nodes /\ m.ballot \in Ballot
                           /\ m.ballot \in Int /\ m.start \in Nat
    BY <1>2, MessageFields, Domains
<1>6. \A h \in HandOvers : /\ h.from \in Nodes /\ h.to \in Nodes
                           /\ h.ballot \in Int /\ h.old \in Int
    BY <1>2, MessageFields, Domains
<1>7. \A q \in Nodes : /\ accBallot[q] \in Int /\ ballot[q] \in Int
                       /\ ballot[q] \in Ballot /\ prepared[q] \in Ballot
                       /\ lease[q] \in Int /\ accLease[q].ballot \in Int
                       /\ accLease[q].end \in Int /\ accLease[q].owner \in Node
                       /\ accLease[q].ballot \in Ballot
    BY Domains DEF TypeRest
<1>8. now \in Nat
    BY Domains DEF TypeRest
<1>. QED
    BY <1>3, <1>4, <1>5, <1>6, <1>7, <1>8

LEMMA PromisedStep ==
    ASSUME TypeRest, TypeRest', Promised, NetworkStep, AcceptorStep
    PROVE  Promised'
<1>1. \A q \in Nodes : /\ accBallot[q] \in Int /\ accBallot'[q] \in Int
                       /\ accBallot[q] <= accBallot'[q] /\ accLease[q].ballot \in Int
    BY Numbers, Domains DEF AcceptorStep, TypeRest
<1>2. ASSUME NEW v \in Votes' PROVE v.ballot <= accBallot'[v.from]
    <2>1. CASE v \in Votes
        BY <1>1, <2>1, Numbers DEF Promised
    <2>2. CASE v \notin Votes
        <3>1. VoteSent(v) /\ v.from \in Nodes
            BY <2>2, MessageFields DEF NetworkStep, Votes, TypeRest
        <3>. QED
            BY <1>1, <3>1 DEF VoteSent
    <2>. QED
        BY <2>1, <2>2
<1>3. ASSUME NEW g \in Grants' PROVE g.ballot <= accBallot'[g.from]
    <2>1. CASE g \in Grants
        BY <1>1, <2>1, Numbers DEF Promised
    <2>2. CASE g \notin Grants
        <3>1. GrantSent(g) /\ g.from \in Nodes
            BY <2>2, MessageFields DEF NetworkStep, Grants, TypeRest
        <3>. QED
            BY <1>1, <3>1 DEF GrantSent
    <2>. QED
        BY <2>1, <2>2
<1>4. ASSUME NEW q \in Nodes PROVE accLease'[q].ballot <= accBallot'[q]
    <2>1. accLease[q].ballot <= accBallot'[q]
        BY <1>1 DEF Promised
    <2>2. \/ accLease'[q].ballot = accLease[q].ballot
          \/ accLease'[q].ballot = accBallot'[q]
        BY DEF AcceptorStep
    <2>. QED
        BY <1>1, <2>1, <2>2
<1>. QED
    BY <1>2, <1>3, <1>4 DEF Promised

\* A vote that the proposer counts is one that may be counted.
LEMMA AllowedIsCountable ==
    ASSUME TypeRest, Counted, NEW p \in Nodes, NEW v \in Votes,
           v.to = p, v.ballot = ballot[p], LeaseAllows(p, v.lease)
    PROVE  Countable(v)
<1>1. v.lease \in VoteLease
    BY Numbers
<1>2. CASE v.lease = NoLease
    BY <1>2 DEF Countable
<1>3. CASE v.lease # NoLease /\ v.lease.owner = p
    BY <1>3 DEF Countable
<1>4. CASE /\ v.lease # NoLease /\ v.lease.owner # p
           /\ v.lease.owner = source[p].addr /\ v.lease.ballot = source[p].ballot
    <2>1. v.lease.owner \in Nodes
        BY <1>1, <1>4 DEF VoteLease
    <2>2. source[p] # NoSource
        BY <1>4, <2>1, NodesAssumption DEF NoSource
    <2>. QED
        BY <1>4, <2>2 DEF Counted, Countable
<1>. QED
    BY <1>2, <1>3, <1>4 DEF LeaseAllows

LEMMA CountedStep ==
    ASSUME TypeRest, TypeRest', Counted, NetworkStep, ProposerStep
    PROVE  Counted'
<1>1. msgs \subseteq msgs' /\ Grants \subseteq Grants' /\ HandOvers \subseteq HandOvers'
    BY DEF NetworkStep, Grants, HandOvers
<1>2. ASSUME NEW p \in Nodes PROVE prepareOk'[p] \subseteq Voters(p, ballot[p])'
    <2>1. CASE prepareOk'[p] = {}
        BY <2>1
    <2>2. CASE prepareOk'[p] # {}
        <3>. SUFFICES ASSUME NEW q \in prepareOk'[p]
                      PROVE  q \in Voters(p, ballot[p])'
            OBVIOUS
        <3>1. ballot'[p] = ballot[p]
            BY <2>2 DEF ProposerStep
        <3>2. q \in Voters(p, ballot[p])
            <4>1. CASE q \in prepareOk[p]
                BY <4>1 DEF Counted
            <4>2. CASE \E v \in Votes : /\ v.from = q /\ v.to = p /\ v.ballot = ballot[p]
                                        /\ LeaseAllows(p, v.lease)
                BY <4>2, AllowedIsCountable, Numbers DEF Voters
            <4>. QED
                BY <2>2, <4>1, <4>2 DEF ProposerStep
        <3>. DEFINE b0 == ballot[p]
        <3>3. Voters(p, b0) \subseteq {r \in Nodes : \E m \in Votes' :
                m.from = r /\ m.to = p /\ m.ballot = b0 /\ Countable(m)'}
            BY <1>1 DEF Voters, Votes, Countable, HandOvers
        <3>. QED
            BY <3>1, <3>2, <3>3 DEF Voters
    <2>. QED
        BY <2>1, <2>2
<1>3. ASSUME NEW p \in Nodes, NEW q \in Nodes, promised'[p][q] # 0
      PROVE  \E g \in Grants' : /\ g.from = q /\ g.to = p /\ g.ballot = ballot'[p]
                                /\ promised'[p][q] = g.start + LeaseInterval
    BY <1>1, <1>3 DEF ProposerStep, Counted
<1>4. ASSUME NEW p \in Nodes, source'[p] # NoSource
      PROVE  \E h \in HandOvers' :
                /\ h.to = p /\ h.ballot = ballot'[p]
                /\ h.from = source'[p].addr /\ h.old = source'[p].ballot
    BY <1>1, <1>4 DEF ProposerStep, Counted
<1>5. ASSUME NEW h \in HandOvers' PROVE h.old < ballot'[h.from]
    <2>1. CASE h \in HandOvers
        <3>1. h.from \in Nodes /\ h.old \in Int /\ h.old < ballot[h.from]
            BY <2>1, Numbers DEF Counted
        <3>2. ballot[h.from] <= ballot'[h.from] /\ ballot[h.from] \in Int
                /\ ballot'[h.from] \in Int
            BY <3>1, Domains DEF ProposerStep, TypeRest
        <3>. QED
            BY <3>1, <3>2
    <2>2. CASE h \notin HandOvers
        <3>1. HandOverSent(h) /\ h.old \in Int
            BY <2>2, MessageFields, Domains DEF NetworkStep, HandOvers, TypeRest
        <3>. QED
            BY <3>1 DEF HandOverSent
    <2>. QED
        BY <2>1, <2>2
<1>. QED
    BY <1>2, <1>3, <1>4, <1>5 DEF Counted

\* A proposer whose prepared ballot was won has, after the step, won the one it
\* then has prepared.
LEMMA PreparedWon ==
    ASSUME TypeRest, Counted', NetworkStep, ProposerStep,
           NEW p \in Nodes,
           \/ Won(p, prepared[p])
           \/ prepared'[p] = ballot[p] /\ ballot' = ballot /\ IsMajority(prepareOk'[p])
    PROVE  Won(p, prepared[p])'
<1>1. CASE prepared'[p] = ballot[p] /\ ballot' = ballot /\ IsMajority(prepareOk'[p])
    <2>1. prepareOk'[p] \subseteq Voters(p, ballot[p])'
        BY DEF Counted
    <2>2. Voters(p, ballot[p])' \in SUBSET Nodes
        BY DEF Voters
    <2>3. IsMajority(Voters(p, ballot[p])')
        BY <1>1, <2>1, <2>2, MajorityGrows
    <2>4. prepared'[p] = ballot'[p]
        BY <1>1
    <2>5. Won(p, ballot[p])'
        BY <2>3 DEF Won, IsMajority
    <2>. QED
        BY <2>4, <2>5 DEF Won, Voters
<1>2. CASE Won(p, prepared[p]) /\ prepared'[p] = prepared[p]
    <2>. DEFINE b0 == prepared[p]
    <2>1. Voters(p, b0) \subseteq {r \in Nodes : \E m \in Votes' :
                m.from = r /\ m.to = p /\ m.ballot = b0 /\ Countable(m)'}
        BY DEF Voters, Votes, Countable, HandOvers, NetworkStep
    <2>2. Voters(p, b0) \subseteq Voters(p, prepared[p])'
        BY <1>2, <2>1 DEF Voters
    <2>3. Voters(p, prepared[p])' \in SUBSET Nodes
        BY DEF Voters
    <2>4. IsMajority(Voters(p, prepared[p])')
        BY <1>2, <2>2, <2>3, MajorityGrows DEF Won
    <2>. QED
        BY <2>4 DEF Won, IsMajority
<1>. QED
    BY <1>1, <1>2 DEF ProposerStep

\* Behind a valid lease there is a grant.
LEMMA LeaderHasGrant ==
    ASSUME TypeRest, LeaseBacked, NEW p \in Nodes, CheckLeader(p)
    PROVE  \E g \in Grants : g.to = p
<1>1. lease[p] # INVALID
    BY Numbers DEF CheckLeader
<1>2. PICK b0 \in Ballot : IsMajority(Backers(p, b0, lease[p]))
    BY <1>1 DEF LeaseBacked
<1>3. Backers(p, b0, lease[p]) \in SUBSET Nodes
    BY DEF Backers
<1>4. PICK q \in Nodes : q \in Backers(p, b0, lease[p])
    BY <1>2, <1>3, MajorityNotEmpty
<1>. QED
    BY <1>4 DEF Backers

LEMMA WinnersStep ==
    ASSUME TypeRest, TypeRest', Counted', Winners, LeaseBacked,
           NetworkStep, AcceptorStep, ProposerStep
    PROVE  Winners'
<1>1. msgs \subseteq msgs' /\ now <= now' /\ now \in Nat /\ now' \in Nat
    BY Domains DEF NetworkStep, AcceptorStep, TypeRest
<1>2. ASSUME NEW p \in Nodes, NEW m \in Proposals, m.from = p
      PROVE  Won(p, prepared[p])'
    BY <1>2, PreparedWon DEF Winners
<1>3. ASSUME NEW p \in Nodes, NEW g \in Grants, g.to = p
      PROVE  Won(p, prepared[p])'
    BY <1>3, PreparedWon DEF Winners
<1>4. ASSUME NEW m \in Proposals'
      PROVE  Won(m.from, m.ballot)' /\ Won(m.from, prepared[m.from])' /\ m.start <= now'
    <2>1. CASE m \in Proposals
        <3>1. Won(m.from, m.ballot) /\ m.start <= now /\ m.from \in Nodes /\ m.start \in Nat
            BY <2>1, Numbers DEF Winners
        <3>2. Won(m.from, m.ballot)'
            BY <1>1, <3>1, WonStable
        <3>. QED
            BY <1>1, <1>2, <2>1, <3>1, <3>2
    <2>2. CASE m \notin Proposals
        <3>1. ProposalSent(m) /\ m.from \in Nodes
            BY <2>2, MessageFields DEF NetworkStep, Proposals, TypeRest
        <3>2. Won(m.from, prepared[m.from])'
            <4>1. CASE /\ prepared'[m.from] = ballot[m.from] /\ ballot' = ballot
                       /\ IsMajority(prepareOk'[m.from])
                BY <3>1, <4>1, PreparedWon
            <4>2. CASE CheckLeader(m.from)
                BY <1>3, <3>1, <4>2, LeaderHasGrant
            <4>3. CASE \E g \in Grants : g.to = m.from
                BY <1>3, <3>1, <4>3
            <4>. QED
                BY <3>1, <4>1, <4>2, <4>3 DEF ProposalSent
        <3>3. m.ballot = prepared'[m.from] /\ m.start = now
            BY <3>1 DEF ProposalSent
        <3>4. Won(m.from, m.ballot)'
            BY <3>2, <3>3 DEF Won, Voters
        <3>. QED
            BY <1>1, <3>2, <3>3, <3>4
    <2>. QED
        BY <2>1, <2>2
<1>5. ASSUME NEW g \in Grants'
      PROVE  Won(g.to, g.ballot)' /\ Won(g.to, prepared[g.to])'
    <2>1. CASE g \in Grants
        <3>1. Won(g.to, g.ballot) /\ g.to \in Nodes
            BY <2>1, Numbers DEF Winners
        <3>2. Won(g.to, g.ballot)'
            BY <1>1, <3>1, WonStable
        <3>. QED
            BY <1>3, <2>1, <3>1, <3>2
    <2>2. CASE g \notin Grants
        <3>1. PICK m \in Proposals : m.from = g.to /\ m.ballot = g.ballot
            BY <2>2 DEF NetworkStep, Grants, GrantSent
        <3>2. Won(g.to, g.ballot) /\ m.from \in Nodes
            BY <3>1, Numbers DEF Winners
        <3>3. Won(g.to, g.ballot)'
            BY <1>1, <3>2, WonStable
        <3>. QED
            BY <1>2, <3>1, <3>2, <3>3
    <2>. QED
        BY <2>1, <2>2
<1>6. ASSUME NEW q \in Nodes, accLease'[q].owner # NoNode
      PROVE  Won(accLease[q].owner, accLease[q].ballot)'
    <2>. DEFINE o == accLease'[q].owner
                b0 == accLease'[q].ballot
    <2>1. Won(o, b0)
        BY <1>6 DEF AcceptorStep, Winners
    <2>2. Won(o, b0) => {r \in Nodes : \E v \in Votes' :
                v.from = r /\ v.to = o /\ v.ballot = b0 /\ Countable(v)'}
                    \in {S \in SUBSET Nodes : IsMajority(S)}
        <3>. DEFINE T == {r \in Nodes : \E v \in Votes' :
                v.from = r /\ v.to = o /\ v.ballot = b0 /\ Countable(v)'}
        <3>1. Voters(o, b0) \subseteq T
            BY <1>1 DEF Voters, Votes, Countable, HandOvers
        <3>2. T \in SUBSET Nodes
            OBVIOUS
        <3>. HIDE DEF T
        <3>3. Won(o, b0) => IsMajority(T)
            BY <3>1, <3>2, MajorityGrows DEF Won
        <3>. QED
            BY <3>2, <3>3 DEF T
    <2>. QED
        BY <2>1, <2>2 DEF Won, Voters, IsMajority
<1>7. ASSUME NEW v \in Votes', v.lease # NoLease
      PROVE  Won(v.lease.owner, v.lease.ballot)'
    <2>1. CASE v \in Votes
        BY <1>1, <1>7, <2>1, WonStable DEF Winners
    <2>2. CASE v \notin Votes
        <3>1. VoteSent(v) /\ v.from \in Nodes
            BY <2>2, MessageFields DEF NetworkStep, Votes, TypeRest
        <3>2. /\ v.lease.owner = accLease[v.from].owner
              /\ v.lease.ballot = accLease[v.from].ballot
              /\ accLease[v.from].owner # NoNode
            BY <1>7, <3>1 DEF VoteSent, LeaseOf
        <3>3. Won(v.lease.owner, v.lease.ballot)
            BY <3>1, <3>2 DEF Winners
        <3>. QED
            BY <1>1, <3>3, WonStable
    <2>. QED
        BY <2>1, <2>2
<1>. QED
    BY <1>4, <1>5, <1>6, <1>7 DEF Winners

\* A lease is forgotten only after its end (Lease::is_expired()).
LEMMA GrantKeptStep ==
    ASSUME TypeRest, TypeRest', VoteOnce, Promised, Winners, GrantKept,
           NetworkStep, AcceptorStep
    PROVE  GrantKept'
<1>. SUFFICES ASSUME NEW g \in Grants', now' < g.start + LeaseInterval
              PROVE  /\ accLease'[g.from].owner # NoNode
                     /\ g.start + LeaseInterval <= accLease'[g.from].end
                     /\ g.ballot <= accLease'[g.from].ballot
                     /\ g.ballot = accLease'[g.from].ballot =>
                            g.to = accLease'[g.from].owner
    BY DEF GrantKept
<1>1. now <= now' /\ now \in Nat /\ now' \in Nat /\ LeaseInterval \in Nat
    BY Domains, TimeAssumption DEF AcceptorStep, TypeRest
<1>2. /\ g.from \in Nodes /\ g.to \in Nodes /\ g.ballot \in Int /\ g.start \in Nat
      /\ accLease[g.from].end \in Int /\ accLease'[g.from].end \in Int
      /\ accBallot[g.from] \in Int /\ accLease'[g.from].ballot \in Int
    BY MessageFields, Domains DEF Grants, TypeRest
<1>3. CASE g \in Grants
    <2>. DEFINE l == accLease[g.from]
                n == accLease'[g.from]
    <2>1. /\ l.owner # NoNode /\ g.start + LeaseInterval <= l.end
          /\ g.ballot <= l.ballot /\ (g.ballot = l.ballot => g.to = l.owner)
        BY <1>1, <1>2, <1>3 DEF GrantKept
    <2>2. CASE n = l
        BY <2>1, <2>2
    <2>3. CASE Expired(g.from)
        BY <1>1, <1>2, <2>1, <2>3 DEF Expired
    <2>4. ASSUME NEW m \in Proposals,
                 accBallot[g.from] <= m.ballot, n.owner = m.from, n.ballot = m.ballot,
                 l.end <= n.end
          PROVE  /\ n.owner # NoNode /\ g.start + LeaseInterval <= n.end
                 /\ g.ballot <= n.ballot /\ (g.ballot = n.ballot => g.to = n.owner)
        <3>1. m.from \in Nodes /\ m.ballot \in Int
            BY Numbers
        <3>2. g.ballot <= m.ballot
            BY <1>2, <1>3, <2>4, <3>1 DEF Promised
        <3>3. g.ballot = m.ballot => g.to = m.from
            BY <1>3, WonUnique DEF Winners
        <3>4. g.start + LeaseInterval <= n.end
            BY <1>1, <1>2, <2>1, <2>4
        <3>. QED
            BY <2>4, <3>1, <3>2, <3>3, <3>4, NodesAssumption
    <2>. QED
        BY <1>2, <2>2, <2>3, <2>4 DEF AcceptorStep
<1>4. CASE g \notin Grants
    <2>1. GrantSent(g)
        BY <1>4 DEF NetworkStep, Grants
    <2>2. g.start <= now
        BY <2>1 DEF GrantSent, Winners
    <2>3. accLease'[g.from].owner = g.to /\ accLease'[g.from].ballot = g.ballot
            /\ now + LeaseInterval <= accLease'[g.from].end
        BY <2>1 DEF GrantSent
    <2>. QED
        BY <1>1, <1>2, <2>2, <2>3, NodesAssumption
<1>. QED
    BY <1>3, <1>4

\* A vote carries the lease that the acceptor still remembers.
LEMMA VoteTellsLeaseStep ==
    ASSUME TypeRest, TypeRest', Promised, GrantKept, VoteTellsLease,
           NetworkStep, AcceptorStep
    PROVE  VoteTellsLease'
<1>. SUFFICES ASSUME NEW v \in Votes', NEW g \in Grants', v.from = g.from,
                     g.ballot < v.ballot, now' < g.start + LeaseInterval
              PROVE  /\ v.lease # NoLease
                     /\ g.ballot <= v.lease.ballot
                     /\ v.lease.ballot < v.ballot
                     /\ g.ballot = v.lease.ballot => g.to = v.lease.owner
    BY DEF VoteTellsLease
<1>1. now <= now' /\ now \in Nat /\ now' \in Nat /\ LeaseInterval \in Nat
    BY Domains, TimeAssumption DEF AcceptorStep, TypeRest
<1>2. /\ g.from \in Nodes /\ g.ballot \in Int /\ g.start \in Nat /\ v.ballot \in Int
      /\ accLease[g.from].end \in Int /\ accLease[g.from].ballot \in Int
      /\ accBallot[g.from] \in Int
    BY MessageFields, Domains DEF Grants, Votes, TypeRest
<1>3. CASE v \in Votes /\ g \in Grants
    BY <1>1, <1>2, <1>3 DEF VoteTellsLease
<1>4. CASE v \notin Votes
    <2>1. VoteSent(v)
        BY <1>4 DEF NetworkStep, Votes
    <2>2. g \in Grants
        BY <2>1 DEF VoteSent
    <2>3. LET l == accLease[g.from] IN
          /\ l.owner # NoNode /\ g.start + LeaseInterval <= l.end
          /\ g.ballot <= l.ballot /\ (g.ballot = l.ballot => g.to = l.owner)
        BY <1>1, <1>2, <2>2 DEF GrantKept
    <2>4. ~Expired(g.from)
        BY <1>1, <1>2, <2>3 DEF Expired
    <2>5. v.lease = LeaseOf(accLease[g.from])
        BY <2>1, <2>4 DEF VoteSent, Expired
    <2>6. v.lease = [owner |-> accLease[g.from].owner, ballot |-> accLease[g.from].ballot]
        BY <2>3, <2>5 DEF LeaseOf
    <2>7. v.lease # NoLease
        BY <2>3, <2>6 DEF NoLease
    <2>8. accLease[g.from].ballot < v.ballot
        BY <1>2, <2>1 DEF Promised, VoteSent
    <2>. QED
        BY <2>3, <2>6, <2>7, <2>8
<1>5. CASE g \notin Grants
    <2>1. GrantSent(g)
        BY <1>5 DEF NetworkStep, Grants
    <2>2. v \in Votes /\ accBallot[g.from] <= g.ballot
        BY <2>1 DEF GrantSent
    <2>3. v.ballot <= accBallot[g.from]
        BY <2>2 DEF Promised
    <2>. QED
        BY <1>2, <2>2, <2>3
<1>. QED
    BY <1>3, <1>4, <1>5


\* What is lost stays lost: an acceptor above ballot b0 grants nothing in it.
LEMMA LostGrows ==
    ASSUME TypeRest, TypeRest', NetworkStep, AcceptorStep,
           NEW p \in Nodes, NEW b0 \in Ballot
    PROVE  Lost(p, b0) \subseteq Lost(p, b0)'
<1>. SUFFICES ASSUME NEW q \in Nodes, q \in Lost(p, b0)
              PROVE  q \in Lost(p, b0)'
    BY DEF Lost
<1>1. /\ b0 < accBallot[q] /\ accBallot[q] <= accBallot'[q] /\ b0 \in Int
      /\ accBallot[q] \in Int /\ accBallot'[q] \in Int
    BY Domains DEF Lost, AcceptorStep, TypeRest
<1>2. now \in Nat /\ now' \in Nat /\ now <= now' /\ LeaseInterval \in Nat
    BY Domains, TimeAssumption DEF AcceptorStep, TypeRest
<1>3. ASSUME NEW g \in Grants', g.from = q, g.to = p, g.ballot = b0
      PROVE  g.start + LeaseInterval <= now'
    <2>1. CASE g \in Grants
        <3>1. g.start + LeaseInterval <= now /\ g.start \in Nat
            BY <1>3, <2>1, Numbers DEF Lost
        <3>. QED
            BY <1>2, <3>1
    <2>2. CASE g \notin Grants
        <3>1. accBallot[q] <= b0
            BY <1>3, <2>2 DEF NetworkStep, Grants, GrantSent
        <3>. QED
            BY <1>1, <3>1
    <2>. QED
        BY <2>1, <2>2
<1>4. b0 < accBallot'[q]
    BY <1>1
<1>. QED
    BY <1>3, <1>4 DEF Lost

\* A countable vote for r, above a ballot in which its sender has granted p a
\* lease that is still valid, shows a winner between the two ballots.
LEMMA VoteShowsWinner ==
    ASSUME TypeRest, TypeRest', VoteTellsLease', Winners, NetworkStep,
           NEW p \in Nodes, NEW r \in Nodes, p # r,
           NEW b0 \in Ballot, Holds(p, b0)',
           NEW v \in Votes', v.to = r, Countable(v)',
           NEW g \in Grants', g.from = v.from, g.to = p, g.ballot = b0,
           b0 < v.ballot, now' < g.start + LeaseInterval
    PROVE  \E o \in Nodes, b2 \in Ballot : Won(o, b2) /\ b0 < b2 /\ o # p
<1>1. /\ v.lease # NoLease /\ b0 <= v.lease.ballot
      /\ b0 = v.lease.ballot => p = v.lease.owner
    BY DEF VoteTellsLease
<1>2. v.lease \in VoteLease /\ v.from \in Nodes
    BY MessageFields DEF Votes, TypeRest
<1>3. v.lease.owner \in Nodes /\ v.lease.ballot \in Ballot
    BY <1>1, <1>2 DEF VoteLease
<1>4. b0 \in Int /\ v.lease.ballot \in Int
    BY <1>3, Domains
<1>5. v.lease.owner # p
    <2>1. CASE v.lease.owner = r
        BY <2>1
    <2>2. CASE \E h \in HandOvers' : h.from = v.lease.owner /\ h.old = v.lease.ballot
        BY <1>1, <1>4, <2>2 DEF Holds
    <2>. QED
        BY <1>1, <2>1, <2>2 DEF Countable
<1>6. Won(v.lease.owner, v.lease.ballot)
    <2>1. CASE v \in Votes
        BY <1>1, <2>1 DEF Winners
    <2>2. CASE v \notin Votes
        <3>1. VoteSent(v)
            BY <2>2 DEF NetworkStep, Votes
        <3>2. /\ v.lease.owner = accLease[v.from].owner
              /\ v.lease.ballot = accLease[v.from].ballot
              /\ accLease[v.from].owner # NoNode
            BY <1>1, <3>1 DEF VoteSent, LeaseOf
        <3>. QED
            BY <1>2, <3>2 DEF Winners
    <2>. QED
        BY <2>1, <2>2
<1>7. b0 < v.lease.ballot
    BY <1>1, <1>4, <1>5
<1>. QED
    BY <1>3, <1>5, <1>6, <1>7

\* The heart of the argument: the majority that makes a winner meets the
\* majority behind an older lease in an acceptor whose vote tells of the
\* lease.
LEMMA ExcludedStep ==
    ASSUME TypeRest, TypeRest', Promised', VoteTellsLease', Winners, Excluded,
           NetworkStep, AcceptorStep
    PROVE  Excluded'
<1>. SUFFICES ASSUME NEW r \in Nodes, NEW p \in Nodes,
                     NEW b1 \in Ballot, NEW b0 \in Ballot,
                     Won(r, b1)', b0 < b1, p # r, Holds(p, b0)'
              PROVE  IsMajority(Lost(p, b0))'
    BY DEF Excluded
<1>1. Holds(p, b0)
    BY DEF Holds, HandOvers, NetworkStep
<1>2. Lost(p, b0) \subseteq Lost(p, b0)' /\ Lost(p, b0)' \in SUBSET Nodes
    BY LostGrows DEF Lost
<1>3. b0 \in Int /\ b1 \in Int /\ now' \in Nat /\ LeaseInterval \in Nat
    BY Domains, TimeAssumption DEF TypeRest
<1>4. CASE \E q \in Nodes :
             /\ q \in Voters(r, b1)'
             /\ \E g \in Grants' : /\ g.from = q /\ g.to = p /\ g.ballot = b0
                                   /\ now' < g.start + LeaseInterval
    <2>1. PICK q \in Nodes :
             /\ q \in Voters(r, b1)'
             /\ \E g \in Grants' : /\ g.from = q /\ g.to = p /\ g.ballot = b0
                                   /\ now' < g.start + LeaseInterval
        BY <1>4
    <2>2. PICK g \in Grants' : /\ g.from = q /\ g.to = p /\ g.ballot = b0
                               /\ now' < g.start + LeaseInterval
        BY <2>1
    <2>3. PICK v \in Votes' : v.from = q /\ v.to = r /\ v.ballot = b1 /\ Countable(v)'
        BY <2>1 DEF Voters
    <2>4. PICK o \in Nodes, b2 \in Ballot : Won(o, b2) /\ b0 < b2 /\ o # p
        BY <2>2, <2>3, VoteShowsWinner
    <2>5. IsMajority(Lost(p, b0))
        BY <1>1, <2>4 DEF Excluded
    <2>6. IsMajority(Lost(p, b0)')
        BY <1>2, <2>5, MajorityGrows
    <2>. QED
        BY <2>6 DEF IsMajority
<1>5. CASE \A q \in Nodes : q \in Voters(r, b1)' =>
             \A g \in Grants' : g.from = q /\ g.to = p /\ g.ballot = b0
                                   => ~(now' < g.start + LeaseInterval)
    <2>1. ASSUME NEW q \in Nodes, q \in Voters(r, b1)'
          PROVE  q \in Lost(p, b0)'
        <3>1. PICK v \in Votes' : v.from = q /\ v.ballot = b1
            BY <2>1 DEF Voters
        <3>2. b1 <= accBallot'[q] /\ accBallot'[q] \in Int
            BY <3>1, Domains DEF Promised, TypeRest
        <3>3. b0 < accBallot'[q]
            BY <1>3, <3>2
        <3>4. \A g \in Grants' : g.start + LeaseInterval \in Int
            BY MessageFields, Domains, TimeAssumption DEF Grants, TypeRest
        <3>5. \A g \in Grants' : g.from = q /\ g.to = p /\ g.ballot = b0
                                   => g.start + LeaseInterval <= now'
            BY <1>3, <1>5, <2>1, <3>4
        <3>. QED
            BY <3>3, <3>5 DEF Lost
    <2>2. Voters(r, b1)' \in SUBSET Nodes
        BY DEF Voters
    <2>3. Voters(r, b1)' \subseteq Lost(p, b0)'
        BY <2>1, <2>2
    <2>4. IsMajority(Voters(r, b1)')
        BY DEF Won, IsMajority
    <2>5. IsMajority(Lost(p, b0)')
        BY <1>2, <2>3, <2>4, MajorityGrows
    <2>. QED
        BY <2>5 DEF IsMajority
<1>. QED
    BY <1>4, <1>5

\* Every promise that record_accept_ok() counts is a grant in the ballot.
LEMMA AcksAreGrants ==
    ASSUME TypeRest, Counted, NEW m \in Grants, m.ballot = ballot[m.to],
           NEW q \in Nodes, Acks(m)[q] # 0
    PROVE  \E g \in Grants : /\ g.from = q /\ g.to = m.to /\ g.ballot = ballot[m.to]
                             /\ Acks(m)[q] = g.start + LeaseInterval
<1>1. m.to \in Nodes /\ m.from \in Nodes
    BY Numbers
<1>2. promised[m.to] \in [Nodes -> Time \ {INVALID}]
    BY <1>1 DEF TypeRest
<1>3. CASE Acks(m)[q] = promised[m.to][q]
    BY <1>1, <1>3 DEF Counted
<1>4. CASE q = m.from /\ Acks(m)[q] = m.start + LeaseInterval
    BY <1>4
<1>. QED
    BY <1>2, <1>3, <1>4 DEF Acks

\* The lease of a leader is the median of promises that were sent.
LEMMA LeaseBackedStep ==
    ASSUME TypeRest, TypeRest', Counted, LeaseBacked, NetworkStep, LeaseStep
    PROVE  LeaseBacked'
<1>. SUFFICES ASSUME NEW p \in Nodes, lease'[p] # INVALID
              PROVE  \E b0 \in Ballot : Holds(p, b0)' /\ IsMajority(Backers(p, b0, lease[p])')
    BY DEF LeaseBacked, IsMajority
<1>1. Grants \subseteq Grants' /\ LeaseInterval \in Nat /\ lease'[p] \in Int
    BY Domains, TimeAssumption DEF NetworkStep, Grants, TypeRest
<1>2. CASE lease'[p] = lease[p]
    <2>1. PICK b0 \in Ballot : Holds(p, b0) /\ IsMajority(Backers(p, b0, lease[p]))
        BY <1>2 DEF LeaseBacked
    <2>2. \A h \in HandOvers' : h.from = p => h \in HandOvers
        BY DEF NetworkStep, HandOvers, HandOverSent
    <2>3. Holds(p, b0)'
        BY <2>1, <2>2 DEF Holds
    <2>4. Backers(p, b0, lease[p]) \subseteq Backers(p, b0, lease[p])'
        BY <1>1, <1>2 DEF Backers
    <2>5. Backers(p, b0, lease[p])' \in SUBSET Nodes
        BY DEF Backers
    <2>6. IsMajority(Backers(p, b0, lease[p])')
        BY <2>1, <2>4, <2>5, MajorityGrows
    <2>. QED
        BY <2>3, <2>6
<1>3. CASE /\ HandOvers' = HandOvers /\ 0 < lease'[p]
           /\ \E m \in Grants :
                    /\ m.to = p /\ m.ballot = ballot[p]
                    /\ IsMajority({q \in Nodes : Acks(m)[q] >= lease'[p]})
    <2>1. PICK m \in Grants :
                    /\ m.to = p /\ m.ballot = ballot[p]
                    /\ IsMajority({q \in Nodes : Acks(m)[q] >= lease'[p]})
        BY <1>3
    <2>2. PICK b0 \in Ballot : b0 = ballot[p]
        BY DEF TypeRest
    <2>3. Holds(p, b0)'
        BY <1>3, <2>2 DEF Holds, Counted
    <2>4. {q \in Nodes : Acks(m)[q] >= lease'[p]} \subseteq
            {q \in Nodes : \E g \in Grants' :
                /\ g.from = q /\ g.to = p /\ g.ballot = b0
                /\ lease'[p] <= g.start + LeaseInterval}
        <3>. SUFFICES ASSUME NEW q \in Nodes, Acks(m)[q] >= lease'[p]
                      PROVE  \E g \in Grants' :
                                /\ g.from = q /\ g.to = p /\ g.ballot = b0
                                /\ lease'[p] <= g.start + LeaseInterval
            OBVIOUS
        <3>1. Acks(m)[q] \in Nat
            <4>1. Acks(m) \in [Nodes -> Time \ {INVALID}]
                BY <2>1, AcksType DEF Grants
            <4>2. Acks(m)[q] \in Time \ {INVALID}
                BY <4>1
            <4>. QED
                BY <4>2, Domains
        <3>2. Acks(m)[q] # 0
            BY <1>1, <1>3, <3>1
        <3>3. PICK g \in Grants : /\ g.from = q /\ g.to = p /\ g.ballot = b0
                                  /\ Acks(m)[q] = g.start + LeaseInterval
            BY <2>1, <2>2, <3>2, AcksAreGrants
        <3>4. lease'[p] <= g.start + LeaseInterval
            BY <1>1, <3>1, <3>3
        <3>. QED
            BY <1>1, <3>3, <3>4
    <2>5. {q \in Nodes : Acks(m)[q] >= lease'[p]} \subseteq Backers(p, b0, lease[p])'
        BY <2>4 DEF Backers
    <2>6. Backers(p, b0, lease[p])' \in SUBSET Nodes
        BY DEF Backers
    <2>7. IsMajority(Backers(p, b0, lease[p])')
        BY <2>1, <2>5, <2>6, MajorityGrows
    <2>. QED
        BY <2>2, <2>3, <2>7
<1>. QED
    BY <1>2, <1>3 DEF LeaseStep

\* An epoch is a ballot that its leader has won.
LEMMA EpochsStep ==
    ASSUME TypeRest, Winners', Winners, Epochs, NetworkStep, ProposerStep, LeaseStep,
           leaders' = leaders \cup
                {<<p, epoch'[p]>> : p \in {q \in Nodes : now' < lease'[q]}}
    PROVE  Epochs'
<1>1. msgs \subseteq msgs'
    BY DEF NetworkStep
<1>2. ASSUME NEW p \in Nodes, CheckLeader(p)' PROVE Won(p, epoch[p])'
    <2>1. PICK e : e = epoch'[p]
        OBVIOUS
    <2>2. CASE CheckLeader(p) /\ epoch'[p] = epoch[p]
        <3>1. Won(p, e)
            BY <2>1, <2>2 DEF Epochs
        <3>2. Won(p, e)'
            BY <1>1, <3>1, WonStable
        <3>. QED
            BY <2>1, <3>2 DEF Won, Voters
    <2>3. CASE epoch'[p] = prepared[p] /\ prepared' = prepared /\ \E g \in Grants : g.to = p
        <3>1. Won(p, prepared[p])
            BY <2>3 DEF Winners
        <3>2. Won(p, e)
            BY <2>1, <2>3, <3>1
        <3>3. Won(p, e)'
            BY <1>1, <3>2, WonStable
        <3>. QED
            BY <2>1, <3>3 DEF Won, Voters
    <2>. QED
        BY <1>2, <2>2, <2>3 DEF LeaseStep
<1>3. ASSUME NEW x \in leaders' PROVE Won(x[1], x[2])'
    <2>1. CASE x \in leaders
        BY <1>1, <2>1, WonStable DEF Epochs
    <2>2. CASE x \notin leaders
        <3>1. PICK p \in Nodes : x = <<p, epoch'[p]>> /\ now' < lease'[p]
            BY <2>2
        <3>2. Won(p, epoch[p])'
            BY <1>2, <3>1 DEF CheckLeader
        <3>. QED
            BY <3>1, <3>2 DEF Won, Voters
    <2>. QED
        BY <2>1, <2>2
<1>. QED
    BY <1>2, <1>3 DEF Epochs

-----------------------------------------------------------------------------
(* The theorems *)

\* The invariant holds before anything has been sent.
LEMMA InitInv == Init => IInv
<1>. SUFFICES ASSUME Init PROVE IInv
    OBVIOUS
<1>1. TypeOK
    BY InitType
<1>2. Votes = {} /\ Proposals = {} /\ Grants = {} /\ HandOvers = {}
    BY DEF Init, Votes, Proposals, Grants, HandOvers
<1>3. VoteOnce /\ Promised
    <2>1. \A q \in Nodes : accLease[q].ballot <= accBallot[q]
        BY DEF Init
    <2>. QED
        BY <1>2, <2>1 DEF VoteOnce, Promised
<1>4. Counted
    BY <1>2 DEF Counted, Init
<1>5. Winners
    BY <1>2 DEF Winners, Init
<1>6. GrantKept /\ VoteTellsLease
    BY <1>2 DEF GrantKept, VoteTellsLease
<1>7. \A p, b0 : ~Won(p, b0)
    <2>1. \A p, b0 : Voters(p, b0) = {}
        BY <1>2 DEF Voters
    <2>2. ~IsMajority({})
        BY MajorityNotEmpty
    <2>. QED
        BY <2>1, <2>2 DEF Won
<1>8. Excluded
    BY <1>7 DEF Excluded
<1>9. LeaseBacked
    BY DEF LeaseBacked, Init
<1>10. Epochs
    BY DEF Epochs, Init, CheckLeader
<1>. QED
    BY <1>1, <1>3, <1>4, <1>5, <1>6, <1>8, <1>9, <1>10 DEF IInv

\* What is allowed to change keeps the invariant.
LEMMA EffectsInv ==
    ASSUME IInv, TypeRest, TypeRest', NetworkStep, AcceptorStep, ProposerStep, LeaseStep
    PROVE  /\ VoteOnce' /\ Promised' /\ Counted' /\ Winners'
           /\ GrantKept' /\ VoteTellsLease' /\ Excluded' /\ LeaseBacked'
<1>1. VoteOnce' /\ Promised' /\ Counted'
    BY VoteOnceStep, PromisedStep, CountedStep DEF IInv
<1>2. Winners'
    BY <1>1, WinnersStep DEF IInv
<1>3. GrantKept' /\ VoteTellsLease'
    BY GrantKeptStep, VoteTellsLeaseStep DEF IInv
<1>4. Excluded'
    BY <1>1, <1>3, ExcludedStep DEF IInv
<1>5. LeaseBacked'
    BY LeaseBackedStep DEF IInv
<1>. QED
    BY <1>1, <1>2, <1>3, <1>4, <1>5

\* IInv is inductive.
LEMMA NextInv ==
    ASSUME NoRestarts, IInv, [Next]_vars
    PROVE  IInv'
<1>1. TypeOK'
    BY NextType DEF IInv
<1>2. TypeRest /\ TypeRest' /\ restarts \in [Nodes -> Nat]
    BY <1>1, TypeSplit DEF IInv, TypeOK, TypeRest
<1>3. CASE Next
    <2>1. NetworkStep /\ AcceptorStep /\ ProposerStep /\ LeaseStep
        BY <1>2, <1>3, RestartNever, StepNetwork, StepAcceptor, StepProposer, StepLease
        DEF Next
    <2>2. Epochs'
        BY <1>2, <1>3, <2>1, EffectsInv, EpochsStep DEF IInv, Next
    <2>. QED
        BY <1>1, <1>2, <2>1, <2>2, EffectsInv DEF IInv
<1>4. CASE UNCHANGED vars
    <2>1. UNCHANGED <<now, msgs, ballot, countVars, source, prepared, leaseVars,
                      accBallot, accLease, leaders>>
        BY <1>4 DEF vars, proposerVars, acceptorVars
    <2>2. NetworkStep
        BY <2>1 DEF NetworkStep
    <2>3. AcceptorStep
        BY <1>2, <2>1, Domains DEF AcceptorStep, TypeRest
    <2>4. ProposerStep /\ LeaseStep
        BY <1>2, <2>1, ProposerSame, LeaseSame
    <2>5. Epochs'
        <3>1. \A p, b0 : Won(p, b0) => Won(p, b0)'
            BY <2>1, WonStable
        <3>2. \A p \in Nodes : CheckLeader(p)' => CheckLeader(p)
            BY <2>1 DEF CheckLeader, leaseVars
        <3>3. epoch' = epoch
            BY <2>1 DEF leaseVars
        <3>4. ASSUME NEW p \in Nodes, CheckLeader(p)' PROVE Won(p, epoch[p])'
            <4>1. PICK e : e = epoch[p]
                OBVIOUS
            <4>2. Won(p, e)'
                BY <3>1, <3>2, <3>4, <4>1 DEF IInv, Epochs
            <4>. QED
                BY <3>3, <4>1, <4>2 DEF Won, Voters
        <3>. QED
            BY <2>1, <3>1, <3>4 DEF IInv, Epochs
    <2>. QED
        BY <1>1, <1>2, <2>2, <2>3, <2>4, <2>5, EffectsInv DEF IInv
<1>. QED
    BY <1>3, <1>4

\* Two leases of different ballots are not valid at the same time.
LEMMA LowerLeaseIsOver ==
    ASSUME TypeRest, Excluded,
           NEW p \in Nodes, NEW q \in Nodes, p # q, CheckLeader(p),
           NEW b0 \in Ballot, NEW b1 \in Ballot, b0 < b1,
           Won(q, b1), Holds(p, b0), IsMajority(Backers(p, b0, lease[p]))
    PROVE  FALSE
<1>1. IsMajority(Lost(p, b0))
    BY DEF Excluded
<1>2. Lost(p, b0) \in SUBSET Nodes /\ Backers(p, b0, lease[p]) \in SUBSET Nodes
    BY DEF Lost, Backers
<1>3. PICK r \in Nodes : r \in Lost(p, b0) /\ r \in Backers(p, b0, lease[p])
    BY <1>1, <1>2, MajoritiesMeet
<1>4. PICK g \in Grants : /\ g.from = r /\ g.to = p /\ g.ballot = b0
                          /\ lease[p] <= g.start + LeaseInterval
    BY <1>3 DEF Backers
<1>5. g.start + LeaseInterval <= now
    BY <1>3, <1>4 DEF Lost
<1>6. now \in Int /\ lease[p] \in Int /\ g.start + LeaseInterval \in Int
    BY Numbers, Domains DEF TypeRest
<1>. QED
    BY <1>4, <1>5, <1>6 DEF CheckLeader

\* The invariant excludes two leaders.
LEMMA InvOneLeader == IInv => OneLeader
<1>. SUFFICES ASSUME IInv, NEW p \in Nodes, NEW q \in Nodes,
                     CheckLeader(p), CheckLeader(q), p # q
              PROVE  FALSE
    BY DEF OneLeader
<1>1. TypeRest /\ LeaseBacked /\ Excluded /\ VoteOnce /\ Winners
    BY TypeSplit DEF IInv
<1>2. ASSUME NEW r \in Nodes, CheckLeader(r)
      PROVE  \E b0 \in Ballot : /\ Holds(r, b0) /\ Won(r, b0)
                                /\ IsMajority(Backers(r, b0, lease[r]))
    <2>1. lease[r] # INVALID
        <3>1. now \in Nat
            BY <1>1, Domains DEF TypeRest
        <3>. QED
            BY <1>2, <3>1 DEF CheckLeader
    <2>2. PICK b0 \in Ballot : Holds(r, b0) /\ IsMajority(Backers(r, b0, lease[r]))
        BY <1>1, <2>1 DEF LeaseBacked
    <2>3. Backers(r, b0, lease[r]) \in SUBSET Nodes
        BY DEF Backers
    <2>4. PICK s \in Nodes : s \in Backers(r, b0, lease[r])
        BY <2>2, <2>3, MajorityNotEmpty
    <2>5. Won(r, b0)
        BY <1>1, <2>4 DEF Backers, Winners
    <2>. QED
        BY <2>2, <2>5
<1>3. PICK b0 \in Ballot : Holds(p, b0) /\ Won(p, b0) /\ IsMajority(Backers(p, b0, lease[p]))
    BY <1>2
<1>4. PICK b1 \in Ballot : Holds(q, b1) /\ Won(q, b1) /\ IsMajority(Backers(q, b1, lease[q]))
    BY <1>2
<1>5. b0 \in Int /\ b1 \in Int
    BY Domains
<1>6. CASE b0 = b1
    BY <1>1, <1>3, <1>4, <1>6, WonUnique
<1>7. CASE b0 < b1
    BY <1>1, <1>3, <1>4, <1>7, LowerLeaseIsOver
<1>8. CASE b1 < b0
    BY <1>1, <1>3, <1>4, <1>8, LowerLeaseIsOver
<1>. QED
    BY <1>5, <1>6, <1>7, <1>8

\* The invariant gives an epoch to one leader.
LEMMA InvEpochUnique == IInv => EpochUnique
BY WonUnique DEF IInv, EpochUnique, Epochs

\* The invariant of the election holds throughout, when no member restarts.
THEOREM ElectionInvariant ==
    ASSUME NoRestarts
    PROVE  Spec => []IInv
BY InitInv, NextInv, PTL DEF Spec

\* At most one member passes check_leader() at any time: for any number of
\* members, whatever messages are lost, late, repeated or reordered, and
\* through expiry, renewal and hand-over of the lease.
THEOREM ElectionOneLeader ==
    ASSUME NoRestarts
    PROVE  Spec => []OneLeader
BY ElectionInvariant, InvOneLeader, PTL

\* No two leaders ever expose the same epoch.
THEOREM ElectionEpochUnique ==
    ASSUME NoRestarts
    PROVE  Spec => []EpochUnique
BY ElectionInvariant, InvEpochUnique, PTL

-----------------------------------------------------------------------------
(* Epochs grow *)

\* No ballot that somebody else has won is above those that a valid lease is
\* backed in.
Newest ==
    \A p, q \in Nodes : \A e \in Ballot :
        CheckLeader(p) /\ q # p /\ Won(q, e) => e <= prepared[p]

LEMMA LeaseIsNewest == IInv /\ EpochOrder => Newest
<1>. SUFFICES ASSUME IInv, EpochOrder, NEW p \in Nodes, CheckLeader(p),
                     NEW q \in Nodes, q # p, NEW e \in Ballot, Won(q, e)
              PROVE  e <= prepared[p]
    BY DEF Newest
<1>1. TypeRest /\ LeaseBacked /\ Excluded
    BY TypeSplit DEF IInv
<1>2. lease[p] # INVALID
    BY <1>1, Numbers DEF CheckLeader
<1>3. PICK b0 \in Ballot : Holds(p, b0) /\ IsMajority(Backers(p, b0, lease[p]))
    BY <1>1, <1>2 DEF LeaseBacked
<1>4. Backers(p, b0, lease[p]) \in SUBSET Nodes
    BY DEF Backers
<1>5. PICK r \in Nodes : r \in Backers(p, b0, lease[p])
    BY <1>3, <1>4, MajorityNotEmpty
<1>6. b0 <= prepared[p]
    BY <1>5 DEF Backers, EpochOrder
<1>7. ~(b0 < e)
    BY <1>1, <1>3, LowerLeaseIsOver
<1>8. b0 \in Int /\ e \in Int /\ prepared[p] \in Int
    BY <1>1, Numbers, Domains
<1>. QED
    BY <1>6, <1>7, <1>8

\* A step that is allowed to happen keeps the order of the ballots.
LEMMA EpochOrderStep ==
    ASSUME TypeRest, TypeRest', EpochOrder, NetworkStep, ProposerStep, LeaseStep,
           leaders \subseteq Nodes \X Ballot,
           \A x \in leaders' : \/ x \in leaders
                               \/ \E p \in Nodes : x = <<p, epoch'[p]>> /\ CheckLeader(p)'
    PROVE  EpochOrder'
<1>1. \A p \in Nodes : /\ prepared[p] \in Int /\ prepared'[p] \in Int
                       /\ ballot[p] \in Int /\ ballot'[p] \in Int
                       /\ epoch[p] \in Int /\ epoch'[p] \in Int
    BY Domains DEF TypeRest
<1>2. \A p \in Nodes : prepared[p] <= prepared'[p] /\ prepared'[p] <= ballot'[p]
    BY <1>1 DEF ProposerStep, EpochOrder
<1>3. ASSUME NEW p \in Nodes, CheckLeader(p)' PROVE epoch'[p] <= prepared'[p]
    BY <1>1, <1>2, <1>3 DEF LeaseStep, EpochOrder
<1>4. ASSUME NEW m \in msgs', m.type = "accept" PROVE m.ballot <= prepared'[m.from]
    <2>1. m \in Message
        BY DEF TypeRest
    <2>2. m.from \in Nodes /\ m.ballot \in Int
        BY <1>4, <2>1, MessageFields, Domains
    <2>3. CASE m \in msgs
        BY <1>1, <1>2, <1>4, <2>2, <2>3 DEF EpochOrder, Proposals
    <2>4. CASE m \notin msgs
        BY <1>1, <1>4, <2>2, <2>4 DEF NetworkStep, ProposalSent
    <2>. QED
        BY <2>3, <2>4
<1>5. ASSUME NEW g \in msgs', g.type = "accepted" PROVE g.ballot <= prepared'[g.to]
    <2>1. g \in Message
        BY DEF TypeRest
    <2>2. g.to \in Nodes /\ g.ballot \in Int
        BY <1>5, <2>1, MessageFields, Domains
    <2>3. CASE g \in msgs
        BY <1>1, <1>2, <1>5, <2>2, <2>3 DEF EpochOrder, Grants
    <2>4. CASE g \notin msgs
        <3>1. PICK m \in Proposals : m.from = g.to /\ m.ballot = g.ballot
            BY <1>5, <2>4 DEF NetworkStep, GrantSent
        <3>. QED
            BY <1>1, <1>2, <2>2, <3>1 DEF EpochOrder
    <2>. QED
        BY <2>3, <2>4
<1>6. ASSUME NEW x \in leaders' PROVE x[2] <= prepared'[x[1]]
    <2>1. CASE x \in leaders
        <3>1. x[1] \in Nodes /\ x[2] \in Int
            BY <2>1, Domains
        <3>. QED
            BY <1>1, <1>2, <2>1, <3>1 DEF EpochOrder
    <2>2. CASE \E p \in Nodes : x = <<p, epoch'[p]>> /\ CheckLeader(p)'
        BY <1>3, <2>2
    <2>. QED
        BY <2>1, <2>2
<1>. QED
    BY <1>2, <1>3, <1>4, <1>5, <1>6 DEF EpochOrder, Proposals, Grants

\* Who leads on keeps its epoch, and nobody else leads; who starts to lead does
\* so in the highest ballot that has been won.
LEMMA EpochsGrowStep ==
    ASSUME IInv, IInv', EpochOrder', EpochsGrow, LeaseStep,
           \A x \in leaders' : \/ x \in leaders
                               \/ \E p \in Nodes : x = <<p, epoch'[p]>> /\ CheckLeader(p)'
    PROVE  EpochsGrow'
<1>. SUFFICES ASSUME NEW p \in Nodes, CheckLeader(p)', NEW x \in leaders'
              PROVE  x[2] <= epoch'[p]
    BY DEF EpochsGrow
<1>1. epoch'[p] \in Int
    BY Domains DEF IInv, TypeOK
<1>2. CASE x \notin leaders
    <2>1. PICK q \in Nodes : x = <<q, epoch'[q]>> /\ CheckLeader(q)'
        BY <1>2
    <2>2. OneLeader'
        BY InvOneLeader, PTL
    <2>3. q = p
        BY <2>1, <2>2 DEF OneLeader
    <2>. QED
        BY <1>1, <2>1, <2>3
<1>3. CASE x \in leaders /\ CheckLeader(p) /\ epoch'[p] = epoch[p]
    BY <1>3 DEF EpochsGrow
<1>4. CASE x \in leaders /\ epoch'[p] = prepared'[p]
    <2>1. PICK q \in Nodes, e \in Ballot : q = x[1] /\ e = x[2]
        BY DEF IInv, TypeOK
    <2>2. CASE q = p
        BY <1>4, <2>1, <2>2 DEF EpochOrder
    <2>3. CASE q # p
        <3>1. Won(q, e)'
            BY <2>1 DEF IInv, Epochs
        <3>2. Newest'
            BY LeaseIsNewest, PTL
        <3>. QED
            BY <1>4, <2>1, <2>3, <3>1, <3>2 DEF Newest
    <2>. QED
        BY <2>2, <2>3
<1>. QED
    BY <1>2, <1>3, <1>4 DEF LeaseStep

\* The epochs that get_role() gives only grow from leader to leader: for any
\* number of members, and whatever messages of former leaders are still under
\* way.
THEOREM ElectionEpochsGrow ==
    ASSUME NoRestarts
    PROVE  Spec => []EpochsGrow
<1>1. Init => EpochOrder /\ EpochsGrow
    BY DEF Init, EpochOrder, EpochsGrow, Proposals, Grants, CheckLeader
<1>2. IInv /\ IInv' /\ EpochOrder /\ EpochsGrow /\ [Next]_vars
      => EpochOrder' /\ EpochsGrow'
    <2>. SUFFICES ASSUME IInv, IInv', EpochOrder, EpochsGrow, [Next]_vars
                  PROVE  EpochOrder' /\ EpochsGrow'
        OBVIOUS
    <2>1. TypeRest /\ TypeRest' /\ restarts \in [Nodes -> Nat]
        BY TypeSplit DEF IInv, TypeOK, TypeRest
    <2>2. CASE Next
        <3>1. NetworkStep /\ ProposerStep /\ LeaseStep
            BY <2>1, <2>2, RestartNever, StepNetwork, StepProposer, StepLease DEF Next
        <3>2. \A x \in leaders' : \/ x \in leaders
                                  \/ \E p \in Nodes : x = <<p, epoch'[p]>> /\ CheckLeader(p)'
            BY <2>2 DEF Next, CheckLeader
        <3>3. EpochOrder'
            BY <2>1, <3>1, <3>2, EpochOrderStep DEF IInv, TypeOK
        <3>. QED
            BY <3>1, <3>2, <3>3, EpochsGrowStep
    <2>3. CASE UNCHANGED vars
        <3>1. UNCHANGED <<now, ballot, prepared, lease, epoch, msgs, leaders>>
            BY <2>3 DEF vars, proposerVars, leaseVars
        <3>. QED
            BY <3>1 DEF EpochOrder, EpochsGrow, CheckLeader, Proposals, Grants
    <2>. QED
        BY <2>2, <2>3
<1>. QED
    BY <1>1, <1>2, ElectionInvariant, PTL DEF Spec

-----------------------------------------------------------------------------
(* The assertion of ResponseChecker, with restarts *)

\* Somebody has asked, in time, for what p is answered in ballot b0.
Wanted(p, b0) ==
    \/ \E r \in Requests : now <= r.sent + MaxDelay /\ r.from = p /\ r.ballot = b0
    \/ \E q \in Nodes : best[q] # NoRequest /\ best[q].from = p /\ window[q] = b0

\* q collects a request that has arrived in time.
Collects(q) ==
    \E r \in Requests :
        /\ now <= r.sent + MaxDelay /\ window'[q] = r.ballot /\ best'[q].from = r.from
        /\ now' = now
        /\ \/ best'[q].opened = now
           \/ best[q] # NoRequest /\ best'[q].opened = best[q].opened

\* A request of the proposer is for the ballot it is in, an answer is wanted.
Posted(m) ==
    /\ m.sent = now
    /\ m.type = "prepare" => m.ballot <= ballot'[m.from]
    /\ m.type \in {"prepared", "accepted"} => Wanted(m.to, m.ballot)

\* An open time window that stays as it is has time left.
Waits(q) ==
    /\ best'[q] = best[q] /\ window'[q] = window[q]
    /\ now' = now \/ (now' = now + 1 /\ now < best[q].opened + MaxWindow)

TrafficStep ==
    /\ msgs \subseteq msgs' /\ now <= now'
    /\ \A m \in msgs' : m \notin msgs => Posted(m)
    /\ \A q \in Nodes : best'[q] = NoRequest \/ Waits(q) \/ Collects(q)

\* A step of the proposer alone
LEMMA TrafficProposer ==
    ASSUME TypeRest, UNCHANGED <<now, acceptorVars>>, msgs \subseteq msgs',
           \A x \in msgs' : x \notin msgs => Posted(x)
    PROVE  TrafficStep
<1>1. UNCHANGED <<now, best, window>>
    BY DEF acceptorVars
<1>2. now <= now'
    BY <1>1, Domains DEF TypeRest
<1>3. \A q \in Nodes : Waits(q)
    BY <1>1 DEF Waits
<1>. QED
    BY <1>2, <1>3 DEF TrafficStep

\* A proposer asks for the ballot that it is in after the step.
LEMMA TrafficPrepare ==
    ASSUME TypeRest, NEW p \in Nodes, NEW b0 \in Ballot, NEW r, ballot'[p] = b0,
           msgs' = msgs \cup {PrepareReq(p, b0, r)}, UNCHANGED <<now, acceptorVars>>
    PROVE  TrafficStep
<1>. DEFINE x == PrepareReq(p, b0, r)
<1>1. x.sent = now /\ x.type = "prepare" /\ x.from = p /\ x.ballot = b0
    BY DEF PrepareReq
<1>2. x.ballot <= ballot'[x.from]
    BY <1>1, Domains
<1>. HIDE DEF x
<1>3. msgs' = msgs \cup {x}
    BY DEF x
<1>4. \A y \in msgs' : y \notin msgs => Posted(y)
    BY <1>1, <1>2, <1>3 DEF Posted
<1>. QED
    BY <1>3, <1>4, TrafficProposer

\* A proposal of a lease
LEMMA TrafficAccept ==
    ASSUME TypeRest, NEW p, NEW b0,
           msgs' = msgs \cup {AcceptReq(p, b0)}, UNCHANGED <<now, acceptorVars>>
    PROVE  TrafficStep
<1>. DEFINE x == AcceptReq(p, b0)
<1>1. x.sent = now /\ x.type = "accept"
    BY DEF AcceptReq
<1>. HIDE DEF x
<1>2. msgs' = msgs \cup {x}
    BY DEF x
<1>3. \A y \in msgs' : y \notin msgs => Posted(y)
    BY <1>1, <1>2 DEF Posted
<1>. QED
    BY <1>2, <1>3, TrafficProposer

\* A step of the proposer that sends nothing
LEMMA TrafficSilent ==
    ASSUME TypeRest, UNCHANGED <<msgs, now, acceptorVars>>
    PROVE  TrafficStep
BY TrafficProposer

\* handle_message(ElectionPrepareRequestMsg): the proposer asks for the ballot
\* that it joins, and the acceptor collects or answers the request.
LEMMA TrafficOnPrepareRequest ==
    ASSUME TypeRest, NEW p \in Nodes, NEW m \in msgs, m.type = "prepare",
           now <= m.sent + MaxDelay, OnPrepareRequest(p, m)
    PROVE  TrafficStep
<1>. DEFINE S == IF m.from = p \/ m.ballot = ballot[p] THEN {}
                 ELSE IF m.ballot < ballot[p]
                 THEN {Reject(m, ballot[p])}
                 ELSE IF m.role = "leader" \/ p \notin Candidates THEN {}
                 ELSE {PrepareReq(p, m.ballot, role[p])}
            resp == PrepareResp(p, m.from, m.ballot, LeaseOf(accLease[p]))
            rej == Reject(m, accBallot[p])
<1>1. AcceptorOnPrepare(p, m, S) /\ now' = now
    BY DEF OnPrepareRequest
<1>2. /\ m.from \in Nodes /\ m.ballot \in Ballot /\ m.ballot \in Int /\ ballot[p] \in Int
      /\ m \in Requests /\ now \in Int
    BY MessageFields, Domains DEF TypeRest, Requests
<1>3. \A x \in S : /\ x.sent = now /\ x.type \in {"prepare", "rejected"}
                   /\ x.type = "prepare" => x.ballot <= ballot'[x.from]
    <2>1. /\ Reject(m, ballot[p]).sent = now /\ Reject(m, ballot[p]).type = "rejected"
        BY DEF Reject
    <2>2. /\ PrepareReq(p, m.ballot, role[p]).sent = now
          /\ PrepareReq(p, m.ballot, role[p]).type = "prepare"
          /\ PrepareReq(p, m.ballot, role[p]).from = p
          /\ PrepareReq(p, m.ballot, role[p]).ballot = m.ballot
        BY DEF PrepareReq
    <2>3. CASE m.from # p /\ m.ballot > ballot[p] /\ p \in Candidates
        <3>1. ballot'[p] = m.ballot
            BY <2>3 DEF OnPrepareRequest, Advance, TypeRest
        <3>. QED
            BY <1>2, <2>1, <2>2, <3>1
    <2>4. CASE ~(m.from # p /\ m.ballot > ballot[p] /\ p \in Candidates)
        <3>1. \A x \in S : x = Reject(m, ballot[p])
            BY <1>2, <2>4
        <3>. QED
            BY <2>1, <3>1
    <2>. QED
        BY <2>3, <2>4
<1>4. rej.sent = now /\ rej.type = "rejected"
    BY DEF Reject
<1>5. resp.sent = now /\ resp.type = "prepared" /\ resp.to = m.from /\ resp.ballot = m.ballot
    BY DEF PrepareResp
<1>6. Wanted(m.from, m.ballot)
    BY <1>2 DEF Wanted
<1>. HIDE DEF S, rej, resp
<1>7. /\ msgs' = msgs \cup S \/ msgs' = msgs \cup (S \cup {rej})
            \/ msgs' = msgs \cup (S \cup {resp})
    BY <1>1 DEF AcceptorOnPrepare, Send, rej, resp
<1>8. \A x \in msgs' : x \notin msgs => Posted(x)
    <2>1. ASSUME NEW x \in msgs', x \notin msgs
          PROVE  x \in S \/ x = rej \/ x = resp
        BY <1>7, <2>1
    <2>. QED
        BY <1>3, <1>4, <1>5, <1>6, <2>1 DEF Posted
<1>9. ASSUME NEW q \in Nodes
      PROVE  \/ best'[q] = NoRequest
             \/ Waits(q)
             \/ Collects(q)
    <2>1. CASE UNCHANGED <<window, best>>
        BY <1>1, <2>1 DEF Waits
    <2>2. CASE AdvanceAcceptor(p, m.ballot)
        BY <1>1, <2>2 DEF AdvanceAcceptor, TypeRest, Waits
    <2>3. CASE /\ window' = [window EXCEPT ![p] = m.ballot]
               /\ best' = [best EXCEPT ![p] = [from |-> m.from, opened |-> now]]
        <3>1. p = q => /\ window'[q] = m.ballot /\ best'[q].from = m.from
                       /\ best'[q].opened = now
            BY <2>3 DEF TypeRest
        <3>2. p # q => best'[q] = best[q] /\ window'[q] = window[q]
            BY <2>3 DEF TypeRest
        <3>. QED
            BY <1>1, <1>2, <3>1, <3>2 DEF Collects, Waits
    <2>4. CASE /\ best[p] # NoRequest /\ m.ballot = window[p] /\ window' = window
               /\ best' = [best EXCEPT ![p] = [from |-> m.from, opened |-> best[p].opened]]
        <3>1. p = q => /\ window'[q] = m.ballot /\ best'[q].from = m.from
                       /\ best[q] # NoRequest /\ best'[q].opened = best[q].opened
            BY <2>4 DEF TypeRest
        <3>2. p # q => best'[q] = best[q] /\ window'[q] = window[q]
            BY <2>4 DEF TypeRest
        <3>. QED
            BY <1>1, <1>2, <3>1, <3>2 DEF Collects, Waits
    <2>5. \/ UNCHANGED <<window, best>>
          \/ AdvanceAcceptor(p, m.ballot)
          \/ /\ window' = [window EXCEPT ![p] = m.ballot]
             /\ best' = [best EXCEPT ![p] = [from |-> m.from, opened |-> now]]
          \/ /\ best[p] # NoRequest /\ m.ballot = window[p] /\ window' = window
             /\ best' = [best EXCEPT ![p] = [from |-> m.from, opened |-> best[p].opened]]
        BY <1>1 DEF AcceptorOnPrepare
    <2>. QED
        BY <2>1, <2>2, <2>3, <2>4, <2>5
<1>10. msgs \subseteq msgs' /\ now <= now'
    BY <1>1, <1>2, <1>7
<1>. QED
    BY <1>8, <1>9, <1>10 DEF TrafficStep

\* handle_message(ElectionAcceptRequestMsg): the acceptor answers the request.
LEMMA TrafficOnAcceptRequest ==
    ASSUME TypeRest, NEW p \in Nodes, NEW m \in msgs, m.type = "accept",
           now <= m.sent + MaxDelay, OnAcceptRequest(p, m)
    PROVE  TrafficStep
<1>. DEFINE resp == AcceptResp(p, m)
            rej == Reject(m, accBallot[p])
<1>1. m \in Requests /\ now \in Int /\ now' = now
    BY Domains DEF TypeRest, Requests, OnAcceptRequest
<1>2. rej.sent = now /\ rej.type = "rejected"
    BY DEF Reject
<1>3. resp.sent = now /\ resp.type = "accepted" /\ resp.to = m.from /\ resp.ballot = m.ballot
    BY DEF AcceptResp
<1>4. Wanted(m.from, m.ballot)
    BY <1>1 DEF Wanted
<1>. HIDE DEF rej, resp
<1>5. msgs' = msgs \/ msgs' = msgs \cup {rej} \/ msgs' = msgs \cup {resp}
    BY DEF OnAcceptRequest, Send, rej, resp
<1>6. \A q \in Nodes : best'[q] = NoRequest \/ Waits(q)
    <2>1. UNCHANGED <<window, best>> \/ AdvanceAcceptor(p, m.ballot)
        BY DEF OnAcceptRequest
    <2>. QED
        BY <1>1, <2>1 DEF AdvanceAcceptor, TypeRest, Waits
<1>7. \A x \in msgs' : x \notin msgs => Posted(x)
    BY <1>2, <1>3, <1>4, <1>5 DEF Posted
<1>8. msgs \subseteq msgs' /\ now <= now'
    BY <1>1, <1>5
<1>. QED
    BY <1>6, <1>7, <1>8 DEF TrafficStep

\* The end of a time window: the request that was kept is answered.
LEMMA TrafficVote ==
    ASSUME TypeRest, NEW p \in Nodes, Vote(p)
    PROVE  TrafficStep
<1>1. PICK l : msgs' = msgs \cup {PrepareResp(p, best[p].from, window[p], l)}
    BY DEF Vote, Send
<1>. DEFINE resp == PrepareResp(p, best[p].from, window[p], l)
<1>2. /\ resp.sent = now /\ resp.type = "prepared" /\ resp.to = best[p].from
      /\ resp.ballot = window[p]
    BY DEF PrepareResp
<1>3. Wanted(best[p].from, window[p])
    BY DEF Wanted, Vote
<1>. HIDE DEF resp
<1>4. \A x \in msgs' : x \notin msgs => x = resp
    BY <1>1 DEF resp
<1>5. \A q \in Nodes : best'[q] = NoRequest \/ Waits(q)
    BY DEF Vote, TypeRest, Waits
<1>6. now' = now /\ now <= now'
    BY Domains DEF Vote, TypeRest
<1>7. msgs \subseteq msgs'
    BY <1>1
<1>8. Posted(resp)
    BY <1>2, <1>3 DEF Posted
<1>. QED
    BY <1>4, <1>5, <1>6, <1>7, <1>8 DEF TrafficStep

\* What a step other than a restart sends and collects.
LEMMA StepTraffic ==
    ASSUME TypeRest, \A p \in Nodes : ~Restart(p), Step
    PROVE  TrafficStep
<1>1. CASE Tick
    <2>1. msgs' = msgs /\ now' = now + 1 /\ now <= now'
        BY <1>1, Domains DEF Tick, TypeRest
    <2>2. \A q \in Nodes : best'[q] = NoRequest \/ Waits(q)
        BY <1>1, <2>1 DEF Tick, acceptorVars, Waits
    <2>. QED
        BY <2>1, <2>2 DEF TrafficStep
<1>2. ASSUME NEW m \in msgs, now <= m.sent + MaxDelay, Receive(m)
      PROVE  TrafficStep
    <2>1. ASSUME m.type = "prepared", OnPrepareResponse(m)
          PROVE  TrafficStep
        <3>1. PICK b0 : b0 = ballot[m.to]
            OBVIOUS
        <3>2. CASE msgs' = msgs \cup {AcceptReq(m.to, b0)}
            BY <2>1, <3>2, TrafficAccept DEF OnPrepareResponse
        <3>3. CASE msgs' = msgs
            BY <2>1, <3>3, TrafficSilent DEF OnPrepareResponse
        <3>. QED
            BY <2>1, <3>1, <3>2, <3>3 DEF OnPrepareResponse, Send
    <2>2. ASSUME m.type = "accepted", OnAcceptResponse(m)
          PROVE  TrafficStep
        <3>1. PICK b0 : b0 = prepared[m.to]
            OBVIOUS
        <3>2. CASE msgs' = msgs \cup {AcceptReq(m.to, b0)}
            BY <2>2, <3>2, TrafficAccept DEF OnAcceptResponse
        <3>3. CASE msgs' = msgs
            BY <2>2, <3>3, TrafficSilent DEF OnAcceptResponse
        <3>4. msgs' = msgs \cup {AcceptReq(m.to, b0)} \/ msgs' = msgs
            BY <2>2, <3>1 DEF OnAcceptResponse, Send
        <3>. QED
            BY <3>2, <3>3, <3>4
    <2>3. ASSUME m.type \in {"prepared", "accepted", "rejected"}, LearnBallot(m)
          PROVE  TrafficStep
        <3>1. m.to \in Nodes /\ m.ballot \in Ballot
            BY <2>3, MessageFields DEF TypeRest
        <3>2. CASE CheckLeader(m.to)
            <4>1. m.ballot + 1 \in Ballot
                BY <2>3, <3>1, <3>2, Domains, TimeAssumption DEF LearnBallot
            <4>2. ballot'[m.to] = m.ballot + 1
                BY <2>3, <3>1, <3>2 DEF LearnBallot, Advance, TypeRest
            <4>3. msgs' = msgs \cup {PrepareReq(m.to, m.ballot + 1, "leader")}
                BY <2>3, <3>2 DEF LearnBallot, Send
            <4>. QED
                BY <2>3, <3>1, <4>1, <4>2, <4>3, TrafficPrepare DEF LearnBallot
        <3>3. CASE ~CheckLeader(m.to)
            BY <2>3, <3>3, TrafficSilent DEF LearnBallot
        <3>. QED
            BY <3>2, <3>3
    <2>4. ASSUME m.type = "change", OnChangeLeader(m)
          PROVE  TrafficStep
        <3>1. m.to \in Nodes /\ m.ballot \in Ballot
            BY <2>4, MessageFields DEF TypeRest
        <3>2. ballot'[m.to] = m.ballot
            BY <2>4, <3>1 DEF OnChangeLeader, TypeRest
        <3>3. CASE m.to \in Candidates
            <4>1. msgs' = msgs \cup {PrepareReq(m.to, m.ballot, "leader")}
                BY <2>4, <3>3 DEF OnChangeLeader, Send
            <4>. QED
                BY <2>4, <3>1, <3>2, <4>1, TrafficPrepare DEF OnChangeLeader
        <3>4. CASE m.to \notin Candidates
            BY <2>4, <3>4, TrafficSilent DEF OnChangeLeader, Send
        <3>. QED
            BY <3>3, <3>4
    <2>. QED
        BY <1>2, <2>1, <2>2, <2>3, <2>4, TrafficOnPrepareRequest, TrafficOnAcceptRequest
        DEF Receive
<1>3. ASSUME NEW p \in Nodes, RenewLease(p)
      PROVE  TrafficStep
    <2>1. PICK b0 : b0 = prepared[p]
        OBVIOUS
    <2>2. CASE msgs' = msgs \cup {AcceptReq(p, b0)}
        BY <1>3, <2>2, TrafficAccept DEF RenewLease
    <2>3. CASE msgs' = msgs
        BY <1>3, <2>3, TrafficSilent DEF RenewLease
    <2>. QED
        BY <1>3, <2>1, <2>2, <2>3 DEF RenewLease, Send
<1>4. ASSUME NEW p \in Nodes, Devote(p)
      PROVE  TrafficStep
    <2>1. PICK b0, r : b0 = ballot'[p] /\ r = role'[p]
        OBVIOUS
    <2>2. b0 \in Ballot
        <3>1. TypeRest'
            BY <1>4, DevoteType
        <3>. QED
            BY <2>1, <3>1 DEF TypeRest
    <2>3. msgs' = msgs \cup {PrepareReq(p, b0, r)}
        BY <1>4, <2>1 DEF Devote, Send
    <2>. QED
        BY <1>4, <2>1, <2>2, <2>3, TrafficPrepare DEF Devote
<1>5. ASSUME NEW p \in Nodes, DevoteInVain(p)
      PROVE  TrafficStep
    BY <1>5, TrafficSilent DEF DevoteInVain
<1>6. ASSUME NEW p \in Nodes, ForgetLease(p)
      PROVE  TrafficStep
    <2>1. UNCHANGED <<now, msgs, best, window>>
        BY <1>6 DEF ForgetLease
    <2>2. now <= now'
        BY <2>1, Domains DEF TypeRest
    <2>3. \A q \in Nodes : Waits(q)
        BY <2>1 DEF Waits
    <2>. QED
        BY <2>1, <2>2, <2>3 DEF TrafficStep
<1>7. ASSUME NEW p \in Nodes, NEW q \in Nodes, ChangeLeaderTo(p, q)
      PROVE  TrafficStep
    <2>. DEFINE h == ChangeLeader(p, q, ballot[p] + 1, ballot[p])
    <2>1. h.sent = now /\ h.type = "change"
        BY DEF ChangeLeader
    <2>. HIDE DEF h
    <2>2. msgs' = msgs \cup {h} /\ UNCHANGED <<now, acceptorVars>>
        BY <1>7 DEF ChangeLeaderTo, Send, h
    <2>3. \A y \in msgs' : y \notin msgs => Posted(y)
        BY <2>1, <2>2 DEF Posted
    <2>. QED
        BY <2>2, <2>3, TrafficProposer
<1>. QED
    BY <1>1, <1>2, <1>3, <1>4, <1>5, <1>6, <1>7, TrafficVote DEF Step, Run

\* Only a restart changes when the process has started.
LEMMA StepStarted ==
    ASSUME \A p \in Nodes : ~Restart(p), Step
    PROVE  UNCHANGED <<initTs, restarts>>
<1>1. Tick => initTs' = initTs
    BY DEF Tick, acceptorVars
<1>2. ASSUME NEW m \in msgs, Receive(m)
      PROVE  initTs' = initTs
    BY <1>2 DEF Receive, OnPrepareRequest, OnAcceptRequest, OnPrepareResponse,
                OnAcceptResponse, LearnBallot, OnChangeLeader, acceptorVars
<1>3. ASSUME NEW p \in Nodes, Run(p)
      PROVE  initTs' = initTs
    BY <1>3 DEF Run, RenewLease, Devote, DevoteInVain, Vote, ForgetLease,
                ChangeLeaderTo, acceptorVars
<1>. QED
    BY <1>1, <1>2, <1>3 DEF Step

\* The numbers in requests, responses and open windows.
AskTyped ==
    /\ \A m \in msgs : m.sent \in Int /\ m.ballot \in Int
    /\ \A m \in Requests : m \in msgs /\ m.from \in Nodes
    /\ \A m \in Responses : m \in msgs /\ m.to \in Nodes
    /\ \A q \in Nodes : best[q] # NoRequest =>
         best[q].from \in Nodes /\ best[q].opened \in Int
    /\ \A q \in Nodes : /\ window[q] \in Int /\ ballot[q] \in Int /\ prepared[q] \in Int
                        /\ initTs[q] \in Int /\ restarts[q] \in Int
    /\ now \in Int

\* Their types follow from TypeOK.
LEMMA AskNumbers == TypeRest /\ restarts \in [Nodes -> Nat] => AskTyped
<1>. SUFFICES ASSUME TypeRest, restarts \in [Nodes -> Nat] PROVE AskTyped
    OBVIOUS
<1>1. \A m \in msgs : m \in Message
    BY DEF TypeRest
<1>2. \A m \in msgs : m.sent \in Int /\ m.ballot \in Int
    BY <1>1, MessageFields, Domains
<1>3. \A m \in Requests : m \in msgs /\ m.from \in Nodes
    BY <1>1, MessageFields DEF Requests
<1>4. \A m \in Responses : m \in msgs /\ m.to \in Nodes
    BY <1>1, MessageFields DEF Responses
<1>5. \A q \in Nodes : best[q] # NoRequest =>
            best[q].from \in Nodes /\ best[q].opened \in Int
    <2>1. \A q \in Nodes : best[q] # NoRequest => best[q] \in [from : Nodes, opened : Clock]
        BY DEF TypeRest, Request
    <2>. QED
        BY <2>1, Domains
<1>6. \A q \in Nodes : /\ window[q] \in Int /\ ballot[q] \in Int /\ prepared[q] \in Int
                       /\ initTs[q] \in Int /\ restarts[q] \in Int
    BY Domains DEF TypeRest
<1>7. now \in Int
    BY Domains DEF TypeRest
<1>. QED
    BY <1>2, <1>3, <1>4, <1>5, <1>6, <1>7 DEF AskTyped

\* A restart: whoever restarts has forgotten what it asked for until now.
LEMMA RestartAsk ==
    ASSUME TypeRest, restarts \in [Nodes -> Nat], AskInv,
           NEW r \in Nodes, Up(r), Restart(r)
    PROVE  AskInv'
<1>1. /\ \A p \in Nodes : p # r => /\ ballot'[p] = ballot[p] /\ prepared'[p] = prepared[p]
                                   /\ initTs'[p] = initTs[p] /\ restarts'[p] = restarts[p]
                                   /\ best'[p] = best[p] /\ window'[p] = window[p]
      /\ ballot'[r] = INVALID /\ prepared'[r] = INVALID /\ best'[r] = NoRequest
      /\ initTs'[r] = now + DownTime /\ restarts'[r] = restarts[r] + 1
      /\ restarts[r] < MaxRestarts[r]
      /\ now' = now /\ msgs' = msgs
    BY DEF Restart, TypeRest
<1>2. /\ \A m \in msgs : m.sent \in Int /\ m.ballot \in Int
      /\ \A m \in Requests : m \in msgs /\ m.from \in Nodes
      /\ \A m \in Responses : m \in msgs /\ m.to \in Nodes
      /\ \A q \in Nodes : best[q] # NoRequest =>
            best[q].from \in Nodes /\ best[q].opened \in Int
      /\ \A q \in Nodes : /\ window[q] \in Int /\ ballot[q] \in Int /\ prepared[q] \in Int
                          /\ initTs[q] \in Int /\ restarts[q] \in Int
      /\ now \in Int
    BY AskNumbers DEF AskTyped
<1>3. \A p \in Nodes : MaxRestarts[p] \in Int /\ restarts[p] >= 0
    BY TimeAssumption
<1>4. MaxDelay \in Nat /\ MaxWindow \in Nat /\ DownTime \in Nat
    BY TimeAssumption
<1>5. Requests' = Requests /\ Responses' = Responses
    BY <1>1 DEF Requests, Responses
<1>6. ASSUME NEW p \in Nodes, NEW b0 \in Int, NEW t \in Int, NEW d \in Nat, t <= now,
             b0 <= ballot[p] \/ Forgot(p, t, d)
      PROVE  b0 <= ballot'[p] \/ Forgot(p, t, d)'
    <2>1. CASE p = r
        <3>1. restarts'[p] > 0 /\ t + DownTime <= initTs'[p] + d
            BY <1>1, <1>2, <1>3, <1>4, <1>6, <2>1
        <3>. QED
            BY <3>1 DEF Forgot
    <2>2. CASE p # r
        BY <1>1, <1>6, <2>2 DEF Forgot
    <2>. QED
        BY <2>1, <2>2
<1>7. Asked'
    <2>1. ASSUME NEW m \in Requests
          PROVE  m.ballot <= ballot'[m.from] \/ Forgot(m.from, m.sent, 0)'
        <3>1. m.sent <= now /\ (m.ballot <= ballot[m.from] \/ Forgot(m.from, m.sent, 0))
            BY <1>2 DEF AskInv, Asked
        <3>. QED
            BY <1>2, <1>6, <3>1
    <2>2. \A p \in Nodes : prepared'[p] <= ballot'[p]
        BY <1>1 DEF AskInv, Asked
    <2>. QED
        BY <1>5, <2>1, <2>2 DEF Asked, Forgot
<1>8. Collected'
    <2>1. ASSUME NEW q \in Nodes, best'[q] # NoRequest
          PROVE  /\ best'[q].opened <= now' /\ now' <= best'[q].opened + MaxWindow
                 /\ \/ window'[q] <= ballot'[best'[q].from]
                    \/ Forgot(best[q].from, best[q].opened, MaxDelay)'
        <3>1. best'[q] = best[q] /\ window'[q] = window[q] /\ best[q] # NoRequest
            BY <1>1, <2>1
        <3>2. PICK p, t : p = best[q].from /\ t = best[q].opened
            OBVIOUS
        <3>3. /\ t <= now /\ now <= t + MaxWindow
              /\ window[q] <= ballot[p] \/ Forgot(p, t, MaxDelay)
            BY <3>1, <3>2 DEF AskInv, Collected
        <3>4. window[q] <= ballot'[p] \/ Forgot(p, t, MaxDelay)'
            BY <1>2, <1>4, <1>6, <3>1, <3>2, <3>3
        <3>5. best'[q].from = p /\ best'[q].opened = t
            BY <3>1, <3>2
        <3>6. /\ best'[q].opened <= now' /\ now' <= best'[q].opened + MaxWindow
              /\ window'[q] <= ballot'[best'[q].from] \/ Forgot(p, t, MaxDelay)'
            BY <1>1, <3>1, <3>3, <3>4, <3>5
        <3>7. Forgot(p, t, MaxDelay)' => Forgot(best[q].from, best[q].opened, MaxDelay)'
            BY <3>5 DEF Forgot
        <3>. QED
            BY <3>6, <3>7
    <2>. QED
        BY <2>1 DEF Collected
<1>9. Answered'
    <2>1. MaxDelay + MaxWindow \in Nat
        BY <1>4
    <2>2. ASSUME NEW m \in Responses
          PROVE  \/ m.ballot <= ballot'[m.to]
                 \/ Forgot(m.to, m.sent, MaxDelay + MaxWindow)'
        <3>1. /\ m.sent <= now
              /\ m.ballot <= ballot[m.to] \/ Forgot(m.to, m.sent, MaxDelay + MaxWindow)
            BY <1>2 DEF AskInv, Answered
        <3>. QED
            BY <1>2, <1>6, <2>1, <3>1
    <2>. QED
        BY <1>5, <2>2 DEF Answered, Forgot
<1>10. /\ \A p \in Nodes : restarts'[p] <= MaxRestarts[p]
       /\ \A m \in msgs' : m.sent <= now'
    BY <1>1, <1>2, <1>3 DEF AskInv
<1>. QED
    BY <1>7, <1>8, <1>9, <1>10 DEF AskInv

\* A step other than a restart: no proposer goes back behind what it asked for,
\* and nobody is answered but who has asked.
LEMMA TrafficAsk ==
    ASSUME TypeRest, TypeRest', restarts \in [Nodes -> Nat], AskInv,
           UNCHANGED <<initTs, restarts>>, TrafficStep, ProposerStep, NetworkStep
    PROVE  AskInv'
<1>1. /\ \A m \in msgs : m.sent \in Int /\ m.ballot \in Int
      /\ \A m \in Requests : m \in msgs /\ m.from \in Nodes
      /\ \A m \in Responses : m \in msgs /\ m.to \in Nodes
      /\ \A q \in Nodes : best[q] # NoRequest =>
            best[q].from \in Nodes /\ best[q].opened \in Int
      /\ \A q \in Nodes : /\ window[q] \in Int /\ ballot[q] \in Int /\ prepared[q] \in Int
                          /\ initTs[q] \in Int /\ restarts[q] \in Int
      /\ now \in Int
    BY AskNumbers DEF AskTyped
<1>2. restarts' \in [Nodes -> Nat]
    OBVIOUS
<1>3. /\ \A m \in msgs' : m.sent \in Int /\ m.ballot \in Int
      /\ \A m \in Requests' : m \in msgs' /\ m.from \in Nodes
      /\ \A m \in Responses' : m \in msgs' /\ m.to \in Nodes
      /\ \A q \in Nodes : ballot'[q] \in Int /\ prepared'[q] \in Int /\ window'[q] \in Int
      /\ \A q \in Nodes : best'[q] # NoRequest =>
            best'[q].from \in Nodes /\ best'[q].opened \in Int
      /\ now' \in Int
    <2>1. TypeRest' /\ (restarts \in [Nodes -> Nat])'
        BY <1>2
    <2>2. AskTyped'
        BY <2>1, AskNumbers, PTL
    <2>. QED
        BY <2>2 DEF AskTyped
<1>4. MaxDelay \in Nat /\ MaxWindow \in Nat /\ DownTime \in Nat /\ MaxDelay + MaxWindow \in Nat
    BY TimeAssumption
<1>5. /\ msgs \subseteq msgs' /\ now <= now'
      /\ \A m \in msgs' : m \notin msgs => Posted(m)
      /\ \A q \in Nodes : best'[q] = NoRequest \/ Waits(q) \/ Collects(q)
      /\ \A p \in Nodes : ballot[p] <= ballot'[p]
    BY DEF TrafficStep, ProposerStep
<1>6. \A p, t, d : Forgot(p, t, d) => Forgot(p, t, d)'
    BY DEF Forgot
<1>7. ASSUME NEW p \in Nodes, NEW b0 \in Int, NEW t, NEW d,
             b0 <= ballot[p] \/ Forgot(p, t, d)
      PROVE  b0 <= ballot'[p] \/ Forgot(p, t, d)'
    <2>1. ballot[p] \in Int /\ ballot'[p] \in Int /\ ballot[p] <= ballot'[p]
        BY <1>1, <1>3, <1>5
    <2>. QED
        BY <1>6, <1>7, <2>1
<1>8. \A p \in Nodes : prepared'[p] <= ballot'[p]
    <2>1. ASSUME NEW p \in Nodes
          PROVE  prepared'[p] <= ballot'[p]
        <3>1. prepared'[p] = prepared[p] \/ (prepared'[p] = ballot[p] /\ ballot' = ballot)
            BY DEF ProposerStep
        <3>2. prepared[p] <= ballot[p]
            BY DEF AskInv, Asked
        <3>. QED
            BY <1>1, <1>3, <1>5, <3>1, <3>2
    <2>. QED
        BY <2>1
<1>9. Asked'
    <2>1. ASSUME NEW m \in Requests'
          PROVE  m.ballot <= ballot'[m.from] \/ Forgot(m.from, m.sent, 0)'
        <3>1. CASE m \in msgs
            <4>1. m \in Requests
                BY <3>1 DEF Requests
            <4>2. m.ballot <= ballot[m.from] \/ Forgot(m.from, m.sent, 0)
                BY <4>1 DEF AskInv, Asked
            <4>. QED
                BY <1>1, <1>7, <4>1, <4>2
        <3>2. CASE m \notin msgs
            <4>1. Posted(m) /\ (m.type = "accept" => m.ballot = prepared'[m.from])
                BY <1>3, <1>5, <3>2 DEF NetworkStep, ProposalSent
            <4>2. m.type = "prepare" \/ m.type = "accept"
                BY DEF Requests
            <4>3. m.ballot <= ballot'[m.from]
                BY <1>3, <1>8, <4>1, <4>2 DEF Posted
            <4>. QED
                BY <4>3
        <3>. QED
            BY <3>1, <3>2
    <2>. QED
        BY <1>8, <2>1 DEF Asked
<1>10. ASSUME NEW r \in Requests, now <= r.sent + MaxDelay
       PROVE  \/ r.ballot <= ballot'[r.from]
              \/ restarts'[r.from] > 0 /\ now + DownTime <= initTs'[r.from] + MaxDelay
    <2>1. r.ballot <= ballot[r.from] \/ Forgot(r.from, r.sent, 0)
        BY DEF AskInv, Asked
    <2>2. CASE r.ballot <= ballot[r.from]
        BY <1>1, <1>3, <1>5, <2>2
    <2>3. CASE Forgot(r.from, r.sent, 0)
        BY <1>1, <1>4, <1>10, <2>3 DEF Forgot
    <2>. QED
        BY <2>1, <2>2, <2>3
<1>11. Collected'
    <2>1. ASSUME NEW q \in Nodes, best'[q] # NoRequest
          PROVE  /\ best'[q].opened <= now' /\ now' <= best'[q].opened + MaxWindow
                 /\ \/ window'[q] <= ballot'[best'[q].from]
                    \/ Forgot(best[q].from, best[q].opened, MaxDelay)'
        <3>1. CASE Waits(q)
            <4>1. /\ best'[q] = best[q] /\ window'[q] = window[q] /\ best[q] # NoRequest
                  /\ now' = now \/ (now' = now + 1 /\ now < best[q].opened + MaxWindow)
                BY <2>1, <3>1 DEF Waits
            <4>2. PICK p, t : p = best[q].from /\ t = best[q].opened
                OBVIOUS
            <4>3. /\ t <= now /\ now <= t + MaxWindow
                  /\ window[q] <= ballot[p] \/ Forgot(p, t, MaxDelay)
                BY <4>1, <4>2 DEF AskInv, Collected
            <4>4. window[q] <= ballot'[p] \/ Forgot(p, t, MaxDelay)'
                BY <1>1, <1>7, <4>1, <4>2, <4>3
            <4>5. best'[q].from = p /\ best'[q].opened = t /\ t \in Int
                BY <1>1, <4>1, <4>2
            <4>6. t <= now' /\ now' <= t + MaxWindow
                BY <1>1, <1>4, <4>1, <4>2, <4>3, <4>5
            <4>7. Forgot(p, t, MaxDelay)' => Forgot(best[q].from, best[q].opened, MaxDelay)'
                BY <4>5 DEF Forgot
            <4>. QED
                BY <4>1, <4>4, <4>5, <4>6, <4>7
        <3>2. CASE Collects(q)
            <4>1. PICK r \in Requests :
                    /\ now <= r.sent + MaxDelay /\ window'[q] = r.ballot
                    /\ best'[q].from = r.from /\ now' = now
                    /\ \/ best'[q].opened = now
                       \/ best[q] # NoRequest /\ best'[q].opened = best[q].opened
                BY <3>2 DEF Collects
            <4>2. best'[q].opened <= now' /\ now' <= best'[q].opened + MaxWindow
                BY <1>1, <1>4, <4>1 DEF AskInv, Collected
            <4>3. \/ r.ballot <= ballot'[r.from]
                  \/ restarts'[r.from] > 0 /\ now + DownTime <= initTs'[r.from] + MaxDelay
                BY <1>10, <4>1
            <4>4. CASE r.ballot <= ballot'[r.from]
                BY <4>1, <4>2, <4>4
            <4>5. CASE restarts'[r.from] > 0 /\ now + DownTime <= initTs'[r.from] + MaxDelay
                <5>1. r.from \in Nodes /\ initTs'[r.from] \in Int /\ best'[q].opened \in Int
                    BY <1>1, <1>3, <2>1
                <5>2. best'[q].opened + DownTime <= initTs'[best'[q].from] + MaxDelay
                    BY <1>1, <1>4, <4>1, <4>2, <4>5, <5>1
                <5>3. Forgot(best[q].from, best[q].opened, MaxDelay)'
                    BY <4>1, <4>5, <5>2 DEF Forgot
                <5>. QED
                    BY <4>2, <5>3
            <4>. QED
                BY <4>3, <4>4, <4>5
        <3>. QED
            BY <1>5, <2>1, <3>1, <3>2
    <2>. QED
        BY <2>1 DEF Collected
<1>12. ASSUME NEW p, NEW b0, Wanted(p, b0)
       PROVE  \/ b0 <= ballot'[p]
              \/ /\ restarts'[p] > 0
                 /\ now + DownTime <= initTs'[p] + (MaxDelay + MaxWindow)
    <2>1. CASE \E r \in Requests : now <= r.sent + MaxDelay /\ r.from = p /\ r.ballot = b0
        <3>1. PICK r \in Requests : now <= r.sent + MaxDelay /\ r.from = p /\ r.ballot = b0
            BY <2>1
        <3>2. CASE restarts'[p] > 0 /\ now + DownTime <= initTs'[p] + MaxDelay
            <4>1. initTs'[p] \in Int
                BY <1>1, <3>1
            <4>. QED
                BY <1>1, <1>4, <3>2, <4>1
        <3>. QED
            BY <1>10, <3>1, <3>2
    <2>2. CASE \E q \in Nodes : best[q] # NoRequest /\ best[q].from = p /\ window[q] = b0
        <3>1. PICK q \in Nodes : best[q] # NoRequest /\ best[q].from = p /\ window[q] = b0
            BY <2>2
        <3>2. PICK t : t = best[q].opened
            OBVIOUS
        <3>3. /\ p \in Nodes /\ b0 \in Int /\ t \in Int /\ initTs[p] \in Int
            BY <1>1, <3>1, <3>2
        <3>4. /\ now <= t + MaxWindow
              /\ b0 <= ballot[p] \/ Forgot(p, t, MaxDelay)
            BY <3>1, <3>2 DEF AskInv, Collected
        <3>5. CASE b0 <= ballot[p]
            BY <1>1, <1>3, <1>5, <3>3, <3>5
        <3>6. CASE Forgot(p, t, MaxDelay)
            BY <1>1, <1>4, <3>3, <3>4, <3>6 DEF Forgot
        <3>. QED
            BY <3>4, <3>5, <3>6
    <2>. QED
        BY <1>12, <2>1, <2>2 DEF Wanted
<1>13. Answered'
    <2>1. ASSUME NEW m \in Responses'
          PROVE  \/ m.ballot <= ballot'[m.to]
                 \/ Forgot(m.to, m.sent, MaxDelay + MaxWindow)'
        <3>1. CASE m \in msgs
            <4>1. m \in Responses
                BY <3>1 DEF Responses
            <4>2. m.ballot <= ballot[m.to] \/ Forgot(m.to, m.sent, MaxDelay + MaxWindow)
                BY <4>1 DEF AskInv, Answered
            <4>. QED
                BY <1>1, <1>7, <4>1, <4>2
        <3>2. CASE m \notin msgs
            <4>1. Posted(m)
                BY <1>3, <1>5, <3>2
            <4>2. m.sent = now /\ Wanted(m.to, m.ballot)
                BY <4>1 DEF Posted, Responses
            <4>3. \/ m.ballot <= ballot'[m.to]
                  \/ /\ restarts'[m.to] > 0
                     /\ now + DownTime <= initTs'[m.to] + (MaxDelay + MaxWindow)
                BY <1>12, <4>2
            <4>. QED
                BY <4>2, <4>3 DEF Forgot
        <3>. QED
            BY <3>1, <3>2
    <2>. QED
        BY <2>1 DEF Answered
<1>14. \A m \in msgs' : m.sent <= now'
    <2>1. ASSUME NEW m \in msgs'
          PROVE  m.sent <= now'
        <3>1. CASE m \in msgs
            BY <1>1, <1>3, <1>5, <3>1 DEF AskInv
        <3>2. CASE m \notin msgs
            BY <1>1, <1>3, <1>5, <3>2 DEF Posted
        <3>. QED
            BY <3>1, <3>2
    <2>. QED
        BY <2>1
<1>. QED
    BY <1>9, <1>11, <1>13, <1>14 DEF AskInv

\* AskInv is inductive, restarts included.
LEMMA AskNext ==
    ASSUME TypeOK, AskInv, [Next]_vars
    PROVE  AskInv'
<1>1. TypeOK'
    BY NextType
<1>2. TypeRest /\ TypeRest' /\ restarts \in [Nodes -> Nat]
    BY <1>1, TypeSplit DEF TypeOK, TypeRest
<1>3. CASE UNCHANGED vars
    <2>1. UNCHANGED <<now, ballot, prepared, window, best, initTs, restarts, msgs>>
        BY <1>3 DEF vars, proposerVars, acceptorVars
    <2>2. Asked'
        BY <2>1 DEF AskInv, Asked, Requests, Forgot
    <2>3. Collected'
        BY <2>1 DEF AskInv, Collected, Forgot
    <2>4. Answered'
        BY <2>1 DEF AskInv, Answered, Responses, Forgot
    <2>. QED
        BY <2>1, <2>2, <2>3, <2>4 DEF AskInv
<1>4. CASE Next /\ \A p \in Nodes : ~Restart(p)
    <2>1. TrafficStep /\ ProposerStep /\ NetworkStep /\ UNCHANGED <<initTs, restarts>>
        BY <1>2, <1>4, StepTraffic, StepProposer, StepNetwork, StepStarted DEF Next
    <2>. QED
        BY <1>2, <2>1, TrafficAsk
<1>5. CASE Next /\ \E p \in Nodes : Restart(p)
    <2>1. PICK r \in Nodes : Restart(r)
        BY <1>5
    <2>2. restarts' # restarts
        BY <1>2, <2>1 DEF Restart
    <2>3. PICK p \in Nodes : Up(p) /\ Restart(p)
        BY <1>5, <2>2 DEF Next, Step
    <2>. QED
        BY <1>2, <2>3, RestartAsk
<1>. QED
    BY <1>3, <1>4, <1>5

\* Nothing has been asked for at the start.
LEMMA AskInit == Init => AskInv
<1>. SUFFICES ASSUME Init PROVE AskInv
    OBVIOUS
<1>1. Requests = {} /\ Responses = {}
    BY DEF Init, Requests, Responses
<1>2. \A p \in Nodes : MaxRestarts[p] \in Nat
    BY TimeAssumption
<1>3. /\ \A p \in Nodes : restarts[p] = 0 /\ prepared[p] = ballot[p] /\ ballot[p] = -1
      /\ \A q \in Nodes : best[q] = NoRequest
      /\ msgs = {}
    BY DEF Init
<1>4. Asked /\ Collected /\ Answered
    BY <1>1, <1>3 DEF Asked, Collected, Answered
<1>. QED
    BY <1>2, <1>3, <1>4 DEF AskInv

\* A restart takes longer than an answer: the way of a request, the time window
\* that it may wait in, and the way back.
Prompt == NoRestarts \/ 2 * MaxDelay + MaxWindow < DownTime

\* What is granted later than its proposer has restarted arrives while it is
\* down.
LEMMA AskAsserts ==
    ASSUME Prompt, TypeOK, AskInv
    PROVE  AssertsHold
<1>1. TypeRest /\ restarts \in [Nodes -> Nat]
    BY TypeSplit DEF TypeOK
<1>2. ASSUME NEW m \in msgs, m.type \in {"prepared", "accepted"},
             now <= m.sent + MaxDelay, Up(m.to), ~(m.ballot <= ballot[m.to])
      PROVE  FALSE
    <2>1. m \in Responses
        BY <1>2 DEF Responses
    <2>2. restarts[m.to] > 0 /\ m.sent + DownTime <= initTs[m.to] + (MaxDelay + MaxWindow)
        BY <1>2, <2>1 DEF AskInv, Answered, Forgot
    <2>3. m.to \in Nodes /\ m.sent \in Int /\ initTs[m.to] \in Int /\ now \in Int
            /\ restarts[m.to] \in Int
        BY <1>1, <2>1, AskNumbers DEF AskTyped
    <2>4. MaxDelay \in Nat /\ MaxWindow \in Nat /\ DownTime \in Nat
        BY TimeAssumption
    <2>5. restarts[m.to] <= MaxRestarts[m.to]
        BY <2>3 DEF AskInv
    <2>6. CASE NoRestarts
        BY <2>2, <2>3, <2>5, <2>6 DEF NoRestarts
    <2>7. CASE 2 * MaxDelay + MaxWindow < DownTime
        BY <1>2, <2>2, <2>3, <2>4, <2>7 DEF Up
    <2>. QED
        BY <2>6, <2>7 DEF Prompt
<1>. QED
    BY <1>2 DEF AssertsHold

\* The assertion that a response in a higher ballot is a rejection never fails,
\* whatever is lost, late or repeated, if nobody restarts or a restart takes
\* longer than a round trip; without that it does (the run election_assert).
THEOREM ElectionAssertsHold ==
    ASSUME Prompt
    PROVE  Spec => []AssertsHold
<1>1. Init => TypeOK /\ AskInv
    BY InitType, AskInit
<1>2. TypeOK /\ AskInv /\ [Next]_vars => (TypeOK /\ AskInv)'
    BY NextType, AskNext
<1>3. TypeOK /\ AskInv => AssertsHold
    BY AskAsserts
<1>. QED
    BY <1>1, <1>2, <1>3, PTL DEF Spec
=============================================================================
