------------------------------ MODULE Election ------------------------------
(***************************************************************************)
(* The lease election of a PALF log stream (logservice/palf/election): a   *)
(* Paxos-like prepare phase chooses one proposer per ballot, and its       *)
(* accept phase makes a majority promise not to vote until a lease ends.   *)
(*                                                                         *)
(* Every replica is a proposer and an acceptor behind one lock, so each    *)
(* handler and each timer callback is one step.  Neither keeps anything on *)
(* disk: a restarted acceptor is silent for MaxLeaseTime instead.  Clocks  *)
(* run at the same rate; all comparisons are local to a replica, so one    *)
(* clock stands for all.  The restart counter in the messages is left out: *)
(* PalfHandleImpl passes the constant 1 to every ElectionImpl.             *)
(***************************************************************************)
EXTENDS Integers, FiniteSets

CONSTANTS
    Nodes,          \* the member list, which is static here
    Candidates,     \* the members whose own list holds them already
    NoNode,         \* no address
    LeaseInterval,  \* CALCULATE_LEASE_INTERVAL()
    MaxLeaseTime,   \* MAX_LEASE_TIME, the silence after a restart
    MaxDelay,       \* the longest one-way delay; MaxTime: no bound
    MaxWindow,      \* the longest time window for votes; MaxTime: no bound
    MaxBallot,      \* bound on the ballot numbers
    MaxTime,        \* bound on the clock
    DownTime,       \* the time that a restart takes
    MaxRestarts     \* bound on the restarts of each member

ASSUME NodesAssumption ==
    /\ IsFiniteSet(Nodes) /\ NoNode \notin Nodes
    /\ Candidates \subseteq Nodes

ASSUME TimeAssumption ==
    /\ LeaseInterval \in Nat \ {0}
    /\ MaxLeaseTime \in Nat /\ LeaseInterval <= MaxLeaseTime
    /\ MaxDelay \in Nat /\ MaxWindow \in Nat /\ DownTime \in Nat
    /\ MaxBallot \in Nat /\ MaxTime \in Nat /\ MaxRestarts \in [Nodes -> Nat]

VARIABLES
    now,            \* get_monotonic_ts()
    \* the proposer
    role,           \* role_
    ballot,         \* ballot_number_
    prepared,       \* prepare_success_ballot_
    prepareOk,      \* prepare_ok_ of the member list
    promised,       \* accept_ok_promise_not_vote_before_local_ts_, 0: none
    lease,          \* leader_lease_and_epoch_.lease_
    epoch,          \* leader_lease_and_epoch_.epoch_
    source,         \* switch_source_leader_addr_ and _ballot_
    \* the acceptor
    accBallot,      \* ballot_number_
    window,         \* ballot_of_time_window_
    best,           \* highest_priority_prepare_req_ of the open time window
    accLease,       \* lease_
    initTs,         \* INIT_TS, when the process has started
    \* the network, the restarts so far and the leaders that were seen
    msgs,
    restarts,
    leaders         \* history: pairs of a leader and the epoch it exposed

leaseVars == <<lease, epoch>>
countVars == <<prepareOk, promised>>
proposerVars == <<role, ballot, prepared, countVars, leaseVars, source>>
acceptorVars == <<accBallot, window, best, accLease, initTs>>
vars == <<now, proposerVars, acceptorVars, msgs, restarts, leaders>>

INVALID == -1
Ballot == INVALID .. MaxBallot
Time == INVALID .. (MaxTime + LeaseInterval)
NoSource == [addr |-> NoNode, ballot |-> INVALID]
NoRequest == [from |-> NoNode, opened |-> 0]
NoLease == [owner |-> NoNode, ballot |-> INVALID]

IsMajority(S) == 2 * Cardinality(S) > Cardinality(Nodes)

-----------------------------------------------------------------------------
(* Messages *)

PrepareReq(p, b, r) ==
    [type |-> "prepare", from |-> p, ballot |-> b, role |-> r, sent |-> now]
PrepareResp(p, q, b, l) ==
    [type |-> "prepared", from |-> p, to |-> q, ballot |-> b, lease |-> l,
     sent |-> now]
AcceptReq(p, b) ==
    [type |-> "accept", from |-> p, ballot |-> b, start |-> now, sent |-> now]
AcceptResp(p, m) ==
    [type |-> "accepted", from |-> p, to |-> m.from, ballot |-> m.ballot,
     start |-> m.start, sent |-> now]
\* set_rejected(): of a rejected response only the ballot is looked at.
Reject(m, b) ==
    [type |-> "rejected", to |-> m.from, ballot |-> b, sent |-> now]
ChangeLeader(p, q, b, old) ==
    [type |-> "change", from |-> p, to |-> q, ballot |-> b, old |-> old,
     sent |-> now]

\* A request is broadcast and has no "to".  A message is never forgotten here:
\* it arrives any number of times, or never, until it is too old.
Send(S) == msgs' = msgs \cup S

-----------------------------------------------------------------------------
(* The proposer *)

\* check_leader()
CheckLeader(p) == now < lease[p]

\* Fault: the votes of the old ballot stay.
AdvanceKeepsVotes(p, b) ==
    /\ ballot' = [ballot EXCEPT ![p] = b]
    /\ promised' = [promised EXCEPT ![p] = [q \in Nodes |-> 0]]
    /\ source' = [source EXCEPT ![p] = NoSource]
    /\ UNCHANGED prepareOk

\* advance_ballot_number_and_reset_related_states_(): what is left alone is
\* the lease.
Advance(p, b) ==
    /\ ballot' = [ballot EXCEPT ![p] = b]
    /\ prepareOk' = [prepareOk EXCEPT ![p] = {}]
    /\ promised' = [promised EXCEPT ![p] = [q \in Nodes |-> 0]]
    /\ source' = [source EXCEPT ![p] = NoSource]

\* Timer of register_renew_lease_task_(): the leader renews its lease, or steps
\* down when it has expired.
RenewLease(p) ==
    /\ role[p] = "leader"
    /\ IF CheckLeader(p)
       THEN /\ prepared[p] = ballot[p]
            /\ Send({AcceptReq(p, prepared[p])})
            /\ UNCHANGED proposerVars
       ELSE /\ role' = [role EXCEPT ![p] = "follower"]
            /\ prepareOk' = [prepareOk EXCEPT ![p] = {}]
            /\ promised' = [promised EXCEPT ![p] = [q \in Nodes |-> 0]]
            /\ lease' = [lease EXCEPT ![p] = INVALID]
            /\ epoch' = [epoch EXCEPT ![p] = INVALID]
            /\ UNCHANGED <<ballot, prepared, source, msgs>>
    /\ UNCHANGED <<now, acceptorVars>>

\* Timer of reschedule_or_register_prepare_task_after_() with prepare(role_): a
\* follower prepares in a new ballot, a leader in the ballot it has learnt of.
Devote(p) ==
    /\ p \in Candidates
    /\ CheckLeader(p) => prepared[p] # ballot[p]
    /\ role' = [role EXCEPT ![p] = IF CheckLeader(p) THEN @ ELSE "follower"]
    /\ IF role'[p] = "follower"
       THEN /\ ballot[p] < MaxBallot
            /\ Advance(p, ballot[p] + 1)
       ELSE UNCHANGED <<ballot, countVars, source>>
    /\ Send({PrepareReq(p, ballot'[p], role'[p])})
    /\ UNCHANGED <<now, prepared, leaseVars, acceptorVars>>

\* The same timer, too soon after the last prepare: an expired leader only stops
\* calling itself the leader, and keeps its votes and promises.
DevoteInVain(p) ==
    /\ role[p] = "leader" /\ ~CheckLeader(p)
    /\ role' = [role EXCEPT ![p] = "follower"]
    /\ UNCHANGED <<now, ballot, prepared, countVars, leaseVars, source,
                   acceptorVars, msgs>>

\* check_ballot_and_restart_counter_valid_and_accepted(), when the response
\* shows a higher ballot: a leader prepares again above it.  The assertion that
\* the response is a rejection is not part of it (see AssertsHold).
LearnBallot(m) ==
    LET p == m.to IN
    /\ m.ballot > ballot[p]
    /\ IF CheckLeader(p)
       THEN /\ m.ballot < MaxBallot
            /\ Advance(p, m.ballot + 1)
            /\ Send({PrepareReq(p, m.ballot + 1, "leader")})
       ELSE /\ Advance(p, m.ballot)
            /\ UNCHANGED msgs
    /\ UNCHANGED <<now, role, prepared, leaseVars, acceptorVars>>

\* ... and when the response counts
Counts(m) == m.ballot = ballot[m.to]

\* The acceptor has no lease, or one of this proposer, or that of the leader
\* that hands over.
LeaseAllows(p, l) ==
    \/ l = NoLease
    \/ l.owner = p
    \/ l.owner = source[p].addr /\ l.ballot = source[p].ballot

\* on_prepare_response() with record_prepare_ok() and propose()
OnPrepareResponse(m) ==
    LET p == m.to
        ok == prepareOk[p] \cup {m.from} IN
    /\ Counts(m)
    /\ LeaseAllows(p, m.lease)
    /\ prepareOk' = [prepareOk EXCEPT ![p] = ok]
    /\ IF Cardinality(ok) = Cardinality(Nodes) \div 2 + 1
       THEN /\ prepared' = [prepared EXCEPT ![p] = ballot[p]]
            /\ Send({AcceptReq(p, ballot[p])})
       ELSE UNCHANGED <<prepared, msgs>>
    /\ UNCHANGED <<now, role, ballot, promised, leaseVars, source,
                   acceptorVars>>

\* get_majority_promised_not_vote_ts(): the median of the promises
IsMedian(f, t) ==
    /\ IsMajority({q \in Nodes : f[q] >= t})
    /\ ~IsMajority({q \in Nodes : f[q] > t})

\* Fault: the epoch of the lease is not renewed with it.
NewLeaseKeepsEpoch(p, end) ==
    /\ lease' = [lease EXCEPT ![p] = IF end > @ THEN end ELSE @]
    /\ UNCHANGED epoch

\* leader_lease_and_epoch_ after on_accept_response() has a new lease end:
\* an expired leader is revoked first, and the epoch only changes when the
\* lease was interrupted.
NewLease(p, end) ==
    LET revoked == role[p] = "leader" /\ ~CheckLeader(p)
        old == IF revoked THEN INVALID ELSE lease[p] IN
    /\ lease' = [lease EXCEPT ![p] = IF end > old THEN end ELSE old]
    /\ epoch' = [epoch EXCEPT ![p] =
                    IF end > old /\ ~CheckLeader(p) THEN prepared[p]
                    ELSE IF revoked THEN INVALID ELSE @]

\* leader_takeover_if_lease_valid_(): a proposer in the middle of a change of
\* leader takes over only in the ballot after that of the old leader.
TakesOver(p, end) ==
    /\ now < end
    /\ role[p] # "leader" \/ ~CheckLeader(p)
    /\ source[p] = NoSource \/ source[p].ballot = ballot[p] - 1

\* on_accept_response() with record_accept_ok()
OnAcceptResponse(m) ==
    LET p == m.to
        end == m.start + LeaseInterval
        acks == [promised[p] EXCEPT ![m.from] = IF @ >= end THEN @ ELSE end]
        revoked == role[p] = "leader" /\ ~CheckLeader(p) IN
    /\ Counts(m)
    /\ IF IsMajority({q \in Nodes : acks[q] # 0})
       THEN \E t \in {acks[q] : q \in Nodes} :
            /\ IsMedian(acks, t)
            /\ NewLease(p, t)
            /\ promised' = [promised EXCEPT ![p] =
                                IF revoked THEN [q \in Nodes |-> 0] ELSE acks]
            /\ prepareOk' = [prepareOk EXCEPT ![p] = IF revoked THEN {} ELSE @]
            /\ IF TakesOver(p, lease'[p])
               THEN /\ role' = [role EXCEPT ![p] = "leader"]
                    /\ source' = [source EXCEPT ![p] = NoSource]
                    /\ Send({AcceptReq(p, prepared[p])})
               ELSE /\ role' = [role EXCEPT ![p] =
                                    IF revoked THEN "follower" ELSE @]
                    /\ UNCHANGED <<source, msgs>>
       ELSE /\ promised' = [promised EXCEPT ![p] = acks]
            /\ UNCHANGED <<role, prepareOk, leaseVars, source, msgs>>
    /\ UNCHANGED <<now, ballot, prepared, acceptorVars>>

\* Fault: the old leader keeps its lease.
ChangeLeaderToEarly(p, q) ==
    /\ CheckLeader(p)
    /\ ballot[p] < MaxBallot
    /\ Advance(p, ballot[p] + 1)
    /\ role' = [role EXCEPT ![p] = "follower"]
    /\ Send({ChangeLeader(p, q, ballot[p] + 1, ballot[p])})
    /\ UNCHANGED <<now, prepared, leaseVars, acceptorVars>>

\* change_leader_to() with inner_change_leader_to()
ChangeLeaderTo(p, q) ==
    /\ CheckLeader(p)
    /\ ballot[p] < MaxBallot
    /\ Advance(p, ballot[p] + 1)
    /\ lease' = [lease EXCEPT ![p] = INVALID]
    /\ epoch' = [epoch EXCEPT ![p] = INVALID]
    /\ role' = [role EXCEPT ![p] = "follower"]
    /\ Send({ChangeLeader(p, q, ballot[p] + 1, ballot[p])})
    /\ UNCHANGED <<now, prepared, acceptorVars>>

\* on_change_leader() with prepare(LEADER)
OnChangeLeader(m) ==
    LET p == m.to IN
    /\ IF m.from = p THEN m.ballot = ballot[p] ELSE m.ballot > ballot[p]
    /\ ballot' = [ballot EXCEPT ![p] = m.ballot]
    /\ prepareOk' = [prepareOk EXCEPT ![p] = {}]
    /\ promised' = [promised EXCEPT ![p] = [q \in Nodes |-> 0]]
    /\ source' = [source EXCEPT ![p] = [addr |-> m.from, ballot |-> m.old]]
    /\ Send(IF p \in Candidates THEN {PrepareReq(p, m.ballot, "leader")} ELSE {})
    /\ UNCHANGED <<now, role, prepared, leaseVars, acceptorVars>>

-----------------------------------------------------------------------------
(* The acceptor *)

\* Fault: a restarted acceptor answers at once.
SilentNever(p) == FALSE

\* CHECK_SILENCE()
Silent(p) == now < initTs[p] + MaxLeaseTime

\* Lease::is_expired()
Expired(p) == now > accLease[p].end

\* Fault: a lease that was forgotten is sent.
LeaseOfAny(l) == [owner |-> l.owner, ballot |-> l.ballot]

\* What a prepare response carries of lease_.
LeaseOf(l) == IF l.owner = NoNode THEN NoLease
              ELSE [owner |-> l.owner, ballot |-> l.ballot]

\* ElectionAcceptor::advance_ballot_number_and_reset_related_states_()
AdvanceAcceptor(p, b) ==
    /\ accBallot' = [accBallot EXCEPT ![p] = b]
    /\ window' = [window EXCEPT ![p] = b]
    /\ best' = [best EXCEPT ![p] = NoRequest]

\* ElectionAcceptor::on_prepare_request(): S is what the proposer half sends.
\* A leader's prepare is answered at once; the others are collected in a time
\* window, and the one of the highest priority is kept.
AcceptorOnPrepare(p, m, S) ==
    \/ /\ Silent(p)
       /\ Send(S)
       /\ UNCHANGED <<accBallot, window, best>>
    \/ /\ ~Silent(p) /\ m.ballot < accBallot[p]
       /\ Send(S \cup {Reject(m, accBallot[p])})
       /\ UNCHANGED <<accBallot, window, best>>
    \/ /\ ~Silent(p) /\ m.ballot >= accBallot[p] /\ m.role = "leader"
       /\ IF m.ballot = accBallot[p]
          THEN Send(S) /\ UNCHANGED <<accBallot, window, best>>
          ELSE /\ AdvanceAcceptor(p, m.ballot)
               /\ Send(S \cup {PrepareResp(p, m.from, m.ballot, LeaseOf(accLease[p]))})
    \/ /\ ~Silent(p) /\ m.ballot >= accBallot[p] /\ m.role = "follower"
       /\ LET req(t) == [from |-> m.from, opened |-> t] IN
          IF m.ballot > window[p]
          THEN /\ window' = [window EXCEPT ![p] = m.ballot]
               /\ best' = [best EXCEPT ![p] = req(now)]
          ELSE /\ \/ UNCHANGED best
                  \/ /\ best[p] # NoRequest /\ m.ballot = window[p]
                     /\ best' = [best EXCEPT ![p] = req(@.opened)]
               /\ UNCHANGED window
       /\ Send(S)
       /\ UNCHANGED accBallot

\* Fault: the proposer joins a ballot that it does not advance to.
OnPrepareRequestNoAdvance(p, m) ==
    /\ AcceptorOnPrepare(p, m,
            IF m.from = p \/ m.ballot <= ballot[p] \/ p \notin Candidates THEN {}
            ELSE {PrepareReq(p, m.ballot, role[p])})
    /\ UNCHANGED <<now, proposerVars, accLease, initTs>>

\* handle_message(ElectionPrepareRequestMsg): first the proposer, which joins a
\* higher ballot and, unless a leader prepares, a new round of candidates.
OnPrepareRequest(p, m) ==
    /\ IF m.from # p /\ m.ballot > ballot[p] /\ p \in Candidates
       THEN Advance(p, m.ballot)
       ELSE UNCHANGED <<ballot, countVars, source>>
    /\ AcceptorOnPrepare(p, m,
            IF m.from = p \/ m.ballot = ballot[p] THEN {}
            ELSE IF m.ballot < ballot[p]
            THEN {Reject(m, ballot[p])}
            ELSE IF m.role = "leader" \/ p \notin Candidates THEN {}
            ELSE {PrepareReq(p, m.ballot, role[p])})
    /\ UNCHANGED <<now, role, prepared, leaseVars, accLease, initTs>>

\* The timer of ElectionAcceptor::start() when the time window closes: an
\* expired lease is forgotten, and the vote goes out with the lease that is
\* still valid.
Vote(p) ==
    LET l == IF Expired(p) THEN [accLease[p] EXCEPT !.owner = NoNode, !.end = INVALID]
             ELSE accLease[p] IN
    /\ best[p] # NoRequest
    /\ window[p] > accBallot[p]
    /\ accBallot' = [accBallot EXCEPT ![p] = window[p]]
    /\ accLease' = [accLease EXCEPT ![p] = l]
    /\ Send({PrepareResp(p, best[p].from, window[p], LeaseOf(l))})
    /\ best' = [best EXCEPT ![p] = NoRequest]
    /\ UNCHANGED <<now, proposerVars, window, initTs>>

\* The same timer without an open window: it has seen the lease expire.
ForgetLease(p) ==
    /\ accLease[p].owner # NoNode /\ Expired(p)
    /\ accLease' = [accLease EXCEPT ![p].owner = NoNode, ![p].end = INVALID]
    /\ UNCHANGED <<now, proposerVars, accBallot, window, best, initTs, msgs>>

\* handle_message(ElectionAcceptRequestMsg) with Lease::update_from(): the
\* proposer learns the ballot, the acceptor takes the lease of a ballot that is
\* not below its own.
OnAcceptRequest(p, m) ==
    /\ IF m.ballot > ballot[p]
       THEN Advance(p, m.ballot)
       ELSE UNCHANGED <<ballot, countVars, source>>
    /\ \/ /\ Silent(p)
          /\ UNCHANGED <<accBallot, window, best, accLease, msgs>>
       \/ /\ ~Silent(p) /\ m.ballot < accBallot[p]
          /\ Send({Reject(m, accBallot[p])})
          /\ UNCHANGED <<accBallot, window, best, accLease>>
       \/ /\ ~Silent(p) /\ m.ballot >= accBallot[p]
          /\ IF m.ballot > accBallot[p]
             THEN AdvanceAcceptor(p, m.ballot)
             ELSE UNCHANGED <<accBallot, window, best>>
          /\ accLease' = [accLease EXCEPT ![p] =
                [owner |-> m.from, ballot |-> m.ballot,
                 end |-> IF @.end >= now + LeaseInterval THEN @.end
                         ELSE now + LeaseInterval]]
          /\ Send({AcceptResp(p, m)})
    /\ UNCHANGED <<now, role, prepared, leaseVars, initTs>>

-----------------------------------------------------------------------------
(* The environment *)

\* The process is running.
Up(p) == initTs[p] <= now

\* The server restarts: a new ElectionImpl.
Restart(p) ==
    /\ restarts[p] < MaxRestarts[p]
    /\ restarts' = [restarts EXCEPT ![p] = @ + 1]
    /\ role' = [role EXCEPT ![p] = "follower"]
    /\ ballot' = [ballot EXCEPT ![p] = INVALID]
    /\ prepared' = [prepared EXCEPT ![p] = INVALID]
    /\ prepareOk' = [prepareOk EXCEPT ![p] = {}]
    /\ promised' = [promised EXCEPT ![p] = [q \in Nodes |-> 0]]
    /\ lease' = [lease EXCEPT ![p] = INVALID]
    /\ epoch' = [epoch EXCEPT ![p] = INVALID]
    /\ source' = [source EXCEPT ![p] = NoSource]
    /\ accBallot' = [accBallot EXCEPT ![p] = INVALID]
    /\ window' = [window EXCEPT ![p] = INVALID]
    /\ best' = [best EXCEPT ![p] = NoRequest]
    /\ accLease' = [accLease EXCEPT ![p] =
                        [owner |-> NoNode, ballot |-> INVALID, end |-> INVALID]]
    /\ initTs' = [initTs EXCEPT ![p] = now + DownTime]
    /\ UNCHANGED <<now, msgs>>

\* Time passes, but not before the time windows that are due have been closed.
Tick ==
    /\ now < MaxTime
    /\ \A p \in Nodes : best[p] # NoRequest => now < best[p].opened + MaxWindow
    /\ now' = now + 1
    /\ UNCHANGED <<proposerVars, acceptorVars, msgs>>

\* A process that is down receives nothing.
Receive(m) ==
    \/ m.type = "prepare" /\ \E p \in Nodes : Up(p) /\ OnPrepareRequest(p, m)
    \/ m.type = "accept" /\ \E p \in Nodes : Up(p) /\ OnAcceptRequest(p, m)
    \/ m.type = "prepared" /\ Up(m.to) /\ OnPrepareResponse(m)
    \/ m.type = "accepted" /\ Up(m.to) /\ OnAcceptResponse(m)
    \/ m.type \in {"prepared", "accepted", "rejected"} /\ Up(m.to) /\ LearnBallot(m)
    \/ m.type = "change" /\ Up(m.to) /\ OnChangeLeader(m)

Run(p) ==
    /\ Up(p)
    /\ \/ RenewLease(p) \/ Devote(p) \/ DevoteInVain(p) \/ Vote(p) \/ ForgetLease(p)
       \/ \E q \in Nodes : ChangeLeaderTo(p, q)

Step ==
    \/ /\ \/ Tick
          \/ \E m \in msgs : now <= m.sent + MaxDelay /\ Receive(m)
          \/ \E p \in Nodes : Run(p)
       /\ UNCHANGED restarts
    \/ \E p \in Nodes : Up(p) /\ Restart(p)

Init ==
    /\ now = 0
    /\ role = [p \in Nodes |-> "follower"]
    /\ ballot = [p \in Nodes |-> INVALID]
    /\ prepared = [p \in Nodes |-> INVALID]
    /\ prepareOk = [p \in Nodes |-> {}]
    /\ promised = [p \in Nodes |-> [q \in Nodes |-> 0]]
    /\ lease = [p \in Nodes |-> INVALID]
    /\ epoch = [p \in Nodes |-> INVALID]
    /\ source = [p \in Nodes |-> NoSource]
    /\ restarts = [p \in Nodes |-> 0]
    /\ accBallot = [p \in Nodes |-> INVALID]
    /\ window = [p \in Nodes |-> INVALID]
    /\ best = [p \in Nodes |-> NoRequest]
    /\ accLease = [p \in Nodes |->
                    [owner |-> NoNode, ballot |-> INVALID, end |-> INVALID]]
    /\ initTs = [p \in Nodes |-> 0 - MaxLeaseTime]
    /\ msgs = {}
    /\ leaders = {}

\* The history records who was a leader, and under which epoch.
Next ==
    /\ Step
    /\ leaders' = leaders \cup
            {<<p, epoch'[p]>> : p \in {q \in Nodes : now' < lease'[q]}}

Spec == Init /\ [][Next]_vars

-----------------------------------------------------------------------------
(* Properties *)

Node == Nodes \cup {NoNode}
VoteLease == {NoLease} \cup [owner : Nodes, ballot : Ballot]
Clock == 0 .. MaxTime
Request == {NoRequest} \cup [from : Nodes, opened : Clock]

Message ==
    [type : {"prepare"}, from : Nodes, ballot : Ballot,
     role : {"leader", "follower"}, sent : Clock]
    \cup [type : {"prepared"}, from : Nodes, to : Nodes,
          ballot : Ballot, lease : VoteLease, sent : Clock]
    \cup [type : {"accept"}, from : Nodes, ballot : Ballot, start : Clock,
          sent : Clock]
    \cup [type : {"accepted"}, from : Nodes, to : Nodes,
          ballot : Ballot, start : Clock, sent : Clock]
    \cup [type : {"rejected"}, to : Nodes, ballot : Ballot,
          sent : Clock]
    \cup [type : {"change"}, from : Nodes, to : Nodes, ballot : Ballot,
          old : Ballot, sent : Clock]

\* Every variable keeps to its domain: the ballots to what has been proposed,
\* the leases to at most one interval ahead of the clock's bound.
TypeOK ==
    /\ now \in Clock
    /\ role \in [Nodes -> {"leader", "follower"}]
    /\ ballot \in [Nodes -> Ballot] /\ prepared \in [Nodes -> Ballot]
    /\ prepareOk \in [Nodes -> SUBSET Nodes]
    /\ promised \in [Nodes -> [Nodes -> Time \ {INVALID}]]
    /\ lease \in [Nodes -> Time] /\ epoch \in [Nodes -> Ballot]
    /\ source \in [Nodes -> [addr : Node, ballot : Ballot]]
    /\ restarts \in [Nodes -> Nat]
    /\ accBallot \in [Nodes -> Ballot] /\ window \in [Nodes -> Ballot]
    /\ best \in [Nodes -> Request]
    /\ accLease \in [Nodes -> [owner : Node, ballot : Ballot, end : Time]]
    /\ initTs \in [Nodes -> Int]
    /\ msgs \subseteq Message
    /\ leaders \subseteq Nodes \X Ballot

\* At most one replica holds a valid lease (check_leader()), whatever is lost,
\* late or repeated, through expiry, renewal in a higher ballot and hand-over.
OneLeader == \A p, q \in Nodes : CheckLeader(p) /\ CheckLeader(q) => p = q

\* An epoch belongs to one leader: get_role() never gives two replicas the same
\* epoch, not even at different times.
EpochUnique ==
    \A x, y \in leaders : x[2] = y[2] => x[1] = y[1]

\* Epochs grow: get_role() gives a leader an epoch that is not below any that a
\* leader before it has shown, so that an epoch tells a new leader from an old
\* one; a leader that is superseded cannot come back under its old ballot.
EpochsGrow ==
    \A p \in Nodes : CheckLeader(p) => \A x \in leaders : x[2] <= epoch[p]

\* assert(!msg.is_accepted()) of ResponseChecker holds: whatever can still be
\* delivered, a proposer is never granted anything in a ballot above its own.
AssertsHold ==
    \A m \in msgs :
        m.type \in {"prepared", "accepted"} /\ now <= m.sent + MaxDelay /\ Up(m.to)
            => m.ballot <= ballot[m.to]

=============================================================================
