---------------------------- MODULE ElectionInv ----------------------------
(***************************************************************************)
(* The inductive invariant behind OneLeader and EpochUnique of Election,   *)
(* when no replica restarts.  A ballot is won with the votes of a majority *)
(* that may be counted; a lease is backed by the grants of a majority in a *)
(* ballot that was won.  A vote above a ballot carries the lease that was  *)
(* granted in it while that lease lasts, so it counts only for the owner   *)
(* of the lease, or for the one its owner hands over to.                   *)
(***************************************************************************)
EXTENDS Election

Votes == {m \in msgs : m.type = "prepared"}
Proposals == {m \in msgs : m.type = "accept"}
Grants == {m \in msgs : m.type = "accepted"}
HandOvers == {m \in msgs : m.type = "change"}

\* A vote that its receiver counts, should it get it in time.
Countable(m) ==
    \/ m.lease = NoLease
    \/ m.lease.owner = m.to
    \/ \E h \in HandOvers :
            /\ h.to = m.to /\ h.ballot = m.ballot
            /\ h.from = m.lease.owner /\ h.old = m.lease.ballot

Voters(p, b) ==
    {q \in Nodes : \E m \in Votes :
        m.from = q /\ m.to = p /\ m.ballot = b /\ Countable(m)}

Won(p, b) == IsMajority(Voters(p, b))

\* Replicas that granted p a lease in ballot b that lasts until t
Backers(p, b, t) ==
    {q \in Nodes : \E g \in Grants :
        g.from = q /\ g.to = p /\ g.ballot = b /\ t <= g.start + LeaseInterval}

\* p has not given up ballot b or a later one.
Holds(p, b) == \A h \in HandOvers : h.from = p => h.old < b

\* Replicas from which p has no lease of ballot b, and will have none
Lost(p, b) ==
    {q \in Nodes :
        /\ b < accBallot[q]
        /\ \A g \in Grants : g.from = q /\ g.to = p /\ g.ballot = b
                                => g.start + LeaseInterval <= now}

\* An acceptor votes once in a ballot ...
VoteOnce == \A m, n \in Votes : m.from = n.from /\ m.ballot = n.ballot => m.to = n.to

\* ... and does not go back behind its votes and grants.
Promised ==
    /\ \A m \in Votes : m.ballot <= accBallot[m.from]
    /\ \A g \in Grants : g.ballot <= accBallot[g.from]
    /\ \A q \in Nodes : accLease[q].ballot <= accBallot[q]

\* What the proposer counts has been sent.
Counted ==
    /\ \A p \in Nodes : prepareOk[p] \subseteq Voters(p, ballot[p])
    /\ \A p, q \in Nodes : promised[p][q] # 0 =>
            \E g \in Grants : /\ g.from = q /\ g.to = p /\ g.ballot = ballot[p]
                              /\ promised[p][q] = g.start + LeaseInterval
    /\ \A p \in Nodes : source[p] # NoSource =>
            \E h \in HandOvers :
                /\ h.to = p /\ h.ballot = ballot[p]
                /\ h.from = source[p].addr /\ h.old = source[p].ballot
    /\ \A h \in HandOvers : h.old < ballot[h.from]

\* Whoever proposes a lease has won the ballot.
Winners ==
    /\ \A m \in Proposals : Won(m.from, m.ballot) /\ Won(m.from, prepared[m.from])
    /\ \A g \in Grants : Won(g.to, g.ballot) /\ Won(g.to, prepared[g.to])
    /\ \A m \in Proposals : m.start <= now
    /\ \A q \in Nodes : accLease[q].owner # NoNode =>
            Won(accLease[q].owner, accLease[q].ballot)
    /\ \A v \in Votes : v.lease # NoLease => Won(v.lease.owner, v.lease.ballot)

\* An acceptor remembers a lease until it has expired ...
GrantKept ==
    \A g \in Grants : now < g.start + LeaseInterval =>
        LET l == accLease[g.from] IN
        /\ l.owner # NoNode
        /\ g.start + LeaseInterval <= l.end
        /\ g.ballot <= l.ballot
        /\ g.ballot = l.ballot => g.to = l.owner

\* ... and tells of it with each vote in a higher ballot.
VoteTellsLease ==
    \A v \in Votes, g \in Grants :
        v.from = g.from /\ g.ballot < v.ballot /\ now < g.start + LeaseInterval =>
            /\ v.lease # NoLease
            /\ g.ballot <= v.lease.ballot
            /\ v.lease.ballot < v.ballot
            /\ g.ballot = v.lease.ballot => g.to = v.lease.owner

\* When a ballot has been won, no other replica that has not handed over still
\* has, or can still get, a valid lease of a lower ballot.
Excluded ==
    \A r, p \in Nodes : \A b1, b0 \in Ballot :
        Won(r, b1) /\ b0 < b1 /\ p # r /\ Holds(p, b0) => IsMajority(Lost(p, b0))

\* A lease is backed by a majority in a ballot that was not handed over.
LeaseBacked ==
    \A p \in Nodes : lease[p] # INVALID =>
        \E b0 \in Ballot : Holds(p, b0) /\ IsMajority(Backers(p, b0, lease[p]))

\* The epochs that were exposed are ballots that were won.
Epochs ==
    /\ \A p \in Nodes : CheckLeader(p) => Won(p, epoch[p])
    /\ \A x \in leaders : Won(x[1], x[2])

IInv ==
    /\ TypeOK
    /\ VoteOnce /\ Promised /\ Counted /\ Winners
    /\ GrantKept /\ VoteTellsLease /\ Excluded
    /\ LeaseBacked /\ Epochs

\* prepare_success_ballot_ is between whatever was proposed, granted or exposed
\* and the ballot of the proposer.
EpochOrder ==
    /\ \A p \in Nodes :
        /\ prepared[p] <= ballot[p]
        /\ CheckLeader(p) => epoch[p] <= prepared[p]
    /\ \A m \in Proposals : m.ballot <= prepared[m.from]
    /\ \A g \in Grants : g.ballot <= prepared[g.to]
    /\ \A x \in leaders : x[2] <= prepared[x[1]]

-----------------------------------------------------------------------------
(* The responses that ResponseChecker asserts about, restarts included *)

Requests == {m \in msgs : m.type \in {"prepare", "accept"}}
Responses == {m \in msgs : m.type \in {"prepared", "accepted"}}

\* p has restarted at time t - d or later, and may have forgotten what it asked
\* for until then.
Forgot(p, t, d) == restarts[p] > 0 /\ t + DownTime <= initTs[p] + d

\* What a proposer asks for is not above its ballot, unless it has restarted
\* since ...
Asked ==
    /\ \A m \in Requests : m.ballot <= ballot[m.from] \/ Forgot(m.from, m.sent, 0)
    /\ \A p \in Nodes : prepared[p] <= ballot[p]

\* ... nor is the request that an open time window keeps ...
Collected ==
    \A q \in Nodes : best[q] # NoRequest =>
        /\ best[q].opened <= now /\ now <= best[q].opened + MaxWindow
        /\ \/ window[q] <= ballot[best[q].from]
           \/ Forgot(best[q].from, best[q].opened, MaxDelay)

\* ... nor what it is granted: an answer is at most one delay and one window
\* later than the request.
Answered ==
    \A m \in Responses :
        m.ballot <= ballot[m.to] \/ Forgot(m.to, m.sent, MaxDelay + MaxWindow)

AskInv ==
    /\ \A p \in Nodes : restarts[p] <= MaxRestarts[p]
    /\ \A m \in msgs : m.sent <= now
    /\ Asked /\ Collected /\ Answered
=============================================================================
