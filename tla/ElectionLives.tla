--------------------------- MODULE ElectionLives ---------------------------
(***************************************************************************)
(* The inductive invariant behind OneLeader of Election when replicas      *)
(* restart.  A replica that restarts has forgotten its ballots, votes and  *)
(* promises, so that the same ballot can be won again, by another replica  *)
(* too; what keeps two leaders apart is time.  The messages and their time *)
(* stamps are the history that the invariant speaks of.                    *)
(***************************************************************************)
EXTENDS ElectionInv

\* The longest time from the first request of a ballot to its last vote's
\* arrival: the requests are repeated for at most one lease.
Campaign == 2 * MaxDelay + LeaseInterval

\* The time from the last word of an acceptor before a restart to its first
\* word after it
Gap == DownTime + MaxLeaseTime

\* A restart takes longer than a campaign; with the silence after it, as long
\* as two campaigns and a lease.  With the code's 1 s for a delay, 4 s for a
\* lease and 10 s of silence: a restart takes more than 6 s.
Patient ==
    /\ MaxDelay < LeaseInterval /\ MaxWindow <= LeaseInterval
    /\ Campaign < DownTime
    /\ 2 * Campaign + LeaseInterval <= Gap

\* Time t is in the present life of p, or in one before it.
Present(p, t) == initTs[p] <= t
Past(p, t) == t + DownTime <= initTs[p]

\* The times that a campaign or a lease can start at
Moment == (0 - Campaign) .. MaxTime

Prepares == {m \in msgs : m.type = "prepare"}
Words == Votes \cup Grants

-----------------------------------------------------------------------------
(* When things are sent *)

\* A message is sent in one life of its sender; a word after the silence.
Lives ==
    /\ \A m \in msgs : m.sent <= now
    /\ \A m \in msgs : m.type # "rejected" =>
            Present(m.from, m.sent) \/ Past(m.from, m.sent)
    /\ \A w \in Words :
            initTs[w.from] + MaxLeaseTime <= w.sent \/ Past(w.from, w.sent)
    /\ \A m \in Proposals : m.start = m.sent

\* Within a life an acceptor does not go back behind its words ...
WordKept == \A w \in Words : Present(w.from, w.sent) => w.ballot <= accBallot[w.from]

\* ... and votes once in a ballot.
VotesApart ==
    \A v, w \in Votes : v.from = w.from /\ v.ballot = w.ballot /\ v.sent <= w.sent =>
        v.to = w.to \/ v.sent + Gap <= w.sent

\* An open time window keeps a request that came in time.
WindowAsked ==
    \A q \in Nodes : best[q] # NoRequest =>
        /\ initTs[q] + MaxLeaseTime <= now
        /\ best[q].opened <= now /\ now <= best[q].opened + MaxWindow
        /\ \E x \in Prepares :
            /\ x.from = best[q].from /\ x.ballot = window[q] /\ x.role = "follower"
            /\ best[q].opened <= x.sent + MaxDelay

\* A vote answers a request, a grant a proposal.
VoteAsked ==
    \A v \in Votes : \E x \in Prepares :
        /\ x.from = v.to /\ x.ballot = v.ballot /\ x.sent <= v.sent
        /\ v.sent <= x.sent + MaxDelay + (IF x.role = "leader" THEN 0 ELSE MaxWindow)

GrantAsked ==
    \A g \in Grants :
        /\ g.start <= g.sent /\ g.sent <= g.start + MaxDelay
        /\ \E m \in Proposals : m.from = g.to /\ m.ballot = g.ballot /\ m.start = g.start

-----------------------------------------------------------------------------
(* The proposer *)

\* Within a life, a proposer's ballot is that of its last request or above it.
OwnBallots ==
    /\ \A p \in Nodes : prepared[p] <= ballot[p]
    /\ \A x \in Prepares : Present(x.from, x.sent) => x.ballot <= ballot[x.from]
    /\ \A m \in Proposals : Present(m.from, m.sent) => m.ballot <= prepared[m.from]
    /\ \A h \in HandOvers : Present(h.from, h.sent) =>
            h.old < h.ballot /\ h.ballot <= ballot[h.from]

\* A campaign: the requests of one ballot are sent within one lease; only the
\* first can be that of a follower.
CampaignShort ==
    /\ \A x, y \in Prepares :
        /\ x.from = y.from /\ x.ballot = y.ballot
        /\ Present(x.from, x.sent) /\ Present(y.from, y.sent)
        => /\ x.sent <= y.sent + LeaseInterval
           /\ x.role = "follower" => x.sent <= y.sent
    /\ \A y \in Prepares :
        /\ Present(y.from, y.sent) /\ y.ballot = ballot[y.from]
        /\ prepared[y.from] # ballot[y.from]
        => lease[y.from] <= y.sent + LeaseInterval

\* p asks in the ballot that h hands over only soon after h, and hands it over
\* itself no later.
SoonAfter(p, h) ==
    /\ \A x \in Prepares :
        x.from = p /\ x.ballot = h.ballot /\ Present(p, x.sent) =>
            /\ x.role = "leader"
            /\ h.sent <= x.sent /\ x.sent <= h.sent + MaxDelay + LeaseInterval
    /\ \A k \in HandOvers :
        k.from = p /\ k.ballot = h.ballot /\ Present(p, k.sent) => k.sent <= h.sent
    /\ ballot[p] = h.ballot /\ prepared[p] # ballot[p] =>
            lease[p] <= h.sent + MaxDelay + LeaseInterval

HandedOver == \A h \in HandOvers : Present(h.from, h.sent) => SoonAfter(h.from, h)

SourceKnown ==
    \A p \in Nodes : source[p] # NoSource =>
        \E h \in HandOvers :
            /\ h.to = p /\ h.ballot = ballot[p]
            /\ h.from = source[p].addr /\ h.old = source[p].ballot
            /\ SoonAfter(p, h)

\* A vote that its receiver counts: soon after a hand-over, if it needs one.
CountsFor(v) ==
    \/ v.lease = NoLease
    \/ v.lease.owner = v.to
    \/ \E h \in HandOvers :
            /\ h.to = v.to /\ h.ballot = v.ballot
            /\ h.from = v.lease.owner /\ h.old = v.lease.ballot
            /\ v.sent <= h.sent + Campaign

\* What a proposer counts was sent to it in its present life.
Tallied ==
    /\ \A p \in Nodes : \A q \in prepareOk[p] :
        \E v \in Votes :
            /\ v.from = q /\ v.to = p /\ v.ballot = ballot[p] /\ CountsFor(v)
            /\ \E x \in Prepares : /\ x.from = p /\ x.ballot = ballot[p]
                                   /\ Present(p, x.sent) /\ x.sent <= v.sent
    /\ \A p, q \in Nodes : promised[p][q] # 0 =>
            \E g \in Grants : /\ g.from = q /\ g.to = p /\ g.ballot = ballot[p]
                              /\ promised[p][q] = g.start + LeaseInterval
                              /\ Present(p, g.start)

-----------------------------------------------------------------------------
(* Leases *)

\* An acceptor remembers a lease, or a later one, until it has expired ...
LeaseKept ==
    \A g \in Grants : Present(g.from, g.sent) /\ now < g.start + LeaseInterval =>
        LET l == accLease[g.from] IN
        /\ l.owner # NoNode
        /\ g.start + LeaseInterval <= l.end
        /\ \E k \in Grants :
            /\ k.from = g.from /\ k.to = l.owner /\ k.ballot = l.ballot
            /\ g.sent <= k.sent /\ g.ballot <= k.ballot

\* ... and tells of it with each vote in a higher ballot.
LeaseTold ==
    \A v \in Votes, g \in Grants :
        /\ v.from = g.from /\ g.ballot < v.ballot
        /\ v.sent < g.start + LeaseInterval /\ g.sent < v.sent + Gap
        => /\ v.lease # NoLease
           /\ \E k \in Grants :
                /\ k.from = g.from /\ k.to = v.lease.owner /\ k.ballot = v.lease.ballot
                /\ g.sent <= k.sent /\ k.sent <= v.sent /\ g.ballot <= k.ballot

\* p has not given up ballot b0 or a later one, at least not in the life that
\* time t is in.
Keeps(p, b0, t) ==
    \A h \in HandOvers : h.from = p => h.old < b0 \/ h.sent + DownTime <= t

\* Replicas from which p never has a lease of ballot b0 that runs from t on
Lapsed(p, b0, t) ==
    {q \in Nodes :
        /\ \A g \in Grants : g.from = q /\ g.to = p /\ g.ballot = b0 =>
                g.start < t \/ t + LeaseInterval <= g.sent
        /\ \/ b0 < accBallot[q]
           \/ t + LeaseInterval <= initTs[q] + MaxLeaseTime
           \/ t + LeaseInterval <= now}

\* While a lease is proposed, nobody else has one of a lower ballot ...
LowerLapsed ==
    \A m \in Proposals, p \in Nodes, b0 \in Ballot, t \in Moment :
        /\ p # m.from /\ b0 < m.ballot /\ Keeps(p, b0, t)
        /\ m.start < t + LeaseInterval /\ t < m.start + LeaseInterval
        => IsMajority(Lapsed(p, b0, t))

\* Replicas from which p never has a vote in ballot b0 in a campaign that
\* starts at t
Mute(p, b0, t) ==
    {q \in Nodes :
        /\ \A v \in Votes : v.from = q /\ v.to = p /\ v.ballot = b0 =>
                v.sent < t \/ t + Campaign < v.sent
        /\ \/ b0 <= accBallot[q]
           \/ t + Campaign < initTs[q] + MaxLeaseTime
           \/ t + Campaign < now}

\* ... nor wins the same ballot ...
RivalsMute ==
    \A m \in Proposals, p \in Nodes, t \in Moment :
        /\ p # m.from
        /\ m.start <= t + Campaign /\ t < m.start + LeaseInterval
        => IsMajority(Mute(p, m.ballot, t))

\* ... so that two winners of a ballot are one lease apart.
WinnersApart ==
    \A m, n \in Proposals : m.ballot = n.ballot /\ m.start <= n.start =>
        m.from = n.from \/ m.start + LeaseInterval <= n.start

\* Replicas that spoke for p in ballot b0 less than one lease before t
Speakers(p, b0, t) ==
    {q \in Nodes : \E w \in Words :
        w.from = q /\ w.to = p /\ w.ballot = b0 /\ t <= w.sent + LeaseInterval}

\* A lease is that of a proposal in the ballot that was won last, by recent
\* words of a majority; and it is backed by a majority in one ballot, which was
\* not handed over.
LeaseHeld ==
    \A p \in Nodes : lease[p] # INVALID =>
        /\ \E m \in Proposals :
            /\ m.from = p /\ m.ballot = prepared[p]
            /\ lease[p] <= m.start + LeaseInterval
        /\ IsMajority(Speakers(p, prepared[p], lease[p]))
        /\ \E b0 \in Ballot :
            /\ Keeps(p, b0, lease[p] - LeaseInterval)
            /\ IsMajority(Backers(p, b0, lease[p]))

LifeInv ==
    /\ TypeOK
    /\ Lives /\ WordKept /\ VotesApart /\ WindowAsked /\ VoteAsked /\ GrantAsked
    /\ OwnBallots /\ CampaignShort /\ HandedOver /\ SourceKnown /\ Tallied
    /\ LeaseKept /\ LeaseTold /\ LowerLapsed /\ RivalsMute /\ WinnersApart
    /\ LeaseHeld
=============================================================================
